----------------------------- MODULE MCAlgoOps -----------------------------
(***************************************************************************)
(* Checks the operators of AlgoOps and TicketId against reference          *)
(* definitions on every small input: a question is put once and answered   *)
(* once.                                                                   *)
(***************************************************************************)
EXTENDS AlgoOps, TicketId, FiniteSets

CONSTANTS
    MaxLen,   \* bound: longest string put to runStr
    MaxMs,    \* bound: longest timeout put to addMsToTimespec
    MaxTs,    \* bound: latest clock value put to reqId
    MaxSeq    \* bound: highest sequence number put to reqId

ASSUME BoundsAssumption ==
    /\ MaxLen \in Nat
    /\ MaxMs \in Nat
    /\ MaxTs \in Nat
    /\ MaxSeq \in Nat

VARIABLES question, answer

vars == <<question, answer>>

MCChar == {"x", "y"}

Strings == UNION {[1..n -> Char] : n \in 0..MaxLen}

Submits ==
    [math : MathArgs]
        \union [str : [op : StrOp \union {"?"}, s1 : Strings, s2 : Strings]]
        \union {[unset |-> TRUE]}

Deadlines == [now : [sec : 0..1, nsec : 0..(NsPerSec - 1)], ms : 0..MaxMs]

(* Two jobs in the order in which they were submitted. *)
JobPairs == {p \in [ts : (0..MaxTs) \X (0..MaxTs),
                    seq : (0..MaxSeq) \X (0..MaxSeq)] :
                p.ts[1] <= p.ts[2] /\ p.seq[1] < p.seq[2]}

Unanswered == [open |-> TRUE]

(* What the build can make of a request: IntMin / -1 kills the process on   *)
(* x86 and yields IntMin on ARM.                                            *)
Killed == [killed |-> TRUE]
Outcomes(r) ==
    {execute(r)} \union (IF has_math(r) /\ Traps(r.math) THEN {Killed} ELSE {})

Init ==
    /\ question \in Submits \union Deadlines \union JobPairs
    /\ answer = Unanswered

AnswerSubmit ==
    /\ answer = Unanswered
    /\ question \in Submits
    /\ answer' \in Outcomes(question)
    /\ UNCHANGED question

AnswerDeadline ==
    /\ answer = Unanswered
    /\ question \in Deadlines
    /\ answer' = addMsToTimespec(question.now, question.ms)
    /\ UNCHANGED question

AnswerIds ==
    /\ answer = Unanswered
    /\ question \in JobPairs
    /\ answer' = [first  |-> reqId(question.ts[1], question.seq[1]),
                  second |-> reqId(question.ts[2], question.seq[2])]
    /\ UNCHANGED question

Answered ==
    /\ answer # Unanswered
    /\ UNCHANGED vars

Next == AnswerSubmit \/ AnswerDeadline \/ AnswerIds \/ Answered

Spec == Init /\ [][Next]_vars

-----------------------------------------------------------------------------
IsMath == answer \notin {Unanswered, Killed} /\ has_math(question)
IsStr  == answer # Unanswered /\ has_str(question)

(* The exact value of + - *, without a width. *)
Exact(m) == CASE m.op = "ADD" -> m.a + m.b
              [] m.op = "SUB" -> m.a - m.b
              [] m.op = "MUL" -> m.a * m.b

(* runMath: + - * always succeed, with the exact value whenever it is an    *)
(* int32 and with the int32 that differs from it by a multiple of 2^32      *)
(* otherwise, so an overflow is not reported; / is the C++ quotient, the    *)
(* one whose remainder is smaller than the divisor and has the sign of the  *)
(* dividend; IntMin / -1, where it does not kill the process, is IntMin;    *)
(* division by zero is the only failure.                                    *)
MathIsExact ==
    IsMath =>
      LET m == question.math
          v == answer.result.int_result
      IN  /\ m.op \in {"ADD", "SUB", "MUL"} =>
                /\ answer.status = "SUCCESS"
                /\ v \in Int32
                /\ (v - Exact(m)) % (IntMax - IntMin + 1) = 0
                /\ Exact(m) \in Int32 => v = Exact(m)
          /\ m.op = "DIV" /\ m.b # 0 /\ ~Traps(m) =>
                /\ answer.status = "SUCCESS"
                /\ Abs(m.a - v * m.b) < Abs(m.b)
                /\ (m.a - v * m.b) * m.a >= 0
          /\ Traps(m) => answer.status = "SUCCESS" /\ v = IntMin
          /\ m.op = "DIV" /\ m.b = 0 => answer = Fail("ERROR_DIV_BY_ZERO")

(* runStr, FIND_START: the position reported splits the haystack around the *)
(* needle, no shorter prefix does, and "not found" means there is none.     *)
FindIsFirst ==
    (IsStr /\ question.str.op = "FIND_START") =>
      LET h == question.str.s1
          n == question.str.s2
          Splits(k) == \E u, v \in Strings : Len(u) = k /\ h = u \o n \o v
      IN  IF answer.status = "SUCCESS"
          THEN /\ Splits(answer.result.position)
               /\ \A k \in 0..MaxLen : Splits(k) => answer.result.position <= k
          ELSE \A k \in 0..MaxLen : ~Splits(k)

(* README: "FIND_START (checks if string starts with substring)": it        *)
(* succeeds exactly when the needle is a prefix of the haystack.            *)
FindChecksPrefix ==
    (IsStr /\ question.str.op = "FIND_START") =>
      (answer.status = "SUCCESS"
         <=> \E rest \in Strings : question.str.s1 = question.str.s2 \o rest)

(* runStr, CONCAT: refused exactly when the result is longer than the       *)
(* limit, otherwise s1 followed by s2.                                      *)
ConcatUpToLimit ==
    (IsStr /\ question.str.op = "CONCAT") =>
      LET s1 == question.str.s1
          s2 == question.str.s2
      IN  /\ answer.status = "SUCCESS" <=> Len(s1) + Len(s2) <= ConcatLimit
          /\ answer.status = "SUCCESS" =>
                /\ SubSeq(answer.result.str_result, 1, Len(s1)) = s1
                /\ SubSeq(answer.result.str_result, Len(s1) + 1,
                          Len(s1) + Len(s2)) = s2
                /\ Len(answer.result.str_result) = Len(s1) + Len(s2)

(* The deadline handed to pthread_cond_timedwait is a valid timespec        *)
(* (nanoseconds below one second) exactly ms after now.                     *)
DeadlineIsValid ==
    (answer # Unanswered /\ question \in Deadlines) =>
      /\ answer.nsec \in 0..(NsPerSec - 1)
      /\ answer.sec * NsPerSec + answer.nsec
            = question.now.sec * NsPerSec + question.now.nsec
                + question.ms * NsPerMs

(* enqueue: an identifier has 64 bits, and two jobs share one exactly when  *)
(* the clock advanced by a multiple of the range of its part and the        *)
(* sequence number by a multiple of 65536.                                  *)
IdsSharedOnlyAfterWrap ==
    (answer # Unanswered /\ question \in JobPairs) =>
      /\ answer.first \in 0..(TsRange * SeqRange - 1)
      /\ answer.first = answer.second <=>
            /\ (question.ts[2] - question.ts[1]) % TsRange = 0
            /\ (question.seq[2] - question.seq[1]) % SeqRange = 0
=============================================================================
