------------------------------ MODULE AlgoOps ------------------------------
(***************************************************************************)
(* The pure part of the algorithm runner (algorithm_runner.cpp): what      *)
(* runMath and runStr compute for a request, how a worker or a blocking    *)
(* call dispatches on the payload, and the deadline arithmetic of get.     *)
(*                                                                         *)
(* int32 becomes IntMin..IntMax and the 32-character limit of CONCAT       *)
(* becomes ConcatLimit, so that small instances reach both boundaries.     *)
(***************************************************************************)
EXTENDS Integers, Sequences

CONSTANTS
    IntMax,        \* largest int32 (2^31 - 1 in the code)
    Char,          \* the characters of the strings
    ConcatLimit,   \* longest CONCAT result (32 in the code)
    NsPerMs,       \* nanoseconds per millisecond (10^6 in the code)
    MsPerSec       \* milliseconds per second (10^3 in the code)

ASSUME AlgoOpsAssumption ==
    /\ IntMax \in Nat \ {0}
    /\ ConcatLimit \in Nat
    /\ NsPerMs \in Nat \ {0}
    /\ MsPerSec \in Nat \ {0}

-----------------------------------------------------------------------------
(* The protobuf types (protos/ipc.proto).  Enums are open in proto3, so an  *)
(* operation outside the enum ("?") can be received.                        *)

FinalStatus == {"SUCCESS", "ERROR_INVALID_INPUT", "ERROR_DIV_BY_ZERO",
                "ERROR_SUBSTR_NOT_FOUND", "ERROR_STRING_TOO_LONG"}

Status == FinalStatus \union {"ERROR_INTERNAL", "NOT_FINISHED"}

MathOp == {"ADD", "SUB", "MUL", "DIV"}
StrOp  == {"CONCAT", "FIND_START"}

IntMin == -IntMax - 1
Int32  == IntMin..IntMax
Str    == Seq(Char)

MathArgs == [op : MathOp \union {"?"}, a : Int32, b : Int32]
StrArgs  == [op : StrOp \union {"?"}, s1 : Str, s2 : Str]

(* The payload of a SubmitRequest is a oneof: math, str or not set. *)
Payload == [math : MathArgs] \union [str : StrArgs] \union {[unset |-> TRUE]}

has_math(r) == "math" \in DOMAIN r
has_str(r)  == "str" \in DOMAIN r

(* The value of a Result is a oneof too. *)
VALUE_NOT_SET == [unset |-> TRUE]
Result == [int_result : Int32] \union [position : Int]
              \union [str_result : Str] \union {VALUE_NOT_SET}

Outcome == [status : FinalStatus, result : Result]

Fail(st)   == [status |-> st, result |-> VALUE_NOT_SET]
Succeed(v) == [status |-> "SUCCESS", result |-> v]

-----------------------------------------------------------------------------
(* Arithmetic.  + - * wrap around at the width of the type, which is what   *)
(* the machine instructions of the build do; / truncates towards zero.      *)

Wrap(x) == ((x - IntMin) % (IntMax - IntMin + 1)) + IntMin

Abs(x) == IF x < 0 THEN -x ELSE x

Bug_FloorDiv(a, b) == IF b > 0 THEN a \div b ELSE (-a) \div (-b)

TruncDiv(a, b) ==
    LET q == Abs(a) \div Abs(b)
    IN  IF (a < 0) = (b < 0) THEN q ELSE -q

(* IntMin / -1 is undefined: the x86 instruction traps (SIGFPE). *)
Traps(m) == m.op = "DIV" /\ m.a = IntMin /\ m.b = -1

runMath(m) ==
    CASE m.op = "ADD" -> Succeed([int_result |-> Wrap(m.a + m.b)])
      [] m.op = "SUB" -> Succeed([int_result |-> Wrap(m.a - m.b)])
      [] m.op = "MUL" -> Succeed([int_result |-> Wrap(m.a * m.b)])
      [] m.op = "DIV" -> IF m.b = 0 THEN Fail("ERROR_DIV_BY_ZERO")
                         ELSE Succeed([int_result |-> Wrap(TruncDiv(m.a, m.b))])
      [] OTHER        -> Fail("ERROR_INVALID_INPUT")

-----------------------------------------------------------------------------
(* Strings.  Positions are 0-based, as in std::string::find. *)

OccursAt(s, t, p) ==
    /\ p + Len(t) <= Len(s)
    /\ \A i \in 1..Len(t) : s[p + i] = t[i]

Occurrences(s, t) == {p \in 0..Len(s) : OccursAt(s, t, p)}

Bug_rfind(s, t) == CHOOSE p \in Occurrences(s, t) :
                       \A q \in Occurrences(s, t) : q <= p

find(s, t) == CHOOSE p \in Occurrences(s, t) :
                  \A q \in Occurrences(s, t) : p <= q

Bug_LimitOffByOne(s) ==
    CASE s.op = "CONCAT" ->
           IF Len(s.s1 \o s.s2) >= ConcatLimit
           THEN Fail("ERROR_STRING_TOO_LONG")
           ELSE Succeed([str_result |-> s.s1 \o s.s2])
      [] s.op = "FIND_START" ->
           IF Occurrences(s.s1, s.s2) = {}
           THEN Fail("ERROR_SUBSTR_NOT_FOUND")
           ELSE Succeed([position |-> find(s.s1, s.s2)])
      [] OTHER -> Fail("ERROR_INVALID_INPUT")

runStr(s) ==
    CASE s.op = "CONCAT" ->
           IF Len(s.s1 \o s.s2) > ConcatLimit
           THEN Fail("ERROR_STRING_TOO_LONG")
           ELSE Succeed([str_result |-> s.s1 \o s.s2])
      [] s.op = "FIND_START" ->
           IF Occurrences(s.s1, s.s2) = {}
           THEN Fail("ERROR_SUBSTR_NOT_FOUND")
           ELSE Succeed([position |-> find(s.s1, s.s2)])
      [] OTHER -> Fail("ERROR_INVALID_INPUT")

-----------------------------------------------------------------------------
(* The dispatch on the payload, the same in a worker (workerLoop) and in a  *)
(* blocking call (run).                                                     *)

execute(r) ==
    IF has_math(r) THEN runMath(r.math)
    ELSE IF has_str(r) THEN runStr(r.str)
    ELSE Fail("ERROR_INVALID_INPUT")

-----------------------------------------------------------------------------
(* addMsToTimespec: the absolute deadline of a waiting get. *)

NsPerSec == NsPerMs * MsPerSec

Bug_NoCarry(ts, ms) ==
    [sec  |-> ts.sec + (ms \div MsPerSec),
     nsec |-> ts.nsec + (ms % MsPerSec) * NsPerMs]

addMsToTimespec(ts, ms) ==
    LET total == ts.sec * NsPerSec + ts.nsec + ms * NsPerMs
    IN  [sec |-> total \div NsPerSec, nsec |-> total % NsPerSec]

=============================================================================
