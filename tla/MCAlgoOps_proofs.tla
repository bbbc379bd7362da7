-------------------------- MODULE MCAlgoOps_proofs --------------------------
(***************************************************************************)
(* What runMath, runStr, addMsToTimespec and the identifiers of enqueue    *)
(* compute, against the reference definitions of MCAlgoOps, for every      *)
(* width, alphabet, limit and length of the inputs.                        *)
(*                                                                         *)
(* One inductive invariant, AnswerInv, says that the answer is what the    *)
(* operator yields for the question; each property then is a fact about    *)
(* the operator.                                                           *)
(***************************************************************************)
EXTENDS MCAlgoOps, AlgoOps_proofs, SequenceTheorems

(* Shifting is taking the clock modulo its range and scaling it. *)
LEMMA ShiftWraps ==
    ASSUME NEW ts \in Nat
    PROVE  (ts * SeqRange) % (TsRange * SeqRange) = SeqRange * (ts % TsRange)
<1> DEFINE S == SeqRange
           T == TsRange
           q == ts \div T
           r == ts % T
           Q == (ts * S) \div (T * S)
           R == (ts * S) % (T * S)
<1>1. S \in Nat \ {0} /\ T \in Nat \ {0}
  BY TicketIdAssumption
<1>2. q \in Nat /\ r \in 0..(T - 1) /\ ts = T * q + r
  BY <1>1, DivMod
<1>3. T * S \in Nat \ {0} /\ ts * S \in Nat
  BY <1>1
<1>4. Q \in Nat /\ R \in 0..(T * S - 1) /\ ts * S = (T * S) * Q + R
  BY <1>3, DivMod
<1>5. S * r \in 0..(T * S - 1) /\ ts * S = (T * S) * q + S * r
  <2> HIDE DEF q, r, S, T
  <2>1. S * r \in Nat /\ S * (T - 1 - r) \in Nat
    BY <1>1, <1>2
  <2>2. S * (T - 1 - r) = T * S - S - S * r
    BY <1>1, <1>2
  <2>3. ts * S = (T * q + r) * S
    BY <1>2
  <2>4. (T * q + r) * S = (T * S) * q + S * r
    BY <1>1, <1>2
  <2> QED  BY <1>1, <1>2, <2>1, <2>2, <2>3, <2>4
<1>6. (T * S) * Q + R = (T * S) * q + S * r
  BY <1>4, <1>5
<1> HIDE DEF S, T, q, r, Q, R
<1>7. R = S * r
  <2> DEFINE K == T * S
             V == S * r
  <2>1. K \in Nat \ {0} /\ R \in 0..(K - 1) /\ V \in 0..(K - 1)
    BY <1>3, <1>4, <1>5
  <2>2. K * Q + R = K * q + V
    BY <1>6
  <2>3. Q \in Int /\ q \in Int
    BY <1>2, <1>4
  <2> HIDE DEF K, V
  <2>4. R = V
    BY <2>1, <2>2, <2>3, DivModUnique
  <2> QED  BY <2>4 DEF V
<1> QED  BY <1>7 DEF R, r, S, T

(* Two identifiers are equal only when both parts are. *)
LEMMA PartsDetermineId ==
    ASSUME NEW t \in Nat, NEW u \in Nat, NEW a \in Nat, NEW b \in Nat,
           reqId(t, a) = reqId(u, b)
    PROVE  t % TsRange = u % TsRange /\ a % SeqRange = b % SeqRange
<1>1. SeqRange * (t % TsRange) + (a % SeqRange)
        = SeqRange * (u % TsRange) + (b % SeqRange)
  BY ShiftWraps DEF reqId
<1>2. /\ t % TsRange \in Int /\ u % TsRange \in Int
      /\ a % SeqRange \in 0..(SeqRange - 1)
      /\ b % SeqRange \in 0..(SeqRange - 1)
  BY TicketIdAssumption, DivMod
<1> QED  BY <1>1, <1>2, TicketIdAssumption, DivModUnique

(* Numbers less than k apart are equal when they are modulo k. *)
LEMMA NearIsEqual ==
    ASSUME NEW k \in Nat \ {0}, NEW m \in Nat, NEW n \in Nat,
           m <= n, n - m < k, m % k = n % k
    PROVE  m = n
<1> DEFINE p == m \div k
           q == n \div k
<1>1. p \in Nat /\ q \in Nat /\ m % k \in 0..(k - 1)
  BY DivMod
<1>2. m = k * p + (m % k) /\ n = k * q + (n % k)
  BY DivMod
<1>3. n - m = k * (q - p)
  <2> HIDE DEF p, q
  <2> QED  BY <1>1, <1>2
<1> HIDE DEF p, q
<1>4. ASSUME q - p >= 1  PROVE FALSE
  <2>1. k * (q - p) >= k
    BY <1>1, <1>4
  <2> QED  BY <1>3, <2>1
<1>5. ASSUME q - p <= -1  PROVE FALSE
  <2>1. k * (q - p) <= -k
    BY <1>1, <1>5
  <2> QED  BY <1>3, <2>1
<1>6. q - p = 0
  BY <1>1, <1>4, <1>5
<1> QED  BY <1>1, <1>3, <1>6

(* enqueue never gives two jobs one identifier, so that no live job is      *)
(* overwritten in the map, while the clock advances by less than 2^48 ns    *)
(* (78 hours) and fewer than 65536 jobs are submitted at one clock value.   *)
THEOREM IdsDistinct ==
    ASSUME NEW t \in Nat, NEW u \in Nat, NEW a \in Nat, NEW b \in Nat,
           t <= u, u - t < TsRange,
           a < b, t = u => b - a < SeqRange
    PROVE  reqId(t, a) # reqId(u, b)
<1> SUFFICES ASSUME reqId(t, a) = reqId(u, b)  PROVE FALSE
  OBVIOUS
<1>1. t % TsRange = u % TsRange /\ a % SeqRange = b % SeqRange
  BY PartsDetermineId
<1>2. t = u
  BY <1>1, NearIsEqual, TicketIdAssumption
<1>3. a <= b /\ b - a < SeqRange
  BY <1>2
<1>4. a = b
  BY <1>1, <1>3, NearIsEqual, TicketIdAssumption
<1> QED  BY <1>4

(* The identifier in terms of its two parts, and its range. *)
LEMMA IdParts ==
    ASSUME NEW t \in Nat, NEW a \in Nat
    PROVE  /\ reqId(t, a) = SeqRange * (t % TsRange) + (a % SeqRange)
           /\ reqId(t, a) \in 0..(TsRange * SeqRange - 1)
<1> DEFINE S == SeqRange
           T == TsRange
           h == t % T
           l == a % S
<1>1. S \in Nat \ {0} /\ T \in Nat \ {0}
  BY TicketIdAssumption
<1>2. h \in 0..(T - 1) /\ l \in 0..(S - 1)
  BY <1>1, DivMod
<1>3. reqId(t, a) = S * h + l
  BY ShiftWraps DEF reqId
<1>4. S * h + l \in 0..(T * S - 1)
  <2> HIDE DEF S, T, h, l
  <2>1. S * (T - 1 - h) \in Nat /\ S * h \in Nat
    BY <1>1, <1>2
  <2>2. S * (T - 1 - h) = T * S - S - S * h
    BY <1>1, <1>2
  <2>3. T * S \in Nat
    BY <1>1
  <2> QED  BY <1>1, <1>2, <2>1, <2>2, <2>3
<1> QED  BY <1>3, <1>4

(* Two numbers have one remainder exactly when their difference has none. *)
LEMMA SameRemainder ==
    ASSUME NEW k \in Nat \ {0}, NEW m \in Nat, NEW n \in Nat, m <= n
    PROVE  m % k = n % k <=> (n - m) % k = 0
<1> DEFINE p == m \div k
           q == n \div k
           d == (n - m) \div k
           e == (n - m) % k
           x == m % k
           y == n % k
<1>1. /\ p \in Nat /\ x \in 0..(k - 1) /\ m = k * p + x
      /\ q \in Nat /\ y \in 0..(k - 1) /\ n = k * q + y
  BY DivMod
<1>2. d \in Nat /\ e \in 0..(k - 1) /\ n - m = k * d + e
  <2>1. n - m \in Nat
    OBVIOUS
  <2> QED  BY <2>1, DivMod
<1> HIDE DEF p, q, d, e, x, y
<1>3. ASSUME x = y  PROVE e = 0
  <2>1. k * d + e = k * (q - p) + 0
    BY <1>1, <1>2, <1>3
  <2>2. q - p \in Int /\ d \in Int /\ 0 \in 0..(k - 1)
    BY <1>1, <1>2
  <2> QED  BY <1>2, <2>1, <2>2, DivModUnique
<1>4. ASSUME e = 0  PROVE x = y
  <2>1. k * (p + d) + x = k * q + y
    <3>1. k * (p + d) = k * p + k * d
      BY <1>1, <1>2
    <3> QED  BY <1>1, <1>2, <1>4, <3>1
  <2> DEFINE z == p + d
  <2>2. z \in Int /\ q \in Int
    BY <1>1, <1>2
  <2> HIDE DEF z
  <2>3. k * z + x = k * q + y
    BY <2>1 DEF z
  <2> QED  BY <1>1, <2>2, <2>3, DivModUnique
<1> QED  BY <1>3, <1>4 DEF x, y, e

-----------------------------------------------------------------------------
(* What the answer is, for each kind of question. *)
AnswerInv ==
    /\ question \in Submits \union Deadlines \union JobPairs
    /\ \/ answer = Unanswered
       \/ question \in Submits /\ answer \in Outcomes(question)
       \/ /\ question \in Deadlines
          /\ answer = addMsToTimespec(question.now, question.ms)
       \/ /\ question \in JobPairs
          /\ answer = [first  |-> reqId(question.ts[1], question.seq[1]),
                       second |-> reqId(question.ts[2], question.seq[2])]

(* AnswerInv is an invariant. *)
LEMMA AnswerInvariant == Spec => []AnswerInv
<1>1. Init => AnswerInv
  BY DEF Init, AnswerInv
<1>2. AnswerInv /\ [Next]_vars => AnswerInv'
  <2> SUFFICES ASSUME AnswerInv, [Next]_vars  PROVE AnswerInv'
    OBVIOUS
  <2>1. CASE AnswerSubmit
    BY <2>1 DEF AnswerInv, AnswerSubmit
  <2>2. CASE AnswerDeadline
    BY <2>2 DEF AnswerInv, AnswerDeadline
  <2>3. CASE AnswerIds
    BY <2>3 DEF AnswerInv, AnswerIds
  <2>4. CASE Answered \/ UNCHANGED vars
    BY <2>4 DEF AnswerInv, Answered, vars
  <2> QED  BY <2>1, <2>2, <2>3, <2>4 DEF Next
<1> QED  BY <1>1, <1>2, PTL DEF Spec

(* A question belongs to one kind, told by the fields it has. *)
LEMMA Kinds ==
    /\ \A q \in [math : MathArgs] : has_math(q) /\ ~has_str(q)
    /\ \A q \in [str : [op : StrOp \union {"?"}, s1 : Strings, s2 : Strings]] :
          has_str(q) /\ ~has_math(q)
    /\ \A q \in {[unset |-> TRUE]} \union Deadlines \union JobPairs :
          ~has_math(q) /\ ~has_str(q)
    /\ Submits \intersect Deadlines = {}
    /\ Submits \intersect JobPairs = {}
    /\ Deadlines \intersect JobPairs = {}
<1>1. \A q \in Deadlines : DOMAIN q = {"now", "ms"}
  BY DEF Deadlines
<1>2. \A q \in JobPairs : DOMAIN q = {"ts", "seq"}
  BY DEF JobPairs
<1>3. \A q \in [math : MathArgs] : DOMAIN q = {"math"}
  OBVIOUS
<1>4. \A q \in [str : [op : StrOp \union {"?"}, s1 : Strings, s2 : Strings]] :
        DOMAIN q = {"str"}
  OBVIOUS
<1>5. DOMAIN [unset |-> TRUE] = {"unset"}
  OBVIOUS
<1> QED  BY <1>1, <1>2, <1>3, <1>4, <1>5 DEF Submits, has_math, has_str

-----------------------------------------------------------------------------
(* The answer of the model has the property MathIsExact. *)
LEMMA MathAnswer == AnswerInv => MathIsExact
<1> SUFFICES ASSUME AnswerInv, IsMath
             PROVE  LET m == question.math
                        v == answer.result.int_result
                    IN  /\ m.op \in {"ADD", "SUB", "MUL"} =>
                             /\ answer.status = "SUCCESS"
                             /\ v \in Int32
                             /\ (v - Exact(m)) % (IntMax - IntMin + 1) = 0
                             /\ Exact(m) \in Int32 => v = Exact(m)
                        /\ m.op = "DIV" /\ m.b # 0 /\ ~Traps(m) =>
                             /\ answer.status = "SUCCESS"
                             /\ Abs(m.a - v * m.b) < Abs(m.b)
                             /\ (m.a - v * m.b) * m.a >= 0
                        /\ Traps(m) => answer.status = "SUCCESS" /\ v = IntMin
                        /\ m.op = "DIV" /\ m.b = 0
                             => answer = Fail("ERROR_DIV_BY_ZERO")
  BY DEF MathIsExact
<1> DEFINE m == question.math
           v == answer.result.int_result
<1>1. question \in [math : MathArgs] /\ m \in MathArgs
  BY Kinds DEF AnswerInv, IsMath, Submits
<1>2. answer = runMath(m)
  BY <1>1, Kinds DEF AnswerInv, IsMath, Outcomes, execute, Submits
<1>3. m.a \in Int32 /\ m.b \in Int32 /\ m.a \in Int /\ m.b \in Int
  BY <1>1, AlgoOpsAssumption DEF MathArgs, Int32, IntMin
<1>4. ASSUME NEW x, answer = Succeed([int_result |-> x])
      PROVE  answer.status = "SUCCESS" /\ v = x
  BY <1>4 DEF Succeed
<1>5. m.op \in {"ADD", "SUB", "MUL"} =>
        /\ answer.status = "SUCCESS"
        /\ v \in Int32
        /\ (v - Exact(m)) % (IntMax - IntMin + 1) = 0
        /\ Exact(m) \in Int32 => v = Exact(m)
  <2> SUFFICES ASSUME m.op \in {"ADD", "SUB", "MUL"}
               PROVE  /\ answer.status = "SUCCESS"
                      /\ v \in Int32
                      /\ (v - Exact(m)) % (IntMax - IntMin + 1) = 0
                      /\ Exact(m) \in Int32 => v = Exact(m)
    OBVIOUS
  <2>1. answer = Succeed([int_result |-> Wrap(Exact(m))])
    BY <1>2 DEF runMath, Exact
  <2>2. answer.status = "SUCCESS" /\ v = Wrap(Exact(m))
    BY <1>4, <2>1
  <2>3. Exact(m) \in Int
    <3>1. m.a + m.b \in Int /\ m.a - m.b \in Int /\ m.a * m.b \in Int
      BY <1>3
    <3> QED  BY <3>1 DEF Exact
  <2> HIDE DEF m, v
  <2>4. v \in Int32
    BY <2>2, <2>3, WrapInt32
  <2>5. (Wrap(Exact(m)) - Exact(m)) % (IntMax - IntMin + 1) = 0
    BY <2>3, WrapCongruent
  <2>6. (v - Exact(m)) % (IntMax - IntMin + 1) = 0
    BY <2>2, <2>5
  <2>7. Exact(m) \in Int32 => v = Exact(m)
    BY <2>2, WrapIdentity
  <2> QED  BY <2>2, <2>4, <2>6, <2>7
<1>6. m.op = "DIV" /\ m.b # 0 /\ ~Traps(m) =>
        /\ answer.status = "SUCCESS"
        /\ Abs(m.a - v * m.b) < Abs(m.b)
        /\ (m.a - v * m.b) * m.a >= 0
  <2> SUFFICES ASSUME m.op = "DIV", m.b # 0, ~Traps(m)
               PROVE  /\ answer.status = "SUCCESS"
                      /\ Abs(m.a - v * m.b) < Abs(m.b)
                      /\ (m.a - v * m.b) * m.a >= 0
    OBVIOUS
  <2>1. answer = Succeed([int_result |-> Wrap(TruncDiv(m.a, m.b))])
    BY <1>2 DEF runMath
  <2>2. TruncDiv(m.a, m.b) \in Int32
    BY <1>3, TruncDivInt32 DEF Traps
  <2>3. answer.status = "SUCCESS" /\ v = TruncDiv(m.a, m.b)
    BY <1>4, <2>1, <2>2, WrapIdentity
  <2>4. /\ Abs(m.a - TruncDiv(m.a, m.b) * m.b) < Abs(m.b)
        /\ (m.a - TruncDiv(m.a, m.b) * m.b) * m.a >= 0
    BY <1>3, TruncDivRemainder
  <2> HIDE DEF m, v
  <2> QED  BY <2>3, <2>4
<1>7. m.op = "DIV" /\ m.b = 0 => answer = Fail("ERROR_DIV_BY_ZERO")
  BY <1>2 DEF runMath
<1>8. Traps(m) => answer.status = "SUCCESS" /\ v = IntMin
  <2> SUFFICES ASSUME Traps(m)
               PROVE  answer = Succeed([int_result |-> IntMin])
    BY <1>4
  <2>1. m.op = "DIV" /\ m.a = IntMin /\ m.b = -1
    BY DEF Traps
  <2>2. answer = Succeed([int_result |-> Wrap(TruncDiv(m.a, m.b))])
    BY <1>2, <2>1 DEF runMath
  <2>3. Wrap(TruncDiv(m.a, m.b)) = IntMin
    <3>1. m.b + 1 = 0
      BY <2>1
    <3> QED  BY <1>3, <2>1, <3>1, WrapTrapped
  <2> QED  BY <2>2, <2>3
<1> QED  BY <1>5, <1>6, <1>7, <1>8

(* runMath: + - * are exact within int32 and wrap around silently beyond    *)
(* it, / is the quotient of C++, and division by zero is the only failure,  *)
(* for every width of the type.                                             *)
THEOREM MathCorrect == Spec => []MathIsExact
BY MathAnswer, AnswerInvariant, PTL

-----------------------------------------------------------------------------
(* The strings put to runStr are the sequences up to the bound. *)
LEMMA StringsAre ==
    ASSUME NEW s
    PROVE  s \in Strings <=> s \in Str /\ Len(s) \in 0..MaxLen
<1>1. ASSUME s \in Strings  PROVE s \in Str /\ Len(s) \in 0..MaxLen
  <2>1. PICK n \in 0..MaxLen : s \in [1..n -> Char]
    BY <1>1 DEF Strings
  <2> QED  BY <2>1, BoundsAssumption DEF Str
<1>2. ASSUME s \in Str, Len(s) \in 0..MaxLen  PROVE s \in Strings
  <2>1. s \in [1..Len(s) -> Char]
    BY <1>2 DEF Str
  <2> QED  BY <1>2, <2>1 DEF Strings
<1> QED  BY <1>1, <1>2

(* The needle occurs at k exactly when the haystack splits around it there. *)
LEMMA OccursIffSplits ==
    ASSUME NEW h \in Strings, NEW n \in Strings, NEW k \in Nat
    PROVE  (\E u, v \in Strings : Len(u) = k /\ h = u \o n \o v)
             <=> k \in Occurrences(h, n)
<1>1. /\ h \in Str /\ n \in Str /\ Len(h) \in Nat /\ Len(n) \in Nat
      /\ Len(h) <= MaxLen /\ MaxLen \in Nat
  BY StringsAre, BoundsAssumption DEF Str
<1>2. ASSUME NEW u \in Strings, NEW v \in Strings,
             Len(u) = k, h = u \o n \o v
      PROVE  k \in Occurrences(h, n)
  <2>1. u \in Str /\ v \in Str /\ Len(v) \in Nat
    BY StringsAre DEF Str
  <2>2. Len(h) = k + Len(n) + Len(v)
    BY <1>1, <1>2, <2>1 DEF Str
  <2>3. ASSUME NEW i \in 1..Len(n)  PROVE h[k + i] = n[i]
    BY <1>1, <1>2, <2>1 DEF Str
  <2> QED  BY <1>1, <2>1, <2>2, <2>3 DEF Occurrences, OccursAt
<1>3. ASSUME k \in Occurrences(h, n)
      PROVE  \E u, v \in Strings : Len(u) = k /\ h = u \o n \o v
  <2> DEFINE u == SubSeq(h, 1, k)
             e == k + Len(n)
             v == SubSeq(h, e + 1, Len(h))
             w == u \o n \o v
  <2>1. e \in Nat /\ e <= Len(h) /\ \A i \in 1..Len(n) : h[k + i] = n[i]
    BY <1>1, <1>3 DEF Occurrences, OccursAt
  <2>2. /\ u \in Str /\ Len(u) = k /\ \A i \in 1..k : u[i] = h[i]
    BY <1>1, <2>1 DEF Str
  <2>3. /\ v \in Str /\ Len(v) = Len(h) - e
        /\ \A i \in 1..(Len(h) - e) : v[i] = h[e + i]
    BY <1>1, <2>1 DEF Str
  <2>4. u \in Strings /\ v \in Strings
    <3>1. Len(u) \in 0..MaxLen /\ Len(v) \in 0..MaxLen
      BY <1>1, <2>1, <2>2, <2>3
    <3> QED  BY <2>2, <2>3, <3>1, StringsAre
  <2> HIDE DEF u, v
  <2>5. w \in Str /\ Len(w) = Len(h)
    <3> DEFINE x == u \o n
    <3>1. x \in Str /\ Len(x) = e
      BY <1>1, <2>2 DEF Str
    <3> HIDE DEF x, e
    <3>2. v \in Str /\ Len(v) = Len(h) - e
      BY <2>3
    <3>3. x \o v \in Str /\ Len(x \o v) = Len(x) + Len(v)
      BY <3>1, <3>2, ConcatProperties DEF Str
    <3>4. w = x \o v
      BY DEF x
    <3> HIDE DEF w
    <3>5. Len(h) \in Nat /\ e \in Nat
      BY <1>1, <2>1
    <3> QED  BY <3>1, <3>2, <3>3, <3>4, <3>5
  <2>6. ASSUME NEW i \in 1..Len(h)  PROVE w[i] = h[i]
    <3>1. CASE i <= k
      BY <1>1, <2>2, <2>3, <3>1 DEF Str
    <3>2. CASE i > k /\ i <= e
      <4>1. i - k \in 1..Len(n)
        BY <1>1, <3>2
      <4>2. w[i] = n[i - k]
        BY <1>1, <2>2, <2>3, <3>2 DEF Str
      <4>3. h[k + (i - k)] = n[i - k]
        BY <2>1, <4>1
      <4> QED  BY <4>2, <4>3, <1>1
    <3>3. CASE i > e
      <4>1. i - e \in 1..(Len(h) - e)
        BY <1>1, <2>1, <3>3
      <4>2. w[i] = v[i - e]
        BY <1>1, <2>1, <2>2, <2>3, <3>3 DEF Str
      <4>3. v[i - e] = h[e + (i - e)]
        BY <2>3, <4>1
      <4> QED  BY <4>2, <4>3, <1>1, <2>1
    <3> HIDE DEF w, e
    <3> QED  BY <1>1, <2>1, <3>1, <3>2, <3>3
  <2> HIDE DEF w
  <2>7. h = w
    BY <1>1, <2>5, <2>6, SeqEqual DEF Str
  <2> USE DEF w
  <2> QED  BY <2>2, <2>4, <2>7
<1> QED  BY <1>2, <1>3

(* The fields and the answer of a string question. *)
LEMMA StrAnswer ==
    ASSUME AnswerInv, IsStr
    PROVE  /\ question.str.s1 \in Strings /\ question.str.s2 \in Strings
           /\ question.str.s1 \in Str /\ question.str.s2 \in Str
           /\ answer = runStr(question.str)
<1>1. question \in [str : [op : StrOp \union {"?"}, s1 : Strings, s2 : Strings]]
  BY Kinds DEF AnswerInv, IsStr, Submits
<1>2. answer = runStr(question.str)
  BY <1>1, Kinds DEF AnswerInv, IsStr, Outcomes, execute, Submits
<1> QED  BY <1>1, <1>2, StringsAre

(* The answer of the model has the property FindIsFirst. *)
LEMMA FindAnswer == AnswerInv => FindIsFirst
<1> SUFFICES ASSUME AnswerInv, IsStr, question.str.op = "FIND_START"
             PROVE  LET h == question.str.s1
                        n == question.str.s2
                        Splits(k) == \E u, v \in Strings :
                                        Len(u) = k /\ h = u \o n \o v
                    IN  IF answer.status = "SUCCESS"
                        THEN /\ Splits(answer.result.position)
                             /\ \A k \in 0..MaxLen :
                                   Splits(k) => answer.result.position <= k
                        ELSE \A k \in 0..MaxLen : ~Splits(k)
  BY DEF FindIsFirst
<1> DEFINE h == question.str.s1
           n == question.str.s2
           Splits(k) == \E u, v \in Strings : Len(u) = k /\ h = u \o n \o v
<1>1. /\ h \in Strings /\ n \in Strings /\ h \in Str /\ n \in Str
      /\ answer = runStr(question.str)
  BY StrAnswer
<1>2. \A k \in Nat : Splits(k) <=> k \in Occurrences(h, n)
  BY <1>1, OccursIffSplits
<1>3. 0..MaxLen \subseteq Nat
  BY BoundsAssumption
<1>4. CASE Occurrences(h, n) = {}
  <2>1. answer = Fail("ERROR_SUBSTR_NOT_FOUND")
    BY <1>1, <1>4 DEF runStr
  <2>2. answer.status # "SUCCESS"
    BY <2>1 DEF Fail
  <2> HIDE DEF h, n, Splits
  <2>3. \A k \in 0..MaxLen : ~Splits(k)
    BY <1>2, <1>3, <1>4
  <2> QED  BY <2>2, <2>3 DEF h, n, Splits
<1>5. CASE Occurrences(h, n) # {}
  <2>1. answer = Succeed([position |-> find(h, n)])
    BY <1>1, <1>5 DEF runStr
  <2>2. answer.status = "SUCCESS" /\ answer.result.position = find(h, n)
    BY <2>1 DEF Succeed
  <2>3. /\ find(h, n) \in Occurrences(h, n)
        /\ \A q \in Occurrences(h, n) : find(h, n) <= q
    BY <1>1, <1>5, FindFirst
  <2>4. find(h, n) \in Nat
    BY <1>1, <2>3 DEF Occurrences, Str
  <2> HIDE DEF h, n, Splits
  <2>5. /\ Splits(answer.result.position)
        /\ \A k \in 0..MaxLen : Splits(k) => answer.result.position <= k
    BY <1>2, <1>3, <2>2, <2>3, <2>4
  <2> QED  BY <2>2, <2>5 DEF h, n, Splits
<1> QED  BY <1>4, <1>5

(* runStr, FIND_START: the position answered is the length of the shortest  *)
(* prefix before the needle, and "not found" means that there is none, for  *)
(* strings of every length over every alphabet.                             *)
THEOREM FindCorrect == Spec => []FindIsFirst
BY FindAnswer, AnswerInvariant, PTL

(* The answer of the model has the property ConcatUpToLimit. *)
LEMMA ConcatAnswer == AnswerInv => ConcatUpToLimit
<1> SUFFICES ASSUME AnswerInv, IsStr, question.str.op = "CONCAT"
             PROVE  LET s1 == question.str.s1
                        s2 == question.str.s2
                    IN  /\ answer.status = "SUCCESS"
                             <=> Len(s1) + Len(s2) <= ConcatLimit
                        /\ answer.status = "SUCCESS" =>
                             /\ SubSeq(answer.result.str_result, 1, Len(s1)) = s1
                             /\ SubSeq(answer.result.str_result, Len(s1) + 1,
                                       Len(s1) + Len(s2)) = s2
                             /\ Len(answer.result.str_result)
                                   = Len(s1) + Len(s2)
  BY DEF ConcatUpToLimit
<1> DEFINE s1 == question.str.s1
           s2 == question.str.s2
           w  == s1 \o s2
<1>1. s1 \in Str /\ s2 \in Str /\ answer = runStr(question.str)
  BY StrAnswer
<1>2. /\ Len(s1) \in Nat /\ Len(s2) \in Nat
      /\ w \in Str /\ Len(w) = Len(s1) + Len(s2)
  <2> HIDE DEF s1, s2
  <2> QED  BY <1>1 DEF Str
<1>3. answer = IF Len(w) > ConcatLimit THEN Fail("ERROR_STRING_TOO_LONG")
               ELSE Succeed([str_result |-> w])
  BY <1>1 DEF runStr
<1>4. CASE Len(w) > ConcatLimit
  <2>1. answer.status # "SUCCESS"
    BY <1>3, <1>4 DEF Fail
  <2> HIDE DEF w, s1, s2
  <2>2. ~(Len(s1) + Len(s2) <= ConcatLimit)
    BY <1>2, <1>4, AlgoOpsAssumption
  <2> QED  BY <2>1, <2>2 DEF s1, s2
<1>5. CASE ~(Len(w) > ConcatLimit)
  <2>1. answer.status = "SUCCESS" /\ answer.result.str_result = w
    BY <1>3, <1>5 DEF Succeed
  <2>2. Len(s1) + Len(s2) <= ConcatLimit
    <3> HIDE DEF w, s1, s2
    <3> QED  BY <1>2, <1>5, AlgoOpsAssumption
  <2>3. SubSeq(w, 1, Len(s1)) = s1
    <3> HIDE DEF s1, s2
    <3> QED  BY <1>1, <1>2 DEF Str
  <2>4. SubSeq(w, Len(s1) + 1, Len(s1) + Len(s2)) = s2
    <3> HIDE DEF s1, s2
    <3> QED  BY <1>1, <1>2 DEF Str
  <2> HIDE DEF w, s1, s2
  <2> QED  BY <1>2, <2>1, <2>2, <2>3, <2>4 DEF s1, s2
<1> QED  BY <1>4, <1>5

(* runStr, CONCAT: refused exactly above the limit, otherwise s1 then s2,   *)
(* for every limit and strings of every length.                             *)
THEOREM ConcatCorrect == Spec => []ConcatUpToLimit
BY ConcatAnswer, AnswerInvariant, PTL

-----------------------------------------------------------------------------
(* The answer of the model has the property DeadlineIsValid. *)
LEMMA DeadlineAnswer == AnswerInv => DeadlineIsValid
<1> SUFFICES ASSUME AnswerInv, answer # Unanswered, question \in Deadlines
             PROVE  /\ answer.nsec \in 0..(NsPerSec - 1)
                    /\ answer.sec * NsPerSec + answer.nsec
                          = question.now.sec * NsPerSec + question.now.nsec
                              + question.ms * NsPerMs
  BY DEF DeadlineIsValid
<1>1. answer = addMsToTimespec(question.now, question.ms)
  BY Kinds DEF AnswerInv
<1>2. question.now \in [sec : Nat, nsec : Nat] /\ question.ms \in Nat
  <2>1. NsPerSec \in Nat
    BY AlgoOpsAssumption DEF NsPerSec
  <2> QED  BY <2>1, BoundsAssumption DEF Deadlines
<1> QED  BY <1>1, <1>2, DeadlineExact

(* addMsToTimespec: the deadline of a waiting get is a valid timespec       *)
(* exactly ms after now, for every clock resolution and every timeout.      *)
THEOREM DeadlineCorrect == Spec => []DeadlineIsValid
BY DeadlineAnswer, AnswerInvariant, PTL

(* The answer of the model has the property IdsSharedOnlyAfterWrap. *)
LEMMA IdsAnswer == AnswerInv => IdsSharedOnlyAfterWrap
<1> SUFFICES ASSUME AnswerInv, answer # Unanswered, question \in JobPairs
             PROVE  /\ answer.first \in 0..(TsRange * SeqRange - 1)
                    /\ answer.first = answer.second <=>
                         /\ (question.ts[2] - question.ts[1]) % TsRange = 0
                         /\ (question.seq[2] - question.seq[1]) % SeqRange = 0
  BY DEF IdsSharedOnlyAfterWrap
<1> DEFINE t == question.ts[1]
           u == question.ts[2]
           a == question.seq[1]
           b == question.seq[2]
<1>1. answer = [first |-> reqId(t, a), second |-> reqId(u, b)]
  BY Kinds DEF AnswerInv
<1>2. t \in Nat /\ u \in Nat /\ a \in Nat /\ b \in Nat /\ t <= u /\ a <= b
  BY BoundsAssumption DEF JobPairs
<1> HIDE DEF t, u, a, b
<1>3. answer.first = reqId(t, a) /\ answer.second = reqId(u, b)
  BY <1>1
<1>4. reqId(t, a) \in 0..(TsRange * SeqRange - 1)
  BY <1>2, IdParts
<1>5. reqId(t, a) = reqId(u, b)
        <=> t % TsRange = u % TsRange /\ a % SeqRange = b % SeqRange
  <2>1. /\ reqId(t, a) = SeqRange * (t % TsRange) + (a % SeqRange)
        /\ reqId(u, b) = SeqRange * (u % TsRange) + (b % SeqRange)
    BY <1>2, IdParts
  <2>2. reqId(t, a) = reqId(u, b)
          => t % TsRange = u % TsRange /\ a % SeqRange = b % SeqRange
    BY <1>2, PartsDetermineId
  <2> QED  BY <2>1, <2>2, Zenon
<1>6. /\ t % TsRange = u % TsRange <=> (u - t) % TsRange = 0
      /\ a % SeqRange = b % SeqRange <=> (b - a) % SeqRange = 0
  BY <1>2, SameRemainder, TicketIdAssumption
<1>7. answer.first = answer.second
        <=> (u - t) % TsRange = 0 /\ (b - a) % SeqRange = 0
  BY <1>3, <1>5, <1>6, Zenon
<1> QED  BY <1>3, <1>4, <1>7, Zenon DEF t, u, a, b

(* enqueue: two jobs share an identifier exactly when the clock advanced by *)
(* a multiple of its range and the sequence number by a multiple of 65536,  *)
(* whatever the clock values and the number of jobs.                        *)
THEOREM IdsCorrect == Spec => []IdsSharedOnlyAfterWrap
BY IdsAnswer, AnswerInvariant, PTL
=============================================================================
