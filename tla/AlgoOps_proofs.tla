--------------------------- MODULE AlgoOps_proofs ---------------------------
(***************************************************************************)
(* Facts about the operators of AlgoOps, for every width of int32, every   *)
(* alphabet, every limit and every string.                                 *)
(***************************************************************************)
EXTENDS AlgoOps, TLAPS, WellFoundedInduction

(* A set of natural numbers that is not empty has a least element. *)
LEMMA LeastElement ==
    ASSUME NEW S, S \subseteq Nat, S # {}
    PROVE  \E p \in S : \A q \in S : p <= q
<1> DEFINE R == OpToRel(<, Nat)
<1>1. IsWellFoundedOn(R, Nat)
  BY NatLessThanWellFounded
<1>2. PICK p \in S : \A q \in S : ~(<<q, p>> \in R)
  <2> HIDE DEF R
  <2> QED  BY <1>1, WFMin, Zenon
<1>3. \A q \in S : p <= q
  <2> TAKE q \in S
  <2>1. p \in Nat /\ q \in Nat
    OBVIOUS
  <2>2. ~(q < p)
    BY <1>2, <2>1 DEF OpToRel
  <2> QED  BY <2>1, <2>2
<1> QED  BY <1>3

(* Division with a positive divisor. *)
LEMMA DivMod ==
    ASSUME NEW n \in Nat, NEW k \in Nat \ {0}
    PROVE  /\ n \div k \in Nat
           /\ n % k \in 0..(k - 1)
           /\ n = k * (n \div k) + (n % k)
OBVIOUS

(* Quotient and remainder are unique. *)
LEMMA DivModUnique ==
    ASSUME NEW k \in Nat \ {0}, NEW q \in Int, NEW p \in Int,
           NEW r \in 0..(k - 1), NEW s \in 0..(k - 1),
           k * q + r = k * p + s
    PROVE  q = p /\ r = s
<1>1. k * (q - p) = s - r
  OBVIOUS
<1>2. ASSUME q - p >= 1  PROVE FALSE
  <2>1. k * (q - p) >= k
    BY <1>2
  <2> QED  BY <1>1, <2>1
<1>3. ASSUME q - p <= -1  PROVE FALSE
  <2>1. k * (q - p) <= -k
    BY <1>3
  <2> QED  BY <1>1, <2>1
<1>4. q = p
  BY <1>2, <1>3
<1> QED  BY <1>4

(* A multiple leaves no remainder. *)
LEMMA MultipleMod ==
    ASSUME NEW k \in Nat \ {0}, NEW z \in Int
    PROVE  (k * z) % k = 0
<1> DEFINE n == k * z
           p == n \div k
           r == n % k
<1>1. n \in Int
  OBVIOUS
<1>2. p \in Int /\ r \in 0..(k - 1) /\ n = k * p + r
  <2> HIDE DEF n
  <2> QED  BY <1>1
<1>3. k * p + r = k * z + 0
  <2> HIDE DEF p, r
  <2> QED  BY <1>2
<1>4. 0 \in 0..(k - 1)
  OBVIOUS
<1> HIDE DEF p, r
<1>5. r = 0
  BY <1>2, <1>3, <1>4, DivModUnique
<1> QED  BY <1>5 DEF r

(* find returns a position where the needle occurs, and the first one. *)
LEMMA FindFirst ==
    ASSUME NEW s \in Str, NEW t \in Str, Occurrences(s, t) # {}
    PROVE  /\ find(s, t) \in Occurrences(s, t)
           /\ \A q \in Occurrences(s, t) : find(s, t) <= q
<1>1. Len(s) \in Nat
  BY DEF Str
<1>2. Occurrences(s, t) \subseteq Nat
  BY <1>1 DEF Occurrences
<1>3. \E p \in Occurrences(s, t) : \A q \in Occurrences(s, t) : p <= q
  BY <1>2, LeastElement
<1> QED  BY <1>3, Zenon DEF find

(* Wrapped arithmetic stays within int32. *)
LEMMA WrapInt32 ==
    ASSUME NEW x \in Int
    PROVE  Wrap(x) \in Int32
<1> DEFINE M == IntMax - IntMin + 1
<1>1. IntMax \in Nat /\ IntMin \in Int /\ M \in Nat \ {0}
  BY AlgoOpsAssumption DEF IntMin
<1>2. (x - IntMin) % M \in 0..(M - 1)
  BY <1>1
<1> QED  BY <1>1, <1>2 DEF Wrap, Int32

(* Wrapping changes a value by a multiple of the size of the type. *)
LEMMA WrapCongruent ==
    ASSUME NEW x \in Int
    PROVE  (Wrap(x) - x) % (IntMax - IntMin + 1) = 0
<1> DEFINE M == IntMax - IntMin + 1
           y == x - IntMin
           q == y \div M
           r == y % M
<1>1. IntMin \in Int /\ y \in Int /\ M \in Nat \ {0}
  BY AlgoOpsAssumption DEF IntMin
<1>2. q \in Int /\ r \in Int /\ y = M * q + r
  <2> HIDE DEF M, y
  <2> QED  BY <1>1
<1>3. Wrap(x) = r + IntMin
  BY DEF Wrap
<1>4. Wrap(x) - x = M * (-q)
  <2>1. Wrap(x) - x = r - y
    <3> HIDE DEF M, q, r
    <3> QED  BY <1>1, <1>2, <1>3
  <2>2. r - y = M * (-q)
    <3> HIDE DEF M, y, q, r
    <3> QED  BY <1>1, <1>2
  <2> QED  BY <2>1, <2>2
<1>5. (M * (-q)) % M = 0
  <2> HIDE DEF M, q
  <2> DEFINE z == -q
  <2>1. z \in Int
    BY <1>2
  <2> HIDE DEF z
  <2>2. (M * z) % M = 0
    BY <1>1, <2>1, MultipleMod
  <2> QED  BY <2>2 DEF z
<1> QED  BY <1>4, <1>5

(* A value of the type is its own wrapped value. *)
LEMMA WrapIdentity ==
    ASSUME NEW x \in Int32
    PROVE  Wrap(x) = x
<1> DEFINE M == IntMax - IntMin + 1
           y == x - IntMin
<1>1. /\ IntMin \in Int /\ x \in Int /\ M \in Nat \ {0}
      /\ y \in Nat /\ y \in 0..(M - 1)
  BY AlgoOpsAssumption DEF IntMin, Int32
<1>2. y \div M \in Nat /\ y % M \in 0..(M - 1) /\ y = M * (y \div M) + (y % M)
  <2> HIDE DEF M, y
  <2> QED  BY <1>1, DivMod
<1>3. y % M = y
  <2> DEFINE q == y \div M
             r == y % M
  <2>1. M * 0 + y = M * q + r
    <3> HIDE DEF M, y
    <3> QED  BY <1>1, <1>2
  <2> HIDE DEF M, y, q, r
  <2>2. q \in Int /\ r \in 0..(M - 1)
    BY <1>2 DEF q, r
  <2>3. y = r
    BY <1>1, <2>1, <2>2, DivModUnique
  <2> QED  BY <2>3 DEF r
<1>4. Wrap(x) = (y % M) + IntMin
  BY DEF Wrap
<1> QED  BY <1>1, <1>3, <1>4

(* Truncating division in terms of the quotient of the magnitudes. *)
LEMMA TruncDivParts ==
    ASSUME NEW a \in Int, NEW b \in Int, b # 0
    PROVE  \E d \in Nat, r \in Nat :
              /\ Abs(a) = Abs(b) * d + r
              /\ r < Abs(b)
              /\ TruncDiv(a, b) = IF (a < 0) = (b < 0) THEN d ELSE -d
<1>1. Abs(a) \in Nat /\ Abs(b) \in Nat \ {0}
  BY DEF Abs
<1> DEFINE d == Abs(a) \div Abs(b)
           r == Abs(a) % Abs(b)
<1>2. d \in Nat /\ r \in 0..(Abs(b) - 1) /\ Abs(a) = Abs(b) * d + r
  BY <1>1, DivMod
<1>3. TruncDiv(a, b) = IF (a < 0) = (b < 0) THEN d ELSE -d
  BY DEF TruncDiv
<1> HIDE DEF d, r
<1>4. r \in Nat /\ r < Abs(b)
  BY <1>1, <1>2
<1> QED  BY <1>2, <1>3, <1>4

(* The quotient IntMin / -1 is one more than IntMax and wraps to IntMin. *)
LEMMA WrapTrapped ==
    ASSUME NEW a \in Int, NEW b \in Int
    PROVE  a = IntMin /\ b + 1 = 0 => Wrap(TruncDiv(a, b)) = IntMin
<1> SUFFICES ASSUME a = IntMin /\ b + 1 = 0
             PROVE  Wrap(TruncDiv(a, b)) = IntMin
  OBVIOUS
<1>1. IntMax \in Nat \ {0} /\ IntMin = -IntMax - 1
  BY AlgoOpsAssumption DEF IntMin
<1>2. a = -IntMax - 1 /\ b + 1 = 0
  BY <1>1
<1>3. TruncDiv(a, b) = IntMax + 1
  <2>1. PICK d \in Nat, r \in Nat :
              /\ Abs(a) = Abs(b) * d + r
              /\ r < Abs(b)
              /\ TruncDiv(a, b) = IF (a < 0) = (b < 0) THEN d ELSE -d
    <3>1. b # 0
      BY <1>2
    <3> QED  BY <3>1, TruncDivParts, Zenon
  <2>2. a < 0 /\ b < 0
    BY <1>1, <1>2
  <2>3. Abs(a) = IntMax + 1
    BY <1>1, <1>2 DEF Abs
  <2>4. Abs(b) = 1
    <3>1. Abs(b) = -b
      BY <2>2 DEF Abs
    <3>2. -b = 1
      BY <1>2
    <3> QED  BY <3>1, <3>2, Zenon
  <2>5. TruncDiv(a, b) = d
    BY <2>1, <2>2
  <2> QED  BY <1>1, <2>1, <2>3, <2>4, <2>5
<1> DEFINE M == IntMax - IntMin + 1
<1>4. M \in Nat \ {0} /\ (IntMax + 1) - IntMin = M * 1
  BY <1>1
<1>5. (M * 1) % M = 0
  <2> HIDE DEF M
  <2> QED  BY <1>4, MultipleMod
<1>6. ((IntMax + 1) - IntMin) % M = 0
  BY <1>4, <1>5, Zenon
<1>7. Wrap(IntMax + 1) = 0 + IntMin
  <2>1. Wrap(IntMax + 1) = (((IntMax + 1) - IntMin) % M) + IntMin
    BY DEF Wrap
  <2> QED  BY <1>6, <2>1, Zenon
<1> QED  BY <1>1, <1>3, <1>7

(* Truncating division of integers is an integer ... *)
LEMMA TruncDivInt ==
    ASSUME NEW a \in Int, NEW b \in Int, b # 0
    PROVE  TruncDiv(a, b) \in Int
BY TruncDivParts

(* ... whose remainder is smaller than the divisor and has the sign of the  *)
(* dividend, as the / of C++ ...                                            *)
LEMMA TruncDivRemainder ==
    ASSUME NEW a \in Int, NEW b \in Int, b # 0
    PROVE  /\ Abs(a - TruncDiv(a, b) * b) < Abs(b)
           /\ (a - TruncDiv(a, b) * b) * a >= 0
<1>1. PICK d \in Nat, r \in Nat :
              /\ Abs(a) = Abs(b) * d + r
              /\ r < Abs(b)
              /\ TruncDiv(a, b) = IF (a < 0) = (b < 0) THEN d ELSE -d
  BY TruncDivParts
<1> DEFINE q == TruncDiv(a, b)
<1>2. q \in Int
  BY TruncDivInt
<1>3. CASE a >= 0
  <2>1. a - q * b = r
    <3>1. CASE b > 0
      <4>1. q = d /\ a = b * d + r
        BY <1>1, <1>3, <3>1 DEF Abs
      <4> HIDE DEF q
      <4> QED  BY <4>1
    <3>2. CASE b < 0
      <4>1. q = -d /\ a = (-b) * d + r
        BY <1>1, <1>3, <3>2 DEF Abs
      <4>2. (-b) * d = (-d) * b
        OBVIOUS
      <4> HIDE DEF q
      <4> QED  BY <4>1, <4>2
    <3> QED  BY <3>1, <3>2
  <2>2. Abs(r) = r /\ r * a >= 0
    BY <1>3 DEF Abs
  <2> QED  BY <1>1, <2>1, <2>2
<1>4. CASE a < 0
  <2>1. a - q * b = -r
    <3>1. CASE b > 0
      <4>1. q = -d /\ -a = b * d + r
        BY <1>1, <1>4, <3>1 DEF Abs
      <4>2. (-d) * b = -(b * d)
        OBVIOUS
      <4> HIDE DEF q
      <4> QED  BY <4>1, <4>2
    <3>2. CASE b < 0
      <4>1. q = d /\ -a = (-b) * d + r
        BY <1>1, <1>4, <3>2 DEF Abs
      <4>2. (-b) * d = -(d * b)
        OBVIOUS
      <4> HIDE DEF q
      <4> QED  BY <4>1, <4>2
    <3> QED  BY <3>1, <3>2
  <2>2. Abs(-r) = r /\ (-r) * a >= 0
    <3>1. r * (-a) >= 0 /\ (-r) * a = r * (-a)
      BY <1>4
    <3> QED  BY <3>1 DEF Abs
  <2> QED  BY <1>1, <2>1, <2>2
<1> QED  BY <1>3, <1>4

(* ... and a value of the type, but for IntMin / -1. *)
LEMMA TruncDivInt32 ==
    ASSUME NEW a \in Int32, NEW b \in Int32, b # 0, ~(a = IntMin /\ b = -1)
    PROVE  TruncDiv(a, b) \in Int32
<1>1. /\ a \in Int /\ b \in Int /\ IntMax \in Nat \ {0}
      /\ -IntMax - 1 <= a /\ a <= IntMax
  BY AlgoOpsAssumption DEF Int32, IntMin
<1>2. PICK d \in Nat, r \in Nat :
              /\ Abs(a) = Abs(b) * d + r
              /\ r < Abs(b)
              /\ TruncDiv(a, b) = IF (a < 0) = (b < 0) THEN d ELSE -d
  BY <1>1, TruncDivParts
<1>3. CASE Abs(b) = 1
  <2>1. Abs(a) = d
    BY <1>2, <1>3
  <2>2. b = 1 \/ b = -1
    BY <1>1, <1>3 DEF Abs
  <2>3. CASE b = 1
    BY <1>1, <1>2, <2>1, <2>3 DEF Abs, Int32, IntMin
  <2>4. CASE b = -1
    <3>1. a # -IntMax - 1
      BY <2>4 DEF IntMin
    <3> QED  BY <1>1, <1>2, <2>1, <2>4, <3>1 DEF Abs, Int32, IntMin
  <2> QED  BY <2>2, <2>3, <2>4
<1>4. CASE Abs(b) # 1
  <2>1. Abs(b) \in Nat /\ Abs(b) >= 2
    BY <1>1, <1>4 DEF Abs
  <2>2. Abs(b) * d >= 2 * d
    BY <2>1
  <2>3. Abs(a) <= IntMax + 1
    BY <1>1 DEF Abs
  <2>4. 2 * d <= IntMax + 1
    BY <1>1, <1>2, <2>1, <2>2, <2>3
  <2>5. d <= IntMax
    BY <1>1, <2>4
  <2> QED  BY <1>1, <1>2, <2>5 DEF Int32, IntMin
<1> QED  BY <1>3, <1>4

(* An error outcome is an outcome of the protocol ... *)
LEMMA FailOutcome ==
    ASSUME NEW st \in FinalStatus
    PROVE  Fail(st) \in Outcome
BY DEF Fail, Outcome, Result

(* ... and so is a success with a result. *)
LEMMA SucceedOutcome ==
    ASSUME NEW v \in Result
    PROVE  Succeed(v) \in Outcome
BY DEF Succeed, Outcome, FinalStatus

(* runMath answers every MathArgs with an outcome of the protocol ... *)
LEMMA RunMathOutcome ==
    ASSUME NEW m \in MathArgs
    PROVE  runMath(m) \in Outcome
<1>1. m.a \in Int /\ m.b \in Int
  BY AlgoOpsAssumption DEF MathArgs, Int32, IntMin
<1>2. \A x \in Int : Succeed([int_result |-> Wrap(x)]) \in Outcome
  BY WrapInt32, SucceedOutcome DEF Result
<1>3. Fail("ERROR_DIV_BY_ZERO") \in Outcome
  BY FailOutcome DEF FinalStatus
<1>4. Fail("ERROR_INVALID_INPUT") \in Outcome
  BY FailOutcome DEF FinalStatus
<1>5. m.b # 0 => Succeed([int_result |-> Wrap(TruncDiv(m.a, m.b))]) \in Outcome
  BY <1>1, <1>2, TruncDivInt
<1>6. /\ Succeed([int_result |-> Wrap(m.a + m.b)]) \in Outcome
      /\ Succeed([int_result |-> Wrap(m.a - m.b)]) \in Outcome
      /\ Succeed([int_result |-> Wrap(m.a * m.b)]) \in Outcome
  <2>1. m.a + m.b \in Int /\ m.a - m.b \in Int /\ m.a * m.b \in Int
    BY <1>1
  <2> QED  BY <2>1, <1>2
<1> QED  BY <1>3, <1>4, <1>5, <1>6 DEF runMath

(* ... and runStr every StrArgs. *)
LEMMA RunStrOutcome ==
    ASSUME NEW s \in StrArgs
    PROVE  runStr(s) \in Outcome
<1>1. s.s1 \in Str /\ s.s2 \in Str
  BY DEF StrArgs
<1>2. s.s1 \o s.s2 \in Str
  BY <1>1 DEF Str
<1>3. Succeed([str_result |-> s.s1 \o s.s2]) \in Outcome
  BY <1>2, SucceedOutcome DEF Result
<1>4. ASSUME Occurrences(s.s1, s.s2) # {}
      PROVE  Succeed([position |-> find(s.s1, s.s2)]) \in Outcome
  <2>1. find(s.s1, s.s2) \in Occurrences(s.s1, s.s2)
    BY <1>1, <1>4, FindFirst
  <2>2. find(s.s1, s.s2) \in Int
    BY <1>1, <2>1 DEF Occurrences, Str
  <2> QED  BY <2>2, SucceedOutcome DEF Result
<1>5. /\ Fail("ERROR_STRING_TOO_LONG") \in Outcome
      /\ Fail("ERROR_SUBSTR_NOT_FOUND") \in Outcome
      /\ Fail("ERROR_INVALID_INPUT") \in Outcome
  BY FailOutcome DEF FinalStatus
<1> QED  BY <1>3, <1>4, <1>5 DEF runStr

(* Whatever a request holds, executing it yields a final status of the      *)
(* protocol and a result of the protocol: a finished job never looks        *)
(* unfinished.                                                              *)
THEOREM ExecuteOutcome ==
    ASSUME NEW r \in Payload
    PROVE  execute(r) \in Outcome
<1>1. CASE r \in [math : MathArgs]
  <2>1. has_math(r) /\ r.math \in MathArgs
    BY <1>1 DEF has_math
  <2> QED  BY <2>1, RunMathOutcome DEF execute
<1>2. CASE r \in [str : StrArgs]
  <2>1. ~has_math(r) /\ has_str(r) /\ r.str \in StrArgs
    BY <1>2 DEF has_math, has_str
  <2> QED  BY <2>1, RunStrOutcome DEF execute
<1>3. CASE r = [unset |-> TRUE]
  <2>1. ~has_math(r) /\ ~has_str(r)
    BY <1>3 DEF has_math, has_str
  <2> QED  BY <2>1, FailOutcome DEF execute, FinalStatus
<1> QED  BY <1>1, <1>2, <1>3 DEF Payload

(* The deadline of a waiting get is a valid timespec, exactly ms after now: *)
(* the carry of addMsToTimespec is right for every clock value.             *)
THEOREM DeadlineExact ==
    ASSUME NEW ts \in [sec : Nat, nsec : Nat], NEW ms \in Nat
    PROVE  LET d == addMsToTimespec(ts, ms)
           IN  /\ d.nsec \in 0..(NsPerSec - 1)
               /\ d.sec * NsPerSec + d.nsec
                     = ts.sec * NsPerSec + ts.nsec + ms * NsPerMs
<1> DEFINE total == ts.sec * NsPerSec + ts.nsec + ms * NsPerMs
<1>1. NsPerSec \in Nat \ {0}
  BY AlgoOpsAssumption DEF NsPerSec
<1>2. total \in Nat
  BY <1>1, AlgoOpsAssumption
<1>3. \A n \in Nat, k \in Nat \ {0} :
        /\ n % k \in 0..(k - 1)
        /\ n = k * (n \div k) + (n % k)
  OBVIOUS
<1>4. /\ total % NsPerSec \in 0..(NsPerSec - 1)
      /\ total = NsPerSec * (total \div NsPerSec) + (total % NsPerSec)
  <2> HIDE DEF total
  <2> QED  BY <1>1, <1>2, <1>3
<1>5. total = (total \div NsPerSec) * NsPerSec + (total % NsPerSec)
  BY <1>1, <1>2, <1>4
<1> QED  BY <1>4, <1>5 DEF addMsToTimespec
=============================================================================
