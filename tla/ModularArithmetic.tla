--------------------------- MODULE ModularArithmetic ---------------------------
(***************************************************************************)
(* What the proofs about wrapping counters and clocks need of %, for any   *)
(* modulus.                                                                *)
(***************************************************************************)
EXTENDS Integers, TLAPS

\* Quotient and remainder are determined by the number.
LEMMA DivUnique ==
  ASSUME NEW M \in Nat \ {0}, NEW q \in Int, NEW p \in Int,
         NEW r \in 0 .. M - 1, NEW s \in 0 .. M - 1, M * q + r = M * p + s
  PROVE  q = p /\ r = s
<1>1. CASE q > p
  <2>1. M * (q - p) >= M
    BY <1>1
  <2> QED BY <2>1
<1>2. CASE q < p
  <2>1. M * (p - q) >= M
    BY <1>2
  <2> QED BY <2>1
<1>3. CASE q = p
  BY <1>3
<1> QED BY <1>1, <1>2, <1>3

\* Every number has a quotient and a remainder.
LEMMA ModRange ==
  ASSUME NEW M \in Nat \ {0}, NEW a \in Int
  PROVE  a % M \in 0 .. M - 1 /\ \E q \in Int : a = M * q + (a % M)
<1>1. a % M \in 0 .. M - 1 /\ a \div M \in Int /\ a = M * (a \div M) + (a % M)
  OBVIOUS
<1> QED BY <1>1

\* What is written as a multiple and a rest below the modulus has that rest.
LEMMA ModUnique ==
  ASSUME NEW M \in Nat \ {0}, NEW q \in Int, NEW r \in 0 .. M - 1
  PROVE  (M * q + r) % M = r
<1>1. PICK a \in Int : a = M * q + r
  OBVIOUS
<1>2. a % M \in 0 .. M - 1
  BY ModRange
<1>3. PICK p \in Int : a = M * p + (a % M)
  BY ModRange
<1>4. \A s \in 0 .. M - 1 : M * q + r = M * p + s => r = s
  BY DivUnique
<1> QED BY <1>1, <1>2, <1>3, <1>4

\* A number below the modulus is its own remainder.
LEMMA ModSmall == ASSUME NEW M \in Nat \ {0}, NEW r \in 0 .. M - 1 PROVE r % M = r
<1>1. (M * 0 + r) % M = r
  BY ModUnique
<1> QED BY <1>1

\* Multiples of the modulus do not count.
LEMMA ModShift ==
  ASSUME NEW M \in Nat \ {0}, NEW a \in Int, NEW k \in Int
  PROVE  (a + M * k) % M = a % M
<1>1. PICK q \in Int, r \in 0 .. M - 1 : a = M * q + r /\ r = a % M
  BY ModRange
<1>2. PICK p \in Int : p = q + k
  OBVIOUS
<1>3. a + M * k = M * p + r
  BY <1>1, <1>2
<1>4. (M * p + r) % M = r
  BY <1>1, ModUnique
<1> QED BY <1>1, <1>3, <1>4

\* A sum may be reduced before the last term is added.
LEMMA ModPlus ==
  ASSUME NEW M \in Nat \ {0}, NEW a \in Int, NEW b \in Int
  PROVE  ((a % M) + b) % M = (a + b) % M
<1>1. PICK q \in Int, r \in 0 .. M - 1 : a = M * q + r /\ r = a % M
  BY ModRange
<1>2. PICK c \in Int : c = r + b
  OBVIOUS
<1>3. a + b = c + M * q
  BY <1>1, <1>2
<1>4. (c + M * q) % M = c % M
  BY <1>1, <1>2, ModShift
<1> QED BY <1>1, <1>2, <1>3, <1>4

\* The difference of two numbers less than the modulus apart survives their wrap.
LEMMA ModDifference ==
  ASSUME NEW M \in Nat \ {0}, NEW a \in Int, NEW b \in Int, b - a \in 0 .. M - 1
  PROVE  ((b % M) - (a % M)) % M = b - a
<1>1. PICK q \in Int, r \in 0 .. M - 1 : b = M * q + r /\ r = b % M
  BY ModRange
<1>2. PICK p \in Int, s \in 0 .. M - 1 : a = M * p + s /\ s = a % M
  BY ModRange
<1>3. PICK c \in Int : c = r - s
  OBVIOUS
<1>4. PICK k \in Int : k = q - p
  OBVIOUS
<1>5. b - a = c + M * k
  <2>1. M * k = M * q - M * p
    BY <1>4
  <2>2. PICK A \in Int, B \in Int : A = M * q /\ B = M * p
    OBVIOUS
  <2>3. b = A + r /\ a = B + s /\ M * k = A - B
    BY <1>1, <1>2, <2>1, <2>2
  <2>4. \A D \in Int : D = A - B => b - a = c + D
    BY <1>3, <2>3
  <2> QED BY <2>3, <2>4
<1>6. (c + M * k) % M = c % M
  BY <1>3, <1>4, ModShift
<1>7. (b - a) % M = b - a
  BY ModSmall
<1> QED BY <1>1, <1>2, <1>3, <1>5, <1>6, <1>7
===============================================================================
