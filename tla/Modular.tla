------------------------------- MODULE Modular -------------------------------
(***************************************************************************)
(* Facts about remainders that the proofs about sequence numbers, ports    *)
(* and times share.  The moduli are constants of the models, so that the   *)
(* products in these facts are not linear, and each takes a step or two.   *)
(***************************************************************************)
EXTENDS Integers, TLAPS

(* A positive multiple is at least as large as what it is a multiple of *)
LEMMA MultipleAtLeast ==
  ASSUME NEW k \in Int, NEW N \in Nat \ {0}, k >= 1
  PROVE  k * N >= N
OBVIOUS

(* The remainder is the only one in its range *)
LEMMA ModUnique ==
  ASSUME NEW N \in Nat \ {0}, NEW q \in Int, NEW r \in 0..(N-1), NEW y \in Int, y = q * N + r
  PROVE  y % N = r
<1> DEFINE p == y \div N
           s == y % N
<1>1. p \in Int /\ s \in 0..(N-1) /\ y = p * N + s
  OBVIOUS
<1> HIDE DEF p, s
<1>2. (p - q) * N = r - s
  BY <1>1
<1>3. ~ (p - q >= 1)
  <2>1. SUFFICES ASSUME p - q >= 1 PROVE FALSE
    OBVIOUS
  <2>2. (p - q) * N >= N
    BY <1>1, <2>1, MultipleAtLeast
  <2> QED BY <2>2, <1>2, <1>1
<1>4. ~ (q - p >= 1)
  <2>1. SUFFICES ASSUME q - p >= 1 PROVE FALSE
    OBVIOUS
  <2>2. (q - p) * N >= N
    BY <1>1, <2>1, MultipleAtLeast
  <2>3. (q - p) * N = s - r
    BY <1>1
  <2> QED BY <2>2, <2>3, <1>1
<1>5. p = q
  BY <1>1, <1>3, <1>4
<1> QED BY <1>1, <1>5 DEF s

(* Multiples of the modulus do not matter *)
LEMMA ModShift ==
  ASSUME NEW N \in Nat \ {0}, NEW q \in Int, NEW y \in Int
  PROVE  (y + q * N) % N = y % N
<1> DEFINE p == y \div N
           s == y % N
<1>1. p \in Int /\ s \in 0..(N-1) /\ y = p * N + s
  OBVIOUS
<1> HIDE DEF p, s
<1>2. y + q * N = (p + q) * N + s
  BY <1>1
<1>3. y + q * N \in Int /\ p + q \in Int
  BY <1>1
<1> QED BY <1>1, <1>2, <1>3, ModUnique DEF s

(* A remainder may be taken in the middle of a sum *)
LEMMA ModPlusMod ==
  ASSUME NEW N \in Nat \ {0}, NEW a \in Int, NEW b \in Int
  PROVE  ((a % N) + b) % N = (a + b) % N
<1> DEFINE p == a \div N
           s == a % N
<1>1. p \in Int /\ s \in Int /\ a = p * N + s
  OBVIOUS
<1> HIDE DEF p, s
<1>2. a + b = (s + b) + p * N /\ s + b \in Int
  BY <1>1
<1>3. ((s + b) + p * N) % N = (s + b) % N
  BY <1>1, <1>2, ModShift
<1> QED
  BY <1>2, <1>3 DEF s

(* A number within the range is its own remainder *)
LEMMA ModSmall ==
  ASSUME NEW N \in Nat \ {0}, NEW a \in 0..(N - 1)
  PROVE  a % N = a
OBVIOUS
=============================================================================
