------------------------------ MODULE Numbers -------------------------------
(***************************************************************************)
(* What the proofs need to know of numbers: least and greatest elements,   *)
(* and the remainder of a division, as the ring of DataCapture and the     *)
(* counters of RtpSender use it.                                           *)
(***************************************************************************)
EXTENDS Integers, FiniteSetsExt, WellFoundedInduction, TLAPS

(* A set of naturals has a least element, which Min chooses. *)
LEMMA MinFacts ==
  ASSUME NEW A \in SUBSET Nat, A # {}
  PROVE  Min(A) \in A /\ \A k \in A : Min(A) <= k
<1> DEFINE Less == {p \in Nat \X Nat : p[1] < p[2]}
<1>1. IsWellFoundedOn(Less, Nat)
  BY NatLessThanWellFounded DEF OpToRel
<1>2. PICK x \in A : \A y \in A : ~ (<<y, x>> \in Less)
  <2> HIDE DEF Less
  <2> QED  BY <1>1, WFMin
<1>3. ASSUME NEW y \in A  PROVE x <= y
  <2>1. y < x => <<y, x>> \in Less
    OBVIOUS
  <2> QED  BY <2>1, <1>2
<1> QED  BY <1>3 DEF Min

(* The element that is below the others is the one that Min chooses. *)
LEMMA LeastIsMin ==
  ASSUME NEW A \in SUBSET Nat, NEW m \in A, \A k \in A : m <= k
  PROVE  m = Min(A)
<1>1. Min(A) \in A /\ Min(A) <= m
  BY MinFacts
<1>2. m \in Nat /\ Min(A) \in Nat /\ m <= Min(A)
  BY <1>1
<1> QED  BY <1>1, <1>2

(* A bounded set has a greatest element, which Max chooses. *)
LEMMA MaxFacts ==
  ASSUME NEW A \in SUBSET Nat, A # {}, NEW n \in Nat, \A k \in A : k <= n
  PROVE  Max(A) \in A /\ \A k \in A : k <= Max(A)
<1> DEFINE B == {k \in Nat : k <= n /\ n - k \in A}
<1>1. \A k \in A : k \in Nat /\ n - k \in B
  <2> SUFFICES ASSUME NEW k \in A  PROVE k \in Nat /\ n - k \in B
    OBVIOUS
  <2>1. k \in Nat /\ n - k \in Nat /\ n - k <= n /\ n - (n - k) = k
    OBVIOUS
  <2> QED  BY <2>1
<1>2. B \in SUBSET Nat /\ B # {}
  BY <1>1
<1>3. PICK b \in B : \A d \in B : b <= d
  <2> HIDE DEF B
  <2> QED  BY <1>2, MinFacts
<1>4. n - b \in A /\ \A k \in A : k <= n - b
  <2>1. b \in Nat /\ n - b \in A
    OBVIOUS
  <2>2. ASSUME NEW k \in A  PROVE k <= n - b
    <3>1. k \in Nat /\ b <= n - k
      BY <1>1, <1>3
    <3> QED  BY <2>1, <3>1
  <2> QED  BY <2>1, <2>2
<1> QED  BY <1>4 DEF Max

LEMMA GreatestIsMax ==
  ASSUME NEW A \in SUBSET Nat, NEW m \in A, \A k \in A : k <= m
  PROVE  m = Max(A)
<1>1. Max(A) \in A /\ m <= Max(A)
  BY MaxFacts
<1>2. m \in Nat /\ Max(A) \in Nat /\ Max(A) <= m
  BY <1>1
<1> QED  BY <1>1, <1>2

(* A multiple of N that is closer to 0 than N is 0. *)
LEMMA SmallMultiple ==
  ASSUME NEW N \in Nat \ {0}, NEW d \in Int, -N < N * d, N * d < N
  PROVE  d = 0
<1>1. CASE d >= 1
  <2>1. N * d >= N * 1  BY <1>1, SMT
  <2> QED  BY <2>1, SMT
<1>2. CASE d <= -1
  <2>1. N * d <= N * (-1)  BY <1>2, SMT
  <2> QED  BY <2>1, SMT
<1> QED  BY <1>1, <1>2

(* What \div and % are. *)
LEMMA DivMod ==
  ASSUME NEW N \in Nat \ {0}, NEW x \in Int
  PROVE  /\ x = N * (x \div N) + (x % N)
         /\ x % N \in 0 .. N - 1
         /\ x \div N \in Int
BY SMT

(* The remainder is determined by the multiple that it is left over from. *)
LEMMA ModUnique ==
  ASSUME NEW N \in Nat \ {0}, NEW k \in Int, NEW r \in 0 .. N - 1
  PROVE  (N * k + r) % N = r
<1> DEFINE x == N * k + r
           d == k - x \div N
<1>1. x \in Int  BY SMT
<1>2. /\ x = N * (x \div N) + (x % N)
      /\ x % N \in 0 .. N - 1
      /\ x \div N \in Int
  BY <1>1, DivMod
<1>3. d \in Int  BY <1>2
<1>4. N * d = (x % N) - r
  <2>1. N * d = N * k - N * (x \div N)  BY <1>2, SMT
  <2> QED  BY <2>1, <1>2
<1>5. d = 0
  <2> HIDE DEF d, x
  <2> QED  BY <1>2, <1>3, <1>4, SmallMultiple
<1> QED  BY <1>5, <1>4, <1>2

(* A remainder may be taken before an addition, or only after it. *)
LEMMA ModPlus ==
  ASSUME NEW N \in Nat \ {0}, NEW a \in Int, NEW b \in Int
  PROVE  ((a % N) + b) % N = (a + b) % N
<1> DEFINE y == (a % N) + b
           k == a \div N + y \div N
<1>1. /\ a = N * (a \div N) + (a % N)
      /\ a % N \in 0 .. N - 1
      /\ a \div N \in Int
  BY DivMod
<1>2. y \in Int  BY <1>1
<1>3. /\ y = N * (y \div N) + (y % N)
      /\ y % N \in 0 .. N - 1
      /\ y \div N \in Int
  BY <1>2, DivMod
<1>4. k \in Int  BY <1>1, <1>3
<1>5. a + b = N * k + (y % N)
  <2>1. N * k = N * (a \div N) + N * (y \div N)  BY <1>1, <1>3, SMT
  <2> QED  BY <2>1, <1>1, <1>3
<1>6. (N * k + (y % N)) % N = y % N
  <2> HIDE DEF k, y
  <2> QED  BY <1>3, <1>4, ModUnique
<1> QED  BY <1>5, <1>6

(* Two numbers that are less than N apart have different remainders. *)
LEMMA ModDistinct ==
  ASSUME NEW N \in Nat \ {0}, NEW a \in Int, NEW b \in Int,
         a < b, b < a + N
  PROVE  a % N # b % N
<1> SUFFICES ASSUME a % N = b % N  PROVE FALSE
  OBVIOUS
<1> DEFINE d == b \div N - a \div N
<1>1. /\ a = N * (a \div N) + (a % N)
      /\ b = N * (b \div N) + (b % N)
      /\ a \div N \in Int /\ b \div N \in Int
      /\ a % N \in Int /\ b % N \in Int
  BY DivMod, SMT
<1>2. d \in Int  BY <1>1
<1>3. N * d = b - a
  <2>1. N * d = N * (b \div N) - N * (a \div N)  BY <1>1, SMT
  <2> QED  BY <2>1, <1>1
<1>4. d = 0
  <2> HIDE DEF d
  <2> QED  BY <1>2, <1>3, SmallMultiple
<1> QED  BY <1>3, <1>4

=============================================================================
