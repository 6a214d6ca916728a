---------------------------- MODULE NaturalFacts ----------------------------
(***************************************************************************)
(* Least elements of sets of naturals, which the searches of the kernel that *)
(* take the first or the lowest of something rest on, and integer division, *)
(* by which the page managers find the buddy or the table of a page.        *)
(***************************************************************************)

EXTENDS Integers, FiniteSets, FiniteSetTheorems, WellFoundedInduction, TLAPS

\* Every nonempty set of naturals has a least element.  The sets 0..n are
\* ordered by inclusion as the numbers n are by size; this is the form of
\* induction that the proofs about the kernel's modules use.
LEMMA LeastNatural ==
  ASSUME NEW T \in SUBSET Nat, T # {}
  PROVE  \E x \in T : \A y \in T : x <= y
<1> DEFINE R == StrictSubsetOrdering(Nat)
           F == {0 .. n : n \in T}
<1>1. IsWellFoundedOn(R, FiniteSubsetsOf(Nat))
  BY FS_StrictSubsetOrderingWellFounded
<1>2. \A n \in T : 0 .. n \in FiniteSubsetsOf(Nat)
  BY FS_Interval DEF FiniteSubsetsOf
<1>3. F \subseteq FiniteSubsetsOf(Nat) /\ F # {}
  BY <1>2
<1>4. PICK U \in F : \A V \in F : ~ (<<V, U>> \in R)
  <2> HIDE DEF R, F
  <2> QED BY <1>1, <1>3, WFMin
<1>5. PICK x \in T : U = 0 .. x
  OBVIOUS
<1>6. ASSUME NEW y \in T, y < x
      PROVE  FALSE
  <2>1. 0 .. y \subseteq 0 .. x /\ 0 .. y # 0 .. x
    BY <1>6
  <2>2. <<0 .. y, 0 .. x>> \in R
    BY <2>1 DEF StrictSubsetOrdering
  <2> QED BY <2>2, <1>4, <1>5
<1>7. QED
  BY <1>6

\* What integer division by a positive number returns.
LEMMA Division ==
  ASSUME NEW p \in Nat, NEW s \in Nat \ {0}
  PROVE  /\ p \div s \in Nat
         /\ s * (p \div s) <= p
         /\ p < s * (p \div s) + s
OBVIOUS

\* It is determined by these bounds.
LEMMA DivisionUnique ==
  ASSUME NEW p \in Nat, NEW s \in Nat \ {0}, NEW q \in Nat,
         s * q <= p, p < s * q + s
  PROVE  p \div s = q
<1> DEFINE d == p \div s
<1>1. d \in Nat /\ s * d <= p /\ p < s * d + s
  BY Division
<1> HIDE DEF d
<1>2. CASE d < q
  <2>1. d + 1 <= q
    BY <1>1, <1>2
  <2>2. s * (d + 1) <= s * q
    BY <2>1, <1>1
  <2>3. s * (d + 1) = s * d + s
    BY <1>1
  <2> QED BY <1>1, <2>2, <2>3
<1>3. CASE q < d
  <2>1. q + 1 <= d
    BY <1>1, <1>3
  <2>2. s * (q + 1) <= s * d
    BY <2>1, <1>1
  <2>3. s * (q + 1) = s * q + s
    OBVIOUS
  <2> QED BY <1>1, <2>2, <2>3
<1>4. d = q
  BY <1>1, <1>2, <1>3
<1> QED BY <1>4 DEF d

\* Dividing twice is dividing by the product.
LEMMA DivisionByProduct ==
  ASSUME NEW p \in Nat, NEW s \in Nat \ {0}, NEW t \in Nat \ {0}
  PROVE  (p \div s) \div t = p \div (t * s)
<1> DEFINE c == p \div s
           d == c \div t
<1>1. c \in Nat /\ s * c <= p /\ p < s * c + s
  BY Division
<1> HIDE DEF c
<1>2. d \in Nat /\ t * d <= c /\ c + 1 <= t * d + t
  <2>1. d \in Nat /\ t * d <= c /\ c < t * d + t
    BY <1>1, Division
  <2> HIDE DEF d
  <2>2. t * d \in Nat
    BY <2>1
  <2> QED BY <1>1, <2>1, <2>2
<1> HIDE DEF d
<1>3. t * s \in Nat \ {0}
  OBVIOUS
<1>4. (t * s) * d <= p
  <2>1. s * (t * d) <= s * c
    BY <1>1, <1>2
  <2>2. s * (t * d) = (t * s) * d
    BY <1>2
  <2> QED BY <1>1, <1>2, <2>1, <2>2
<1>5. p < (t * s) * d + t * s
  <2>1. s * (c + 1) <= s * (t * d + t)
    BY <1>1, <1>2
  <2>2. s * (c + 1) = s * c + s
    BY <1>1
  <2>3. s * (t * d + t) = (t * s) * d + t * s
    BY <1>2
  <2> QED BY <1>1, <1>2, <2>1, <2>2, <2>3
<1>6. p \div (t * s) = d
  BY <1>2, <1>3, <1>4, <1>5, DivisionUnique
<1> QED BY <1>6 DEF c, d

=============================================================================
