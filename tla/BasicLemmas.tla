---------------------------- MODULE BasicLemmas ----------------------------
(***************************************************************************)
(* Lemmas that the proofs share and that speak of no component: extrema of *)
(* sets of naturals, and sequences of elements of no particular type.      *)
(***************************************************************************)
EXTENDS Integers, Sequences, FiniteSets, FiniteSetsExt, SequenceTheorems, WellFoundedInduction, TLAPS

-----------------------------------------------------------------------------
(* Extrema.  MinOfNaturals also stands in for induction: the least          *)
(* counterexample of a property of the naturals is one to argue about.      *)

Below == {ss \in Nat \X Nat : ss[1] < ss[2]}

\* Every non-empty set of naturals has a least element, which Min returns.
LEMMA MinOfNaturals ==
  ASSUME NEW S, S \subseteq Nat, S # {}
  PROVE  Min(S) \in S /\ \A y \in S : Min(S) <= y
<1>0. OpToRel(<, Nat) = Below
  BY DEF OpToRel, Below
<1>1. IsWellFoundedOn(Below, Nat)
  BY <1>0, NatLessThanWellFounded, Zenon
<1>2. PICK x \in S : \A y \in S : ~ (<<y, x>> \in Below)
  BY <1>1, WFMin, Zenon
<1>3. ASSUME NEW y \in S PROVE x <= y
  <2>1. y < x => <<y, x>> \in Below
    BY DEF Below
  <2>. QED
    BY <1>2, <2>1
<1>. QED
  BY <1>3 DEF Min

\* A non-empty set of naturals below b has a greatest element, which Max returns.
LEMMA MaxOfNaturals ==
  ASSUME NEW S, S \subseteq Nat, S # {}, NEW b \in Nat, \A y \in S : y <= b
  PROVE  Max(S) \in S /\ \A y \in S : Max(S) >= y
<1>. DEFINE U == {n \in Nat : \A y \in S : y <= n}
            m == Min(U)
<1>1. m \in U /\ \A n \in U : m <= n
  <2>1. U \subseteq Nat /\ b \in U
    OBVIOUS
  <2>. HIDE DEF U
  <2>. QED
    BY <2>1, MinOfNaturals
<1>. HIDE DEF m
<1>2. m \in S
  <2>. SUFFICES ASSUME m \notin S PROVE FALSE
    OBVIOUS
  <2>1. PICK z \in S : TRUE
    OBVIOUS
  <2>2. m - 1 \in Nat /\ \A y \in S : y <= m - 1
    BY <1>1, <2>1
  <2>3. m - 1 \in U
    BY <2>2
  <2>. QED
    BY <1>1, <2>3
<1>. QED
  BY <1>1, <1>2 DEF Max

\* A finite sequence of naturals is bounded.
LEMMA BoundedNaturals ==
  ASSUME NEW n \in Nat, NEW f, \A i \in 1..n : f[i] \in Nat
  PROVE  \E b \in Nat : \A i \in 1..n : f[i] <= b
<1>. DEFINE Bad == {k \in 0..n : ~ \E b \in Nat : \A i \in 1..k : f[i] <= b}
            m   == Min(Bad)
<1>. SUFFICES ASSUME ~ \E b \in Nat : \A i \in 1..n : f[i] <= b PROVE FALSE
  OBVIOUS
<1>0. n \in Bad
  OBVIOUS
<1>1. m \in Bad /\ \A k \in Bad : m <= k
  <2>1. Bad \subseteq Nat
    OBVIOUS
  <2>. HIDE DEF Bad
  <2>. QED
    BY <1>0, <2>1, MinOfNaturals
<1>. HIDE DEF m
<1>2. m # 0
  <2>1. \A i \in 1..0 : f[i] <= 0
    OBVIOUS
  <2>. QED
    BY <1>1, <2>1
<1>3. m \in 0..n
  BY <1>1
<1>4. m - 1 \in 0..n /\ m - 1 \notin Bad
  <2>. HIDE DEF Bad
  <2>. QED
    BY <1>1, <1>2, <1>3
<1>5. PICK b \in Nat : \A i \in 1..(m - 1) : f[i] <= b
  BY <1>4
<1>6. PICK d \in Nat : b <= d /\ f[m] <= d
  <2>1. f[m] \in Nat
    BY <1>1, <1>2
  <2>2. CASE b <= f[m]
    BY <2>1, <2>2
  <2>3. CASE f[m] <= b
    BY <2>1, <2>3
  <2>. QED
    BY <2>1, <2>2, <2>3
<1>7. \A i \in 1..m : f[i] <= d
  <2>. TAKE i \in 1..m
  <2>1. CASE i = m
    BY <2>1, <1>6
  <2>2. CASE i \in 1..(m - 1)
    <3>1. f[i] \in Nat
      BY <1>1
    <3>. QED
      BY <3>1, <2>2, <1>5, <1>6
  <2>. QED
    BY <2>1, <2>2, <1>1
<1>. QED
  BY <1>1, <1>7

-----------------------------------------------------------------------------
(* Sequences.                                                               *)

IsSequence(s) == \E S : s \in Seq(S)

\* A function on 1..n is a sequence.
LEMMA FunctionIsSequence ==
  ASSUME NEW n \in Nat, NEW f, f = [i \in 1..n |-> f[i]]
  PROVE  IsSequence(f) /\ Len(f) = n
<1>. DEFINE S == {f[i] : i \in 1..n}
<1>1. f \in [1..n -> S]
  OBVIOUS
<1>2. f \in Seq(S)
  BY <1>1, SeqDef
<1>3. DOMAIN f = 1..n
  BY <1>1
<1>4. Len(f) \in Nat /\ DOMAIN f = 1..Len(f)
  <2>. HIDE DEF S
  <2>. QED
    BY <1>2, LenProperties
<1>5. Len(f) = n
  BY <1>3, <1>4
<1>. QED
  BY <1>2, <1>5 DEF IsSequence

\* A sequence is a function on 1..Len(s).
LEMMA SequenceIsFunction ==
  ASSUME NEW s, IsSequence(s)
  PROVE  Len(s) \in Nat /\ DOMAIN s = 1..Len(s) /\ s = [i \in 1..Len(s) |-> s[i]]
<1>1. PICK S : s \in Seq(S)
  BY DEF IsSequence
<1>. QED
  BY <1>1, LenProperties

\* One more element at the end.
LEMMA AppendToSequence ==
  ASSUME NEW s, NEW e, IsSequence(s)
  PROVE  /\ IsSequence(Append(s, e))
         /\ Len(Append(s, e)) = Len(s) + 1
         /\ \A i \in 1..Len(s) : Append(s, e)[i] = s[i]
         /\ Append(s, e)[Len(s) + 1] = e
<1>1. PICK S : s \in Seq(S)
  BY DEF IsSequence
<1>. DEFINE T == S \cup {e}
<1>2. s \in Seq(T) /\ e \in T
  BY <1>1, SeqDef
<1>. HIDE DEF T
<1>. QED
  BY <1>2, AppendProperties, LenProperties DEF IsSequence

=============================================================================
