---------------------------- MODULE FiniteMinimum ----------------------------
(***************************************************************************)
(* Min of FiniteSetsExt is the minimum of a finite set of integers.        *)
(***************************************************************************)
EXTENDS FiniteSetsExt, FiniteSetTheorems, WellFoundedInduction, TLAPS

(* A finite set of integers that is not empty has a minimum. *)
LEMMA MinimumExists ==
  ASSUME NEW S \in SUBSET Int, IsFiniteSet(S), S # {}
  PROVE  \E x \in S : \A y \in S : x <= y
<1> DEFINE Endless == {A \in SUBSET S :
                         A # {} /\ \A x \in A : \E y \in A : y < x}
<1>1. Endless \subseteq FiniteSubsetsOf(S)
  BY FS_FiniteSubsetsOfFinite
<1>2. Endless = {}
  <2> SUFFICES ASSUME Endless # {} PROVE FALSE
    OBVIOUS
  <2> HIDE DEF Endless
  <2>1. PICK A \in Endless :
          \A B \in Endless : <<B, A>> \notin StrictSubsetOrdering(S)
    BY <1>1, FS_StrictSubsetOrderingWellFounded, WFMin
  <2> USE DEF Endless
  <2>2. PICK e \in A : TRUE
    OBVIOUS
  <2>3. A \ {e} \notin Endless
    BY <2>1, <2>2 DEF StrictSubsetOrdering
  <2>4. PICK d \in A : d < e
    BY <2>2
  <2>5. d \in A \ {e} /\ d \in Int /\ e \in Int
    BY <2>2, <2>4
  <2>6. \A x \in A \ {e} : \E y \in A \ {e} : y < x
    <3> TAKE x \in A \ {e}
    <3>1. PICK y \in A : y < x
      OBVIOUS
    <3>2. CASE y = e
      BY <2>4, <2>5, <3>1, <3>2
    <3>3. CASE y # e
      BY <3>1, <3>3
    <3> QED
      BY <3>2, <3>3
  <2> QED
    BY <2>3, <2>5, <2>6
<1>3. S \notin Endless
  BY <1>2
<1> QED
  BY <1>3

(* It is what Min chooses. *)
LEMMA MinIsMinimum ==
  ASSUME NEW S \in SUBSET Int, IsFiniteSet(S), S # {}
  PROVE  Min(S) \in S /\ \A y \in S : Min(S) <= y
  BY MinimumExists DEF Min
=============================================================================
