---------------------------- MODULE SumTheorems ----------------------------
(***************************************************************************)
(* Facts about the sums the models take: SumFunctionOnSet(f, S) adds f[x]   *)
(* over the elements x of a finite set S, one element at a time, in the      *)
(* order CHOOSE happens to take them.  The proofs are inductions in          *)
(* first-order form: the elements that satisfy the claim are a set, and the  *)
(* set is shown to be everything.                                            *)
(***************************************************************************)
EXTENDS FiniteSetsExt, FiniteSetTheorems, TLAPS

(***************************************************************************)
(* Induction.                                                                *)
(***************************************************************************)
\* A set of naturals that holds 0 and every successor of a member is Nat.
LEMMA NatInductionSet ==
    ASSUME NEW N \in SUBSET Nat, 0 \in N, \A n \in N : n + 1 \in N
    PROVE  N = Nat
<1> SUFFICES ASSUME Nat \ N # {} PROVE FALSE
    OBVIOUS
<1> DEFINE L == OpToRel(<, Nat)
<1>1. PICK m \in Nat \ N : \A k \in Nat \ N : <<k, m>> \notin L
    <2>1. IsWellFoundedOn(L, Nat)
        BY NatLessThanWellFounded
    <2> HIDE DEF L
    <2> QED BY <2>1, WFMin
<1>2. m # 0 /\ m - 1 \in Nat /\ m - 1 \notin N
    <2>1. m # 0 /\ m - 1 \in Nat
        OBVIOUS
    <2>2. m - 1 \in N => (m - 1) + 1 \in N
        OBVIOUS
    <2> QED BY <2>1, <2>2
<1>3. <<m - 1, m>> \in L
    BY <1>2 DEF OpToRel
<1> QED BY <1>1, <1>2, <1>3

\* A family of subsets of a finite set that holds every subset all of whose
\* one-smaller subsets it holds, holds all of them.
LEMMA SubsetInduction ==
    ASSUME NEW S, IsFiniteSet(S), NEW G \in SUBSET SUBSET S,
           \A T \in SUBSET S : (\A x \in T : T \ {x} \in G) => T \in G
    PROVE  \A T \in SUBSET S : T \in G
<1> SUFFICES ASSUME (SUBSET S) \ G # {} PROVE FALSE
    OBVIOUS
<1>1. IsWellFoundedOn(StrictSubsetOrdering(S), SUBSET S)
    <2>1. FiniteSubsetsOf(S) = SUBSET S
        BY FS_FiniteSubsetsOfFinite
    <2>2. IsWellFoundedOn(StrictSubsetOrdering(S), FiniteSubsetsOf(S))
        BY FS_StrictSubsetOrderingWellFounded
    <2> QED BY <2>1, <2>2, Zenon
<1>2. PICK B \in (SUBSET S) \ G :
           \A C \in (SUBSET S) \ G : <<C, B>> \notin StrictSubsetOrdering(S)
    BY <1>1, WFMin
<1>3. ASSUME NEW x \in B PROVE B \ {x} \in G
    <2>1. <<B \ {x}, B>> \in StrictSubsetOrdering(S)
        BY DEF StrictSubsetOrdering
    <2> QED BY <1>2, <2>1
<1> QED BY <1>2, <1>3

(***************************************************************************)
(* The definition.                                                           *)
(***************************************************************************)
\* The element taken first, the step of the recursion, and the function that
\* the recursive definition picks.
Chosen(s) == CHOOSE x \in s : TRUE
Unfold(f, g, s) == IF s = {} THEN 0 ELSE f[Chosen(s)] + g[s \ {Chosen(s)}]
SumsOver(f, S) == CHOOSE g : g = [s \in SUBSET S |-> Unfold(f, g, s)]

LEMMA SumIsSumsOver ==
    ASSUME NEW f, NEW S
    PROVE  SumFunctionOnSet(f, S) = SumsOver(f, S)[S]
BY DEF SumFunctionOnSet, FoldFunctionOnSet, MapThenFoldSet, SumsOver, Unfold, Chosen

\* The recursion has a solution: it has one on the subsets of at most n
\* elements, for every n.
LEMMA SumsOverExists ==
    ASSUME NEW f, NEW S, IsFiniteSet(S)
    PROVE  \E g : g = [s \in SUBSET S |-> Unfold(f, g, s)]
<1> DEFINE Upto(n) == {s \in SUBSET S : Cardinality(s) <= n}
           N == {n \in Nat : \E g : g = [s \in Upto(n) |-> Unfold(f, g, s)]}
<1>0. ASSUME NEW s \in SUBSET S
      PROVE  /\ IsFiniteSet(s) /\ Cardinality(s) \in Nat
             /\ Cardinality(s) = 0 <=> s = {}
             /\ s # {} => /\ Chosen(s) \in s
                          /\ Cardinality(s \ {Chosen(s)}) = Cardinality(s) - 1
             /\ Cardinality(s) <= Cardinality(S)
    <2>1. IsFiniteSet(s) /\ Cardinality(s) <= Cardinality(S)
        BY FS_Subset
    <2>2. Cardinality(s) \in Nat /\ (Cardinality(s) = 0 <=> s = {})
        BY <2>1, FS_CardinalityType, FS_EmptySet
    <2>3. s # {} => Chosen(s) \in s
        BY DEF Chosen
    <2>4. s # {} => Cardinality(s \ {Chosen(s)}) = Cardinality(s) - 1
        BY <2>1, <2>3, FS_RemoveElement
    <2> QED BY <2>1, <2>2, <2>3, <2>4
<1>1. 0 \in N
    <2> DEFINE g == [s \in Upto(0) |-> 0]
    <2>1. ASSUME NEW s \in Upto(0) PROVE s = {}
        <3>1. s \in SUBSET S /\ Cardinality(s) <= 0
            OBVIOUS
        <3>2. Cardinality(s) \in Nat /\ (Cardinality(s) = 0 => s = {})
            BY <1>0, <3>1
        <3> QED BY <3>1, <3>2
    <2>2. g = [s \in Upto(0) |-> Unfold(f, g, s)]
        BY <2>1 DEF Unfold
    <2> QED BY <2>2
<1>2. ASSUME NEW n \in N PROVE n + 1 \in N
    <2>1. PICK g : g = [s \in Upto(n) |-> Unfold(f, g, s)]
        OBVIOUS
    <2> DEFINE h == [s \in Upto(n + 1) |-> Unfold(f, g, s)]
    <2>2. ASSUME NEW s \in Upto(n + 1) PROVE Unfold(f, g, s) = Unfold(f, h, s)
        <3>1. CASE s = {}
            BY <3>1 DEF Unfold
        <3>2. CASE s # {}
            <4> DEFINE r == s \ {Chosen(s)}
            <4>1. r \in Upto(n) /\ r \in Upto(n + 1)
                BY <1>0, <3>2
            <4>2. h[r] = Unfold(f, g, r) /\ g[r] = Unfold(f, g, r)
                BY <4>1, <2>1
            <4> QED BY <4>2, <3>2 DEF Unfold
        <3> QED BY <3>1, <3>2
    <2>3. h = [s \in Upto(n + 1) |-> Unfold(f, h, s)]
        BY <2>2
    <2>4. n + 1 \in Nat
        OBVIOUS
    <2> HIDE DEF h
    <2> QED BY <2>3, <2>4
<1>3. N = Nat
    <2> HIDE DEF N
    <2>1. N \in SUBSET Nat
        BY DEF N
    <2> QED BY <1>1, <1>2, <2>1, NatInductionSet
<1>4. Cardinality(S) \in N
    BY <1>3, <1>0
<1>5. Upto(Cardinality(S)) = SUBSET S
    BY <1>0
<1> QED BY <1>4, <1>5

LEMMA SumsOverDef ==
    ASSUME NEW f, NEW S, IsFiniteSet(S), NEW T \in SUBSET S
    PROVE  SumsOver(f, S)[T] = Unfold(f, SumsOver(f, S), T)
<1>1. SumsOver(f, S) = [s \in SUBSET S |-> Unfold(f, SumsOver(f, S), s)]
    BY SumsOverExists DEF SumsOver
<1> QED BY <1>1

\* The part of the sum over T is the same in the sum over any superset of T.
LEMMA SumsOverPart ==
    ASSUME NEW f, NEW S, IsFiniteSet(S), NEW T \in SUBSET S
    PROVE  SumsOver(f, S)[T] = SumFunctionOnSet(f, T)
<1> DEFINE G == {A \in SUBSET T : SumsOver(f, S)[A] = SumsOver(f, T)[A]}
<1>0. IsFiniteSet(T)
    BY FS_Subset
<1>1. ASSUME NEW A \in SUBSET T, \A x \in A : A \ {x} \in G
      PROVE  A \in G
    <2>1. SumsOver(f, S)[A] = Unfold(f, SumsOver(f, S), A)
        BY SumsOverDef
    <2>2. SumsOver(f, T)[A] = Unfold(f, SumsOver(f, T), A)
        BY <1>0, SumsOverDef
    <2>3. A # {} => Chosen(A) \in A
        BY DEF Chosen
    <2> QED BY <1>1, <2>1, <2>2, <2>3 DEF Unfold
<1>2. \A A \in SUBSET T : A \in G
    <2>1. G \in SUBSET SUBSET T
        OBVIOUS
    <2> HIDE DEF G
    <2> QED BY <1>0, <1>1, <2>1, SubsetInduction
<1> QED BY <1>2, SumIsSumsOver

(***************************************************************************)
(* One element at a time.                                                    *)
(***************************************************************************)
LEMMA SumEmpty == \A f : SumFunctionOnSet(f, {}) = 0
BY SumIsSumsOver, SumsOverDef, FS_EmptySet DEF Unfold

LEMMA SumFirst ==
    ASSUME NEW f, NEW S, IsFiniteSet(S), S # {}
    PROVE  /\ Chosen(S) \in S
           /\ SumFunctionOnSet(f, S) =
                  f[Chosen(S)] + SumFunctionOnSet(f, S \ {Chosen(S)})
<1>1. SumsOver(f, S)[S] = Unfold(f, SumsOver(f, S), S)
    BY SumsOverDef
<1>2. SumsOver(f, S)[S \ {Chosen(S)}] = SumFunctionOnSet(f, S \ {Chosen(S)})
    BY SumsOverPart
<1>3. SumFunctionOnSet(f, S) = SumsOver(f, S)[S]
    BY SumIsSumsOver
<1>4. Chosen(S) \in S
    BY DEF Chosen
<1> QED BY <1>1, <1>2, <1>3, <1>4 DEF Unfold

\* A sum of integers is an integer.
LEMMA SumInt ==
    ASSUME NEW S, IsFiniteSet(S), NEW f, \A x \in S : f[x] \in Int
    PROVE  SumFunctionOnSet(f, S) \in Int
<1> DEFINE G == {A \in SUBSET S : SumFunctionOnSet(f, A) \in Int}
<1>1. ASSUME NEW A \in SUBSET S, \A x \in A : A \ {x} \in G
      PROVE  A \in G
    <2>1. CASE A = {}
        BY <2>1, SumEmpty
    <2>2. CASE A # {}
        <3>1. IsFiniteSet(A)
            BY FS_Subset
        <3>2. /\ Chosen(A) \in A
              /\ SumFunctionOnSet(f, A) =
                     f[Chosen(A)] + SumFunctionOnSet(f, A \ {Chosen(A)})
            BY <2>2, <3>1, SumFirst
        <3>3. SumFunctionOnSet(f, A \ {Chosen(A)}) \in Int
            BY <1>1, <3>2
        <3> QED BY <3>2, <3>3
    <2> QED BY <2>1, <2>2
<1>2. \A A \in SUBSET S : A \in G
    <2>1. G \in SUBSET SUBSET S
        OBVIOUS
    <2> HIDE DEF G
    <2> QED BY <1>1, <2>1, SubsetInduction
<1> QED BY <1>2

\* The order does not matter: any element can be taken first.
LEMMA SumRemove ==
    ASSUME NEW S, IsFiniteSet(S), NEW f, \A x \in S : f[x] \in Int, NEW e \in S
    PROVE  SumFunctionOnSet(f, S) = f[e] + SumFunctionOnSet(f, S \ {e})
<1> DEFINE Sum(A) == SumFunctionOnSet(f, A)
           G == {A \in SUBSET S : \A x \in A : Sum(A) = f[x] + Sum(A \ {x})}
<1>1. ASSUME NEW A \in SUBSET S, \A x \in A : A \ {x} \in G
      PROVE  A \in G
    <2> SUFFICES ASSUME NEW x \in A PROVE Sum(A) = f[x] + Sum(A \ {x})
        OBVIOUS
    <2> DEFINE c == Chosen(A)
    <2>0. IsFiniteSet(A) /\ \A B \in SUBSET A : IsFiniteSet(B) /\ Sum(B) \in Int
        BY FS_Subset, SumInt
    <2>1. c \in A /\ Sum(A) = f[c] + Sum(A \ {c})
        BY <2>0, SumFirst
    <2>2. CASE x = c
        BY <2>1, <2>2
    <2>3. CASE x # c
        <3>1. Sum(A \ {c}) = f[x] + Sum((A \ {c}) \ {x})
            BY <1>1, <2>1, <2>3
        <3>2. Sum(A \ {x}) = f[c] + Sum((A \ {x}) \ {c})
            BY <1>1, <2>1, <2>3
        <3>3. (A \ {c}) \ {x} = (A \ {x}) \ {c}
            OBVIOUS
        <3>4. f[x] \in Int /\ f[c] \in Int /\ Sum((A \ {x}) \ {c}) \in Int
            BY <2>0, <2>1
        <3>5. Sum(A) = f[c] + (f[x] + Sum((A \ {x}) \ {c}))
            BY <2>1, <3>1, <3>3
        <3> HIDE DEF Sum, c, G
        <3> QED BY <3>2, <3>4, <3>5
    <2> QED BY <2>2, <2>3
<1>2. \A A \in SUBSET S : A \in G
    <2>1. G \in SUBSET SUBSET S
        OBVIOUS
    <2> HIDE DEF G
    <2> QED BY <1>1, <2>1, SubsetInduction
<1> QED BY <1>2

(***************************************************************************)
(* What sums of integers do: an induction that adds one element, then its    *)
(* uses.                                                                     *)
(***************************************************************************)
LEMMA SumAdd ==
    ASSUME NEW S, IsFiniteSet(S), NEW e, e \notin S,
           NEW f, \A x \in S \cup {e} : f[x] \in Int
    PROVE  SumFunctionOnSet(f, S \cup {e}) = SumFunctionOnSet(f, S) + f[e]
<1>1. IsFiniteSet(S \cup {e})
    BY FS_AddElement
<1>2. SumFunctionOnSet(f, S \cup {e})
          = f[e] + SumFunctionOnSet(f, (S \cup {e}) \ {e})
    BY <1>1, SumRemove
<1>3. (S \cup {e}) \ {e} = S
    OBVIOUS
<1>4. SumFunctionOnSet(f, S) \in Int
    BY SumInt
<1>5. SumFunctionOnSet(f, S \cup {e}) = f[e] + SumFunctionOnSet(f, S)
    BY <1>2, <1>3, Zenon
<1>6. f[e] \in Int
    OBVIOUS
<1> QED BY <1>4, <1>5, <1>6

\* Only the values on the set count.
LEMMA SumSame ==
    ASSUME NEW S, IsFiniteSet(S), NEW f, NEW h, \A x \in S : f[x] = h[x]
    PROVE  SumFunctionOnSet(f, S) = SumFunctionOnSet(h, S)
<1> DEFINE G == {A \in SUBSET S : SumFunctionOnSet(f, A) = SumFunctionOnSet(h, A)}
<1>1. ASSUME NEW A \in SUBSET S, \A x \in A : A \ {x} \in G
      PROVE  A \in G
    <2>1. CASE A = {}
        BY <2>1, SumEmpty
    <2>2. CASE A # {}
        <3>1. IsFiniteSet(A)
            BY FS_Subset
        <3>2. /\ Chosen(A) \in A
              /\ SumFunctionOnSet(f, A) =
                     f[Chosen(A)] + SumFunctionOnSet(f, A \ {Chosen(A)})
            BY <2>2, <3>1, SumFirst
        <3>3. SumFunctionOnSet(h, A) =
                  h[Chosen(A)] + SumFunctionOnSet(h, A \ {Chosen(A)})
            BY <2>2, <3>1, SumFirst
        <3> QED BY <1>1, <3>2, <3>3
    <2> QED BY <2>1, <2>2
<1>2. \A A \in SUBSET S : A \in G
    <2>1. G \in SUBSET SUBSET S
        OBVIOUS
    <2> HIDE DEF G
    <2> QED BY <1>1, <2>1, SubsetInduction
<1> QED BY <1>2

\* A sum over the larger values is larger.
LEMMA SumLeq ==
    ASSUME NEW S, IsFiniteSet(S), NEW f, NEW h,
           \A x \in S : f[x] \in Int /\ h[x] \in Int /\ f[x] <= h[x]
    PROVE  SumFunctionOnSet(f, S) <= SumFunctionOnSet(h, S)
<1> DEFINE F(A) == SumFunctionOnSet(f, A)
           H(A) == SumFunctionOnSet(h, A)
           G == {A \in SUBSET S : F(A) <= H(A)}
<1>1. ASSUME NEW A \in SUBSET S, \A x \in A : A \ {x} \in G
      PROVE  A \in G
    <2>1. CASE A = {}
        BY <2>1, SumEmpty
    <2>2. CASE A # {}
        <3>1. PICK x \in A : TRUE
            BY <2>2
        <3>2. IsFiniteSet(A) /\ IsFiniteSet(A \ {x})
            BY FS_Subset
        <3>3. F(A) = f[x] + F(A \ {x}) /\ H(A) = h[x] + H(A \ {x})
            BY <3>2, SumRemove
        <3>4. F(A \ {x}) \in Int /\ H(A \ {x}) \in Int
            BY <3>2, SumInt
        <3>5. F(A \ {x}) <= H(A \ {x})
            BY <1>1
        <3>6. f[x] \in Int /\ h[x] \in Int /\ f[x] <= h[x]
            OBVIOUS
        <3>7. F(A) <= H(A)
            <4> HIDE DEF F, H
            <4> QED BY <3>3, <3>4, <3>5, <3>6
        <3> QED BY <3>7
    <2> QED BY <2>1, <2>2
<1>2. \A A \in SUBSET S : A \in G
    <2>1. G \in SUBSET SUBSET S
        OBVIOUS
    <2> HIDE DEF G
    <2> QED BY <1>1, <2>1, SubsetInduction
<1> QED BY <1>2

\* The sum of the sums.
LEMMA SumPlus ==
    ASSUME NEW S, IsFiniteSet(S), NEW f, NEW h, NEW k,
           \A x \in S : f[x] \in Int /\ h[x] \in Int /\ k[x] = f[x] + h[x]
    PROVE  SumFunctionOnSet(k, S) = SumFunctionOnSet(f, S) + SumFunctionOnSet(h, S)
<1> DEFINE F(A) == SumFunctionOnSet(f, A)
           H(A) == SumFunctionOnSet(h, A)
           K(A) == SumFunctionOnSet(k, A)
           G == {A \in SUBSET S : K(A) = F(A) + H(A)}
<1>1. ASSUME NEW A \in SUBSET S, \A x \in A : A \ {x} \in G
      PROVE  A \in G
    <2>1. CASE A = {}
        BY <2>1, SumEmpty
    <2>2. CASE A # {}
        <3>1. PICK x \in A : TRUE
            BY <2>2
        <3>2. IsFiniteSet(A) /\ IsFiniteSet(A \ {x})
            BY FS_Subset
        <3>0. \A y \in S : k[y] \in Int
            OBVIOUS
        <3>3. /\ F(A) = f[x] + F(A \ {x}) /\ H(A) = h[x] + H(A \ {x})
              /\ K(A) = k[x] + K(A \ {x})
            BY <3>0, <3>2, SumRemove
        <3>4. F(A \ {x}) \in Int /\ H(A \ {x}) \in Int
            BY <3>2, SumInt
        <3>5. K(A \ {x}) = F(A \ {x}) + H(A \ {x})
            BY <1>1
        <3>6. f[x] \in Int /\ h[x] \in Int /\ k[x] = f[x] + h[x]
            OBVIOUS
        <3>7. K(A) = F(A) + H(A)
            <4> HIDE DEF F, H, K
            <4> QED BY <3>3, <3>4, <3>5, <3>6
        <3> QED BY <3>7
    <2> QED BY <2>1, <2>2
<1>2. \A A \in SUBSET S : A \in G
    <2>1. G \in SUBSET SUBSET S
        OBVIOUS
    <2> HIDE DEF G
    <2> QED BY <1>1, <2>1, SubsetInduction
<1> QED BY <1>2

\* A factor comes out of the sum.
LEMMA SumTimes ==
    ASSUME NEW S, IsFiniteSet(S), NEW f, NEW h, NEW c \in Int,
           \A x \in S : f[x] \in Int /\ h[x] = c * f[x]
    PROVE  SumFunctionOnSet(h, S) = c * SumFunctionOnSet(f, S)
<1> DEFINE F(A) == SumFunctionOnSet(f, A)
           H(A) == SumFunctionOnSet(h, A)
           G == {A \in SUBSET S : H(A) = c * F(A)}
<1>0. \A y \in S : h[y] \in Int
    OBVIOUS
<1>1. ASSUME NEW A \in SUBSET S, \A x \in A : A \ {x} \in G
      PROVE  A \in G
    <2>1. CASE A = {}
        BY <2>1, SumEmpty
    <2>2. CASE A # {}
        <3>1. PICK x \in A : TRUE
            BY <2>2
        <3>2. IsFiniteSet(A) /\ IsFiniteSet(A \ {x})
            BY FS_Subset
        <3>3. F(A) = f[x] + F(A \ {x}) /\ H(A) = h[x] + H(A \ {x})
            BY <1>0, <3>2, SumRemove
        <3>4. F(A \ {x}) \in Int
            BY <3>2, SumInt
        <3>5. H(A \ {x}) = c * F(A \ {x})
            BY <1>1
        <3>6. f[x] \in Int /\ h[x] = c * f[x]
            OBVIOUS
        <3>7. H(A) = c * F(A)
            <4> HIDE DEF F, H
            <4>1. \A a, b \in Int : c * (a + b) = c * a + c * b
                OBVIOUS
            <4> QED BY <3>3, <3>4, <3>5, <3>6, <4>1
        <3> QED BY <3>7
    <2> QED BY <2>1, <2>2
<1>2. \A A \in SUBSET S : A \in G
    <2>1. G \in SUBSET SUBSET S
        OBVIOUS
    <2> HIDE DEF G
    <2> QED BY <1>1, <2>1, SubsetInduction
<1> QED BY <1>2

LEMMA SumZero ==
    ASSUME NEW S, IsFiniteSet(S), NEW f, \A x \in S : f[x] = 0
    PROVE  SumFunctionOnSet(f, S) = 0
<1>1. \A x \in S : f[x] \in Int /\ f[x] = 0 * f[x]
    OBVIOUS
<1>2. SumFunctionOnSet(f, S) = 0 * SumFunctionOnSet(f, S)
    BY <1>1, SumTimes
<1>3. SumFunctionOnSet(f, S) \in Int
    BY <1>1, SumInt
<1> QED BY <1>2, <1>3

\* A sum of naturals is a natural, and at least each of them.
LEMMA SumNat ==
    ASSUME NEW S, IsFiniteSet(S), NEW f, \A x \in S : f[x] \in Nat
    PROVE  /\ SumFunctionOnSet(f, S) \in Nat
           /\ \A x \in S : f[x] <= SumFunctionOnSet(f, S)
<1>1. ASSUME NEW A \in SUBSET S PROVE SumFunctionOnSet(f, A) \in Nat
    <2> DEFINE z == [x \in A |-> 0]
    <2>0. IsFiniteSet(A)
        BY FS_Subset
    <2>1. \A x \in A : z[x] \in Int /\ f[x] \in Int /\ z[x] <= f[x]
        OBVIOUS
    <2>2. SumFunctionOnSet(z, A) = 0
        BY <2>0, SumZero
    <2>3. SumFunctionOnSet(z, A) <= SumFunctionOnSet(f, A)
        BY <2>0, <2>1, SumLeq
    <2>4. SumFunctionOnSet(f, A) \in Int
        BY <2>0, <2>1, SumInt
    <2> QED BY <2>2, <2>3, <2>4
<1>2. ASSUME NEW e \in S PROVE f[e] <= SumFunctionOnSet(f, S)
    <2>1. \A x \in S : f[x] \in Int
        OBVIOUS
    <2>2. SumFunctionOnSet(f, S) = f[e] + SumFunctionOnSet(f, S \ {e})
        BY <2>1, SumRemove
    <2>3. SumFunctionOnSet(f, S \ {e}) \in Nat
        BY <1>1
    <2>4. f[e] \in Nat
        OBVIOUS
    <2> QED BY <2>2, <2>3, <2>4
<1> QED BY <1>1, <1>2

\* A value repeated over the set.
LEMMA SumConstant ==
    ASSUME NEW S, IsFiniteSet(S), NEW f, NEW c \in Int, \A x \in S : f[x] = c
    PROVE  SumFunctionOnSet(f, S) = c * Cardinality(S)
<1> DEFINE F(A) == SumFunctionOnSet(f, A)
           G == {A \in SUBSET S : F(A) = c * Cardinality(A)}
<1>1. ASSUME NEW A \in SUBSET S, \A x \in A : A \ {x} \in G
      PROVE  A \in G
    <2>1. CASE A = {}
        <3>1. F(A) = 0 /\ Cardinality(A) = 0
            BY <2>1, SumEmpty, FS_EmptySet
        <3> QED BY <3>1
    <2>2. CASE A # {}
        <3>1. PICK x \in A : TRUE
            BY <2>2
        <3>2. IsFiniteSet(A) /\ IsFiniteSet(A \ {x})
            BY FS_Subset
        <3>0. \A y \in S : f[y] \in Int
            OBVIOUS
        <3>3. F(A) = c + F(A \ {x})
            BY <3>0, <3>2, SumRemove
        <3>4. /\ Cardinality(A) \in Nat /\ Cardinality(A \ {x}) \in Nat
              /\ Cardinality(A) = Cardinality(A \ {x}) + 1
            BY <3>2, FS_CardinalityType, FS_RemoveElement
        <3>5. F(A \ {x}) = c * Cardinality(A \ {x})
            BY <1>1
        <3>6. F(A) = c * Cardinality(A)
            <4> HIDE DEF F
            <4>1. \A n \in Nat : c + c * n = c * (n + 1)
                OBVIOUS
            <4> QED BY <3>3, <3>4, <3>5, <4>1
        <3> QED BY <3>6
    <2> QED BY <2>1, <2>2
<1>2. \A A \in SUBSET S : A \in G
    <2>1. G \in SUBSET SUBSET S
        OBVIOUS
    <2> HIDE DEF G
    <2> QED BY <1>1, <2>1, SubsetInduction
<1> QED BY <1>2

\* Sums over disjoint sets add up.
LEMMA SumUnion ==
    ASSUME NEW S, IsFiniteSet(S), NEW T, IsFiniteSet(T), S \cap T = {},
           NEW f, \A x \in S \cup T : f[x] \in Int
    PROVE  SumFunctionOnSet(f, S \cup T)
               = SumFunctionOnSet(f, S) + SumFunctionOnSet(f, T)
<1> DEFINE F(A) == SumFunctionOnSet(f, A)
           G == {A \in SUBSET T : F(S \cup A) = F(S) + F(A)}
<1>1. ASSUME NEW A \in SUBSET T, \A x \in A : A \ {x} \in G
      PROVE  A \in G
    <2>0. F(S) \in Int
        BY SumInt
    <2>1. CASE A = {}
        <3>1. F(A) = 0 /\ S \cup A = S
            BY <2>1, SumEmpty
        <3>2. F(S \cup A) = F(S) + F(A)
            <4> HIDE DEF F
            <4> QED BY <2>0, <3>1
        <3> QED BY <3>2
    <2>2. CASE A # {}
        <3>1. PICK x \in A : TRUE
            BY <2>2
        <3>2. IsFiniteSet(A) /\ IsFiniteSet(A \ {x}) /\ IsFiniteSet(S \cup A)
            <4>1. IsFiniteSet(A) /\ IsFiniteSet(A \ {x})
                BY FS_Subset
            <4> QED BY <4>1, FS_Union
        <3>3. F(A) = f[x] + F(A \ {x})
            BY <3>2, SumRemove
        <3>4. F(S \cup A) = f[x] + F((S \cup A) \ {x})
            BY <3>2, SumRemove
        <3>5. F((S \cup A) \ {x}) = F(S \cup (A \ {x}))
            <4>1. (S \cup A) \ {x} = S \cup (A \ {x})
                OBVIOUS
            <4> QED BY <4>1, Zenon
        <3>6. F(A \ {x}) \in Int /\ f[x] \in Int
            BY <3>2, SumInt
        <3>7. F(S \cup (A \ {x})) = F(S) + F(A \ {x})
            BY <1>1
        <3>8. F(S \cup A) = F(S) + F(A)
            <4> HIDE DEF F
            <4> QED BY <2>0, <3>3, <3>4, <3>5, <3>6, <3>7
        <3> QED BY <3>8
    <2> QED BY <2>1, <2>2
<1>2. \A A \in SUBSET T : A \in G
    <2>1. G \in SUBSET SUBSET T
        OBVIOUS
    <2> HIDE DEF G
    <2> QED BY <1>1, <2>1, SubsetInduction
<1> QED BY <1>2

\* Of naturals, a part sums to no more than the whole.
LEMMA SumSubset ==
    ASSUME NEW S, IsFiniteSet(S), NEW f, \A x \in S : f[x] \in Nat,
           NEW T \in SUBSET S
    PROVE  SumFunctionOnSet(f, T) <= SumFunctionOnSet(f, S)
<1>1. IsFiniteSet(T) /\ IsFiniteSet(S \ T)
    BY FS_Subset
<1>2. T \cup (S \ T) = S /\ T \cap (S \ T) = {}
    OBVIOUS
<1>3. SumFunctionOnSet(f, S) = SumFunctionOnSet(f, T) + SumFunctionOnSet(f, S \ T)
    <2>1. \A x \in T \cup (S \ T) : f[x] \in Int
        OBVIOUS
    <2>2. SumFunctionOnSet(f, T \cup (S \ T))
              = SumFunctionOnSet(f, T) + SumFunctionOnSet(f, S \ T)
        BY <1>1, <1>2, <2>1, SumUnion
    <2> QED BY <1>2, <2>2
<1>4. SumFunctionOnSet(f, T) \in Nat /\ SumFunctionOnSet(f, S \ T) \in Nat
    <2>1. \A x \in T : f[x] \in Nat
        OBVIOUS
    <2>2. \A x \in S \ T : f[x] \in Nat
        OBVIOUS
    <2> QED BY <1>1, <2>1, <2>2, SumNat
<1> QED BY <1>3, <1>4

\* Adding up class by class adds up everything: k[x] is the class of x, cls[c]
\* the members of c.
LEMMA SumByClass ==
    ASSUME NEW S, IsFiniteSet(S), NEW f, \A x \in S : f[x] \in Int,
           NEW C, IsFiniteSet(C), NEW k, \A x \in S : k[x] \in C,
           NEW cls, \A c \in C : cls[c] = {x \in S : k[x] = c},
           NEW h, \A c \in C : h[c] = SumFunctionOnSet(f, cls[c])
    PROVE  SumFunctionOnSet(h, C) = SumFunctionOnSet(f, S)
<1> DEFINE F(A) == SumFunctionOnSet(f, A)
           H(A) == SumFunctionOnSet(h, A)
           In(A) == {x \in S : k[x] \in A}
           G == {A \in SUBSET C : H(A) = F(In(A))}
<1>0. \A A \in SUBSET C : IsFiniteSet(A) /\ IsFiniteSet(In(A))
    BY FS_Subset
<1>h. \A c \in C : h[c] \in Int
    <2> SUFFICES ASSUME NEW c \in C PROVE h[c] \in Int
        OBVIOUS
    <2>1. IsFiniteSet(cls[c]) /\ cls[c] \subseteq S
        BY FS_Subset
    <2> QED BY <2>1, SumInt
<1>1. ASSUME NEW A \in SUBSET C, \A c \in A : A \ {c} \in G
      PROVE  A \in G
    <2>1. CASE A = {}
        <3>1. In(A) = {}
            BY <2>1
        <3> QED BY <2>1, <3>1, SumEmpty
    <2>2. CASE A # {}
        <3>1. PICK c \in A : TRUE
            BY <2>2
        <3> DEFINE B == A \ {c}
                   X == cls[c]
        <3>2. H(A) = h[c] + H(B)
            BY <1>0, <1>h, SumRemove
        <3>3. H(B) = F(In(B))
            BY <1>1
        <3>4. h[c] = F(X)
            OBVIOUS
        <3>5. In(A) = X \cup In(B) /\ X \cap In(B) = {}
            OBVIOUS
        <3>6. F(In(A)) = F(X) + F(In(B))
            <4>1. IsFiniteSet(X) /\ IsFiniteSet(In(B))
                BY FS_Subset
            <4>2. \A x \in X \cup In(B) : f[x] \in Int
                OBVIOUS
            <4>3. F(X \cup In(B)) = F(X) + F(In(B))
                BY <3>5, <4>1, <4>2, SumUnion
            <4> QED BY <3>5, <4>3, Zenon
        <3>7. H(A) = F(In(A))
            <4> HIDE DEF F, H, In, X
            <4> QED BY <3>2, <3>3, <3>4, <3>6
        <3> QED BY <3>7
    <2> QED BY <2>1, <2>2
<1>2. \A A \in SUBSET C : A \in G
    <2>1. G \in SUBSET SUBSET C
        OBVIOUS
    <2> HIDE DEF G
    <2> QED BY <1>1, <2>1, SubsetInduction
<1>3. In(C) = S
    OBVIOUS
<1> QED BY <1>2, <1>3

\* Each element of F counted at a place of its own in I adds up to no more than
\* what the places hold.
LEMMA SumPlaced ==
    ASSUME NEW F, IsFiniteSet(F), NEW I, IsFiniteSet(I),
           NEW k, \A x \in F : k[x] \in I,
           \A x, y \in F : k[x] = k[y] => x = y,
           NEW h, \A i \in I : h[i] \in Nat,
           NEW g, \A x \in F : g[x] \in Int /\ g[x] <= h[k[x]]
    PROVE  SumFunctionOnSet(g, F) <= SumFunctionOnSet(h, I)
<1> DEFINE cls == [i \in I |-> {x \in F : k[x] = i}]
           b == [i \in I |-> SumFunctionOnSet(g, cls[i])]
<1>1. ASSUME NEW i \in I PROVE b[i] \in Int /\ b[i] <= h[i]
    <2>1. CASE cls[i] = {}
        BY <2>1, SumEmpty
    <2>2. CASE cls[i] # {}
        <3>1. PICK x \in F : k[x] = i
            BY <2>2
        <3>2. cls[i] = {x}
            BY <3>1
        <3>3. SumFunctionOnSet(g, {x}) = g[x] + SumFunctionOnSet(g, {x} \ {x})
            <4>1. IsFiniteSet({x})
                BY FS_Singleton
            <4> QED BY <3>1, <4>1, SumRemove
        <3>4. SumFunctionOnSet(g, {x} \ {x}) = 0
            <4>1. {x} \ {x} = {}
                OBVIOUS
            <4> QED BY <4>1, SumEmpty
        <3>5. b[i] = g[x]
            BY <3>1, <3>2, <3>3, <3>4
        <3> QED BY <3>1, <3>5
    <2> QED BY <2>1, <2>2
<1>2. SumFunctionOnSet(b, I) <= SumFunctionOnSet(h, I)
    <2>1. \A i \in I : b[i] \in Int /\ h[i] \in Int /\ b[i] <= h[i]
        BY <1>1
    <2> HIDE DEF b
    <2> QED BY <2>1, SumLeq
<1>3. SumFunctionOnSet(b, I) = SumFunctionOnSet(g, F)
    <2>1. /\ \A i \in I : cls[i] = {x \in F : k[x] = i}
          /\ \A i \in I : b[i] = SumFunctionOnSet(g, cls[i])
        OBVIOUS
    <2>2. \A x \in F : g[x] \in Int
        OBVIOUS
    <2> HIDE DEF b, cls
    <2> QED BY <2>1, <2>2, SumByClass
<1> QED BY <1>2, <1>3

(***************************************************************************)
(* The largest and the smallest of a set of integers.                        *)
(***************************************************************************)
LEMMA MaxIsLargest ==
    ASSUME NEW S \in SUBSET Int, IsFiniteSet(S), S # {}
    PROVE  Max(S) \in S /\ \A x \in S : x <= Max(S)
<1> DEFINE G == {A \in SUBSET S : A = {} \/ \E m \in A : \A y \in A : m >= y}
<1>1. ASSUME NEW A \in SUBSET S, \A x \in A : A \ {x} \in G
      PROVE  A \in G
    <2> SUFFICES ASSUME A # {} PROVE \E m \in A : \A y \in A : m >= y
        OBVIOUS
    <2>1. PICK x \in A : TRUE
        OBVIOUS
    <2>2. CASE A \ {x} = {}
        BY <2>2
    <2>3. CASE A \ {x} # {}
        <3>1. PICK m \in A \ {x} : \A y \in A \ {x} : m >= y
            BY <1>1, <2>3
        <3>2. m \in Int /\ x \in Int /\ A \subseteq Int
            OBVIOUS
        <3>3. CASE x > m
            <4>1. \A y \in A : x >= y
                BY <3>1, <3>2, <3>3
            <4> QED BY <4>1
        <3>4. CASE ~(x > m)
            <4>1. \A y \in A : m >= y
                BY <3>1, <3>2, <3>4
            <4> QED BY <4>1
        <3> QED BY <3>3, <3>4
    <2> QED BY <2>2, <2>3
<1>2. \A A \in SUBSET S : A \in G
    <2>1. G \in SUBSET SUBSET S
        OBVIOUS
    <2> HIDE DEF G
    <2> QED BY <1>1, <2>1, SubsetInduction
<1>3. \E m \in S : \A y \in S : m >= y
    BY <1>2
<1>4. Max(S) \in S /\ \A y \in S : Max(S) >= y
    BY <1>3 DEF Max
<1> QED BY <1>4

LEMMA MinIsSmallest ==
    ASSUME NEW S \in SUBSET Int, IsFiniteSet(S), S # {}
    PROVE  Min(S) \in S /\ \A x \in S : Min(S) <= x
<1> DEFINE G == {A \in SUBSET S : A = {} \/ \E m \in A : \A y \in A : m <= y}
<1>1. ASSUME NEW A \in SUBSET S, \A x \in A : A \ {x} \in G
      PROVE  A \in G
    <2> SUFFICES ASSUME A # {} PROVE \E m \in A : \A y \in A : m <= y
        OBVIOUS
    <2>1. PICK x \in A : TRUE
        OBVIOUS
    <2>2. CASE A \ {x} = {}
        BY <2>1, <2>2
    <2>3. CASE A \ {x} # {}
        <3>1. PICK m \in A \ {x} : \A y \in A \ {x} : m <= y
            BY <1>1, <2>1, <2>3
        <3>2. m \in Int /\ x \in Int /\ \A y \in A : y \in Int
            BY <2>1, <3>1
        <3>3. CASE m <= x
            BY <2>1, <3>1, <3>2, <3>3
        <3>4. CASE ~(m <= x)
            <4>1. \A y \in A : x <= y
                BY <3>1, <3>2, <3>4
            <4> QED BY <2>1, <4>1
        <3> QED BY <3>3, <3>4
    <2> QED BY <2>2, <2>3
<1>2. S \in G
    <2>1. G \in SUBSET SUBSET S
        OBVIOUS
    <2> HIDE DEF G
    <2> QED BY <1>1, <2>1, SubsetInduction
<1>3. \E m \in S : \A y \in S : m <= y
    BY <1>2
<1> QED BY <1>3 DEF Min

LEMMA MaxWithZero ==
    ASSUME NEW n \in Int
    PROVE  Max({0, n}) = IF n > 0 THEN n ELSE 0
BY DEF Max

\* Multiplying keeps an order.
LEMMA MulMonotone ==
    ASSUME NEW a \in Nat, NEW b \in Int, NEW c \in Int, b <= c
    PROVE  a * b <= a * c
<1>1. a * (c - b) >= 0
    OBVIOUS
<1> QED BY <1>1
=============================================================================
