----------------------------- MODULE SumTheorems -----------------------------
(***************************************************************************)
(* Finite sums, for the proofs.  The model adds up sizes and byte counts    *)
(* with MapThenSumSet; here is what such a sum does when its set or its     *)
(* summands change.                                                         *)
(*                                                                         *)
(* The induction theorems of the library have a predicate for a parameter.  *)
(* FiniteInduction says the same with a set in its place, which the provers *)
(* can instantiate; it comes from the well-foundedness of < on Nat.         *)
(***************************************************************************)
EXTENDS Naturals, FiniteSetsExt, FiniteSetTheorems, WellFoundedInduction, TLAPS

\* A nonempty set of naturals has a least element.
LEMMA LeastNatural ==
    ASSUME NEW T, T \subseteq Nat, T # {}
    PROVE  \E x \in T : \A y \in T : x <= y
<1> DEFINE R == {ss \in Nat \X Nat : ss[1] < ss[2]}
<1>1. IsWellFoundedOn(R, Nat)
  BY NatLessThanWellFounded DEF OpToRel
<1>2. \E x \in T : \A y \in T : ~(<<y, x>> \in R)
  <2> HIDE DEF R
  <2> QED
    BY <1>1, WFMin
<1>3. PICK x \in T : \A y \in T : ~(<<y, x>> \in R)
  BY <1>2
<1>4. \A y \in T : ~(y < x)
  BY <1>3
<1> QED
  BY <1>4

\* A set that has a subset of S whenever it has that subset without any one of
\* its elements (and so the empty set) has all the subsets of S.
LEMMA FiniteInduction ==
    ASSUME NEW S, IsFiniteSet(S), NEW Good,
           \A T \in SUBSET S : (\A x \in T : T \ {x} \in Good) => T \in Good
    PROVE  \A T \in SUBSET S : T \in Good
<1> SUFFICES ASSUME NEW U \in SUBSET S, U \notin Good PROVE FALSE
  OBVIOUS
<1> DEFINE Sizes == {n \in Nat : \E T \in SUBSET S : T \notin Good /\ Cardinality(T) = n}
<1>1. \A T \in SUBSET S : IsFiniteSet(T) /\ Cardinality(T) \in Nat
  BY FS_Subset, FS_CardinalityType
<1>2. Cardinality(U) \in Sizes
  BY <1>1
<1>3. PICK n \in Sizes : \A k \in Sizes : n <= k
  BY <1>2, LeastNatural
<1>4. PICK T \in SUBSET S : T \notin Good /\ Cardinality(T) = n
  BY <1>3
<1>5. PICK x \in T : T \ {x} \notin Good
  BY <1>4
<1>9. n \in Nat
  BY <1>3
<1>6. Cardinality(T \ {x}) = n - 1
  BY <1>1, <1>4, <1>5, FS_RemoveElement
<1>7. Cardinality(T \ {x}) \in Sizes
  BY <1>1, <1>5
<1> HIDE DEF Sizes
<1>8. n - 1 \in Sizes
  BY <1>6, <1>7
<1> QED
  BY <1>3, <1>8, <1>9

-----------------------------------------------------------------------------
(* The recursion of MapThenSumSet                                           *)

SumStep(g, f, s) ==
    IF s = {} THEN 0 ELSE f[CHOOSE x \in s : TRUE] + g[s \ {CHOOSE x \in s : TRUE}]
SumFcn(f, S) == CHOOSE g : g = [s \in SUBSET S |-> SumStep(g, f, s)]
SumOver(f, S) == SumFcn(f, S)[S]

LEMMA SumIsSumOver ==
    ASSUME NEW f, NEW S
    PROVE  MapThenSumSet(LAMBDA x : f[x], S) = SumOver(f, S)
  BY DEF MapThenSumSet, MapThenFoldSet, SumFcn, SumStep, SumOver

\* g follows the recursion on the sets in D.
SumsOn(g, f, D) == \A s \in D : g[s] = SumStep(g, f, s)

\* The recursion has a solution: one for the sets of at most n elements yields
\* one for those of at most n + 1.
LEMMA SumFcnDef ==
    ASSUME NEW f, NEW S, IsFiniteSet(S)
    PROVE  \A s \in SUBSET S : SumFcn(f, S)[s] = SumStep(SumFcn(f, S), f, s)
<1> DEFINE Small(n) == {s \in SUBSET S : Cardinality(s) <= n}
           Bad == {n \in Nat : ~ \E g : SumsOn(g, f, Small(n))}
<1>1. \A s \in SUBSET S : IsFiniteSet(s) /\ Cardinality(s) \in Nat
  BY FS_Subset, FS_CardinalityType
<1>2. Bad = {}
  <2> SUFFICES ASSUME Bad # {} PROVE FALSE
    OBVIOUS
  <2>1. PICK n \in Bad : \A k \in Bad : n <= k
    BY LeastNatural
  <2>2. n # 0
    <3> DEFINE z == [s \in SUBSET S |-> 0]
    <3>1. \A s \in Small(0) : s = {}
      BY <1>1, FS_EmptySet
    <3>2. SumsOn(z, f, Small(0))
      BY <3>1 DEF SumsOn, SumStep
    <3> QED
      BY <2>1, <3>2
  <2>3. n - 1 \in Nat /\ n - 1 \notin Bad
    <3>1. n \in Nat
      BY <2>1
    <3> HIDE DEF Bad
    <3> QED
      BY <2>1, <2>2, <3>1
  <2>4. PICK g : SumsOn(g, f, Small(n - 1))
    BY <2>3
  <2> DEFINE h == [s \in SUBSET S |-> SumStep(g, f, s)]
  <2>5. \A s \in Small(n - 1) : h[s] = g[s]
    BY <2>4 DEF SumsOn
  <2>6. ASSUME NEW s \in Small(n), s # {}
        PROVE  s \ {CHOOSE x \in s : TRUE} \in Small(n - 1)
    <3> DEFINE c == CHOOSE x \in s : TRUE
    <3>1. c \in s
      BY <2>6
    <3> HIDE DEF c
    <3>2. Cardinality(s \ {c}) = Cardinality(s) - 1
      BY <1>1, <3>1, FS_RemoveElement
    <3>3. s \ {c} \in SUBSET S /\ Cardinality(s) \in Nat /\ Cardinality(s) <= n
      BY <1>1
    <3>4. s \ {c} \in Small(n - 1)
      BY <2>3, <3>2, <3>3
    <3> QED
      BY <3>4 DEF c
  <2>7. SumsOn(h, f, Small(n))
    <3> SUFFICES ASSUME NEW s \in Small(n) PROVE h[s] = SumStep(h, f, s)
      BY DEF SumsOn
    <3>1. h[s] = SumStep(g, f, s)
      OBVIOUS
    <3>2. CASE s = {}
      BY <3>1, <3>2 DEF SumStep
    <3>3. CASE s # {}
      <4> DEFINE r == s \ {CHOOSE x \in s : TRUE}
      <4>1. h[r] = g[r]
        BY <2>5, <2>6, <3>3
      <4> QED
        BY <3>1, <3>3, <4>1 DEF SumStep
    <3> QED
      BY <3>2, <3>3
  <2> QED
    BY <2>1, <2>7
<1>3. \E g : g = [s \in SUBSET S |-> SumStep(g, f, s)]
  <2>1. Cardinality(S) \in Nat
    BY <1>1
  <2>2. PICK g : SumsOn(g, f, Small(Cardinality(S)))
    BY <1>2, <2>1
  <2>3. SUBSET S = Small(Cardinality(S))
    BY FS_Subset
  <2> DEFINE h == [s \in SUBSET S |-> SumStep(g, f, s)]
  <2>4. \A s \in SUBSET S : h[s] = g[s]
    BY <2>2, <2>3 DEF SumsOn
  <2>5. \A s \in SUBSET S : SumStep(h, f, s) = SumStep(g, f, s)
    <3> SUFFICES ASSUME NEW s \in SUBSET S PROVE SumStep(h, f, s) = SumStep(g, f, s)
      OBVIOUS
    <3>1. s \ {CHOOSE x \in s : TRUE} \in SUBSET S
      OBVIOUS
    <3> QED
      BY <2>4, <3>1 DEF SumStep
  <2>6. h = [s \in SUBSET S |-> SumStep(h, f, s)]
    BY <2>5
  <2> QED
    BY <2>6
<1>4. SumFcn(f, S) = [s \in SUBSET S |-> SumStep(SumFcn(f, S), f, s)]
  BY <1>3 DEF SumFcn
<1> QED
  BY <1>4

\* The solution does not depend on the set it is taken for.
LEMMA SumFcnLocal ==
    ASSUME NEW f, NEW S, IsFiniteSet(S), NEW T \in SUBSET S
    PROVE  SumFcn(f, S)[T] = SumOver(f, T)
<1> DEFINE Good == {U \in SUBSET T : SumFcn(f, S)[U] = SumFcn(f, T)[U]}
<1>1. IsFiniteSet(T)
  BY FS_Subset
<1>2. \A U \in SUBSET T : /\ SumFcn(f, S)[U] = SumStep(SumFcn(f, S), f, U)
                          /\ SumFcn(f, T)[U] = SumStep(SumFcn(f, T), f, U)
  <2> HIDE DEF Good
  <2> SUFFICES ASSUME NEW U \in SUBSET T
               PROVE  /\ SumFcn(f, S)[U] = SumStep(SumFcn(f, S), f, U)
                      /\ SumFcn(f, T)[U] = SumStep(SumFcn(f, T), f, U)
    OBVIOUS
  <2>1. U \in SUBSET S
    OBVIOUS
  <2>2. SumFcn(f, S)[U] = SumStep(SumFcn(f, S), f, U)
    BY <2>1, SumFcnDef
  <2>3. SumFcn(f, T)[U] = SumStep(SumFcn(f, T), f, U)
    BY <1>1, SumFcnDef
  <2> QED
    BY <2>2, <2>3
<1>3. ASSUME NEW U \in SUBSET T, \A x \in U : U \ {x} \in Good
      PROVE  U \in Good
  <2>1. CASE U = {}
    BY <1>2, <2>1 DEF SumStep
  <2>2. CASE U # {}
    <3> DEFINE c == CHOOSE x \in U : TRUE
    <3>1. c \in U
      BY <2>2
    <3>2. SumFcn(f, S)[U \ {c}] = SumFcn(f, T)[U \ {c}]
      BY <1>3, <3>1
    <3> QED
      BY <1>2, <2>2, <3>2 DEF SumStep
  <2> QED
    BY <2>1, <2>2
<1>4. T \in Good
  <2> HIDE DEF Good
  <2>1. \A U \in SUBSET T : U \in Good
    BY <1>1, <1>3, FiniteInduction
  <2> QED
    BY <2>1
<1> QED
  BY <1>4 DEF SumOver

LEMMA SumEmpty == ASSUME NEW f PROVE SumOver(f, {}) = 0
<1>1. \A s \in SUBSET {} : SumFcn(f, {})[s] = SumStep(SumFcn(f, {}), f, s)
  BY SumFcnDef, FS_EmptySet
<1>2. SumOver(f, {}) = SumStep(SumFcn(f, {}), f, {})
  BY <1>1 DEF SumOver
<1> QED
  BY <1>2 DEF SumStep

LEMMA SumChosen ==
    ASSUME NEW f, NEW S, IsFiniteSet(S), S # {}
    PROVE  \E c \in S : SumOver(f, S) = f[c] + SumOver(f, S \ {c})
<1> DEFINE c == CHOOSE x \in S : TRUE
<1>1. c \in S /\ S \ {c} \in SUBSET S
  OBVIOUS
<1>2. \A s \in SUBSET S : SumFcn(f, S)[s] = SumStep(SumFcn(f, S), f, s)
  BY SumFcnDef
<1>3. SumOver(f, S) = SumStep(SumFcn(f, S), f, S)
  BY <1>2 DEF SumOver
<1>4. SumOver(f, S) = f[c] + SumFcn(f, S)[S \ {c}]
  BY <1>3 DEF SumStep
<1> HIDE DEF c
<1> QED
  BY <1>1, <1>4, SumFcnLocal

LEMMA SumType ==
    ASSUME NEW f, NEW S, IsFiniteSet(S), \A x \in S : f[x] \in Nat
    PROVE  SumOver(f, S) \in Nat
<1> DEFINE Good == {T \in SUBSET S : SumOver(f, T) \in Nat}
<1>1. ASSUME NEW T \in SUBSET S, \A x \in T : T \ {x} \in Good
      PROVE  T \in Good
  <2>1. CASE T = {}
    BY <2>1, SumEmpty
  <2>2. CASE T # {}
    <3>1. PICK c \in T : SumOver(f, T) = f[c] + SumOver(f, T \ {c})
      BY <2>2, SumChosen, FS_Subset
    <3>2. f[c] \in Nat /\ SumOver(f, T \ {c}) \in Nat
      BY <1>1, <3>1
    <3> QED
      BY <3>1, <3>2
  <2> QED
    BY <2>1, <2>2
<1>2. S \in Good
  <2> HIDE DEF Good
  <2>1. \A T \in SUBSET S : T \in Good
    BY <1>1, FiniteInduction
  <2> QED
    BY <2>1
<1> QED
  BY <1>2

\* Any summand may be taken first.
LEMMA SumRemove ==
    ASSUME NEW f, NEW S, IsFiniteSet(S), \A x \in S : f[x] \in Nat, NEW y \in S
    PROVE  SumOver(f, S) = f[y] + SumOver(f, S \ {y})
<1> DEFINE Good == {T \in SUBSET S :
                      \A z \in T : SumOver(f, T) = f[z] + SumOver(f, T \ {z})}
<1>0. \A T \in SUBSET S : IsFiniteSet(T) /\ SumOver(f, T) \in Nat
  BY FS_Subset, SumType
<1>1. ASSUME NEW T \in SUBSET S, \A x \in T : T \ {x} \in Good
      PROVE  T \in Good
  <2> SUFFICES ASSUME NEW z \in T PROVE SumOver(f, T) = f[z] + SumOver(f, T \ {z})
    OBVIOUS
  <2>1. PICK c \in T : SumOver(f, T) = f[c] + SumOver(f, T \ {c})
    BY <1>0, SumChosen
  <2>2. CASE z # c
    <3>1. (T \ {c}) \ {z} = (T \ {z}) \ {c} /\ z \in T \ {c} /\ c \in T \ {z}
      BY <2>2
    <3>2. SumOver(f, T \ {c}) = f[z] + SumOver(f, (T \ {c}) \ {z})
      BY <1>1, <3>1
    <3>3. SumOver(f, T \ {z}) = f[c] + SumOver(f, (T \ {c}) \ {z})
      BY <1>1, <3>1
    <3>4. f[c] \in Nat /\ f[z] \in Nat /\ SumOver(f, (T \ {c}) \ {z}) \in Nat
      BY <1>0
    <3> QED
      BY <2>1, <3>2, <3>3, <3>4
  <2> QED
    BY <2>1, <2>2
<1>2. S \in Good
  <2> HIDE DEF Good
  <2>1. \A T \in SUBSET S : T \in Good
    BY <1>1, FiniteInduction
  <2> QED
    BY <2>1
<1> QED
  BY <1>2

LEMMA SumAdd ==
    ASSUME NEW f, NEW S, IsFiniteSet(S), NEW y, y \notin S, \A x \in S \cup {y} : f[x] \in Nat
    PROVE  SumOver(f, S \cup {y}) = f[y] + SumOver(f, S)
<1>1. IsFiniteSet(S \cup {y}) /\ (S \cup {y}) \ {y} = S
  BY FS_AddElement
<1> QED
  BY <1>1, SumRemove

\* Summands that are the same have the same sum; larger ones a larger sum.
LEMMA SumMonotone ==
    ASSUME NEW f, NEW g, NEW S, IsFiniteSet(S),
           \A x \in S : f[x] \in Nat /\ g[x] \in Nat /\ f[x] <= g[x]
    PROVE  SumOver(f, S) <= SumOver(g, S)
<1> DEFINE Good == {T \in SUBSET S : SumOver(f, T) <= SumOver(g, T)}
<1>0. \A T \in SUBSET S : /\ IsFiniteSet(T)
                          /\ SumOver(f, T) \in Nat /\ SumOver(g, T) \in Nat
  BY FS_Subset, SumType
<1>1. ASSUME NEW T \in SUBSET S, \A x \in T : T \ {x} \in Good
      PROVE  T \in Good
  <2>1. CASE T = {}
    BY <2>1, SumEmpty
  <2>2. CASE T # {}
    <3>1. PICK z \in T : TRUE
      BY <2>2
    <3>6. IsFiniteSet(T) /\ \A x \in T : f[x] \in Nat /\ g[x] \in Nat
      BY <1>0
    <3>7. SumOver(f, T) = f[z] + SumOver(f, T \ {z})
      BY <3>6, SumRemove
    <3>8. SumOver(g, T) = g[z] + SumOver(g, T \ {z})
      BY <3>6, SumRemove
    <3>3. SumOver(f, T \ {z}) <= SumOver(g, T \ {z})
      BY <1>1, <3>1
    <3>4. SumOver(f, T) <= SumOver(g, T)
      <4>1. /\ SumOver(f, T \ {z}) \in Nat /\ SumOver(g, T \ {z}) \in Nat
            /\ f[z] \in Nat /\ g[z] \in Nat /\ f[z] <= g[z]
        BY <1>0
      <4> QED
        BY <3>3, <3>7, <3>8, <4>1
    <3> QED
      BY <3>4
  <2> QED
    BY <2>1, <2>2
<1>2. S \in Good
  <2> HIDE DEF Good
  <2>1. \A T \in SUBSET S : T \in Good
    BY <1>1, FiniteInduction
  <2> QED
    BY <2>1
<1> QED
  BY <1>2

LEMMA SumSame ==
    ASSUME NEW f, NEW g, NEW S, IsFiniteSet(S), \A x \in S : f[x] \in Nat /\ g[x] = f[x]
    PROVE  SumOver(g, S) = SumOver(f, S)
<1>1. SumOver(f, S) \in Nat /\ SumOver(g, S) \in Nat
  BY SumType
<1>2. SumOver(f, S) <= SumOver(g, S) /\ SumOver(g, S) <= SumOver(f, S)
  <2>1. \A x \in S : f[x] <= g[x] /\ g[x] <= f[x] /\ g[x] \in Nat
    OBVIOUS
  <2> QED
    BY <2>1, SumMonotone
<1> QED
  BY <1>1, <1>2

\* A subset has no larger sum.
LEMMA SumSubset ==
    ASSUME NEW f, NEW S, IsFiniteSet(S), \A x \in S : f[x] \in Nat, NEW T \in SUBSET S
    PROVE  SumOver(f, T) <= SumOver(f, S)
<1> DEFINE Good == {D \in SUBSET (S \ T) : SumOver(f, T) <= SumOver(f, T \cup D)}
<1>0. /\ IsFiniteSet(S \ T)
      /\ \A D \in SUBSET (S \ T) : SumOver(f, T \cup D) \in Nat /\ IsFiniteSet(T \cup D)
      /\ SumOver(f, T) \in Nat
  <2>1. \A U \in SUBSET S : IsFiniteSet(U) /\ SumOver(f, U) \in Nat
    BY FS_Subset, SumType
  <2> QED
    BY <2>1
<1>1. ASSUME NEW D \in SUBSET (S \ T), \A x \in D : D \ {x} \in Good
      PROVE  D \in Good
  <2>1. CASE D = {}
    <3>1. T \cup D = T
      BY <2>1
    <3> QED
      BY <1>0, <3>1
  <2>2. CASE D # {}
    <3>1. PICK z \in D : TRUE
      BY <2>2
    <3>2. (T \cup D) \ {z} = T \cup (D \ {z}) /\ f[z] \in Nat /\ D \ {z} \in SUBSET (S \ T)
      OBVIOUS
    <3>3. SumOver(f, T \cup D) = f[z] + SumOver(f, (T \cup D) \ {z})
      <4>1. IsFiniteSet(T \cup D) /\ z \in T \cup D /\ \A x \in T \cup D : f[x] \in Nat
        BY <1>0
      <4> HIDE DEF Good
      <4> QED
        BY <4>1, SumRemove
    <3>4. SumOver(f, T) <= SumOver(f, T \cup (D \ {z}))
      BY <1>1, <3>1
    <3>5. SumOver(f, T) <= SumOver(f, T \cup D)
      <4>1. SumOver(f, T \cup (D \ {z})) \in Nat /\ SumOver(f, T) \in Nat
        BY <1>0, <3>2
      <4> QED
        BY <3>2, <3>3, <3>4, <4>1
    <3> QED
      BY <3>5
  <2> QED
    BY <2>1, <2>2
<1>2. S \ T \in Good
  <2>0. PICK R : R = S \ T
    OBVIOUS
  <2> HIDE DEF Good
  <2>1. \A D \in SUBSET R : (\A x \in D : D \ {x} \in Good) => D \in Good
    BY <1>1, <2>0
  <2>2. IsFiniteSet(R)
    BY <1>0, <2>0
  <2>3. \A D \in SUBSET R : D \in Good
    BY <2>1, <2>2, FiniteInduction, Zenon
  <2> QED
    BY <2>0, <2>3
<1>3. T \cup (S \ T) = S
  OBVIOUS
<1> QED
  BY <1>2, <1>3
=============================================================================
