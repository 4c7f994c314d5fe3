-------------------------------- MODULE Sums --------------------------------
(***************************************************************************)
(* What the sums of the reporting models are: laws of SumFunctionOnSet and *)
(* SumFunction for functions over any finite set.                          *)
(*                                                                         *)
(* SumFunctionOnSet is recursive on the set.  Where an induction theorem   *)
(* would be cited, a proof takes a smallest set that violates the law      *)
(* (SmallestSubset) and shows that there is a smaller one.                 *)
(***************************************************************************)
EXTENDS Functions, FiniteSetTheorems, WellFoundedInduction, TLAPS

\* A family of subsets of a finite set has a smallest member.
LEMMA SmallestSubset ==
  ASSUME NEW S, IsFiniteSet(S), NEW T, T \subseteq SUBSET S, T # {}
  PROVE  \E x \in T : \A y \in T : ~(y \subseteq x /\ y # x)
<1>1. IsWellFoundedOn(StrictSubsetOrdering(S), SUBSET S)
  BY FS_FiniteSubsetsOfFinite, FS_StrictSubsetOrderingWellFounded
<1>2. PICK x \in T : \A y \in T : <<y, x>> \notin StrictSubsetOrdering(S)
  BY <1>1, WFMin
<1> QED BY <1>2 DEF StrictSubsetOrdering

\* Set induction: a family that has the empty set, and every non-empty subset all of
\* whose parts short of one element it has, has the set.
LEMMA SetInduction ==
  ASSUME NEW S, IsFiniteSet(S), NEW Good, {} \in Good,
         \A T \in SUBSET S : T # {} /\ (\A x \in T : T \ {x} \in Good) => T \in Good
  PROVE  S \in Good
<1> DEFINE Bad == {T \in SUBSET S : T \notin Good}
<1>1. SUFFICES ASSUME Bad # {} PROVE FALSE
  OBVIOUS
<1>2. PICK s \in Bad : \A r \in Bad : ~(r \subseteq s /\ r # s)
  <2> HIDE DEF Bad
  <2>1. Bad \subseteq SUBSET S
    BY DEF Bad
  <2> QED BY <1>1, <2>1, SmallestSubset
<1>3. s # {}
  BY <1>2
<1>4. ASSUME NEW x \in s PROVE s \ {x} \in Good
  <2>1. s \ {x} \notin Bad
    BY <1>2
  <2> QED BY <2>1
<1> QED BY <1>2, <1>3, <1>4

-----------------------------------------------------------------------------
(* The recursion. *)

Chosen(s) == CHOOSE x \in s : TRUE

\* g has the sums of F over the subsets of S.
Sums(g, F, S) ==
  g = [s \in SUBSET S |-> IF s = {} THEN 0 ELSE F[Chosen(s)] + g[s \ {Chosen(s)}]]

SumsOf(F, S) == CHOOSE g : Sums(g, F, S)

\* The element that CHOOSE takes first.
LEMMA ChosenIn == ASSUME NEW s, s # {} PROVE Chosen(s) \in s
  BY DEF Chosen

\* Two such functions agree where both are defined.
LEMMA SumsAgree ==
  ASSUME NEW F, NEW S, IsFiniteSet(S), NEW T \in SUBSET S,
         NEW g, Sums(g, F, S), NEW h, Sums(h, F, T)
  PROVE  g[T] = h[T]
<1> DEFINE Differ == {s \in SUBSET T : g[s] # h[s]}
<1>1. SUFFICES ASSUME Differ # {} PROVE FALSE
  OBVIOUS
<1>2. IsFiniteSet(T)
  BY FS_Subset
<1>3. PICK s \in Differ : \A r \in Differ : ~(r \subseteq s /\ r # s)
  <2> HIDE DEF Differ
  <2>1. Differ \subseteq SUBSET T
    BY DEF Differ
  <2> QED BY <1>1, <1>2, <2>1, SmallestSubset
<1>4. s # {}
  BY <1>3 DEF Sums
<1> DEFINE c == Chosen(s)
<1>5. c \in s
  BY <1>4, ChosenIn
<1>6. /\ g[s] = F[c] + g[s \ {c}]
      /\ h[s] = F[c] + h[s \ {c}]
  <2>1. s \in SUBSET S /\ s \in SUBSET T
    OBVIOUS
  <2> QED BY <1>4, <2>1 DEF Sums
<1>7. g[s \ {c}] = h[s \ {c}]
  BY <1>3, <1>5
<1> QED BY <1>3, <1>6, <1>7

\* There is such a function.
LEMMA SumsExist ==
  ASSUME NEW F, NEW S, IsFiniteSet(S)
  PROVE  \E g : Sums(g, F, S)
<1> DEFINE Without == {s \in SUBSET S : ~\E g : Sums(g, F, s)}
<1>1. SUFFICES ASSUME Without # {} PROVE FALSE
  OBVIOUS
<1>2. PICK m \in Without : \A r \in Without : ~(r \subseteq m /\ r # m)
  <2> HIDE DEF Without
  <2>1. Without \subseteq SUBSET S
    BY DEF Without
  <2> QED BY <1>1, <2>1, SmallestSubset
<1>3. \A r \in SUBSET m : r # m => Sums(SumsOf(F, r), F, r)
  <2>1. \A r \in SUBSET m : r # m => \E g : Sums(g, F, r)
    BY <1>2
  <2> QED BY <2>1 DEF SumsOf
<1> DEFINE Value(r) == SumsOf(F, r)[r]
           Step(r) == IF r = {} THEN 0 ELSE F[Chosen(r)] + Value(r \ {Chosen(r)})
           g == [r \in SUBSET m |-> Step(r)]
<1>4. \A r \in SUBSET m : r # m => Value(r) = Step(r)
  <2> SUFFICES ASSUME NEW r \in SUBSET m, r # m PROVE Value(r) = Step(r)
    OBVIOUS
  <2>1. Sums(SumsOf(F, r), F, r)
    BY <1>3
  <2>2. CASE r = {}
    BY <2>1, <2>2 DEF Sums
  <2>3. CASE r # {}
    <3> DEFINE p == r \ {Chosen(r)}
    <3>1. p \in SUBSET r /\ p \in SUBSET m /\ p # m
      BY <2>3, ChosenIn
    <3>2. SumsOf(F, r)[r] = F[Chosen(r)] + SumsOf(F, r)[p]
      BY <2>1, <2>3 DEF Sums
    <3>3. Sums(SumsOf(F, p), F, p)
      BY <1>3, <3>1
    <3>4. IsFiniteSet(r)
      BY <1>2, FS_Subset
    <3>5. SumsOf(F, r)[p] = SumsOf(F, p)[p]
      BY <2>1, <3>1, <3>3, <3>4, SumsAgree
    <3> QED BY <2>3, <3>2, <3>5
  <2> QED BY <2>2, <2>3
<1>5. Sums(g, F, m)
  <2>1. \A r \in SUBSET m :
          g[r] = IF r = {} THEN 0 ELSE F[Chosen(r)] + g[r \ {Chosen(r)}]
    <3> SUFFICES ASSUME NEW r \in SUBSET m, r # {}
                 PROVE  g[r] = F[Chosen(r)] + g[r \ {Chosen(r)}]
      OBVIOUS
    <3>1. r \ {Chosen(r)} \in SUBSET m /\ r \ {Chosen(r)} # m
      BY ChosenIn
    <3> QED BY <1>4, <3>1
  <2> HIDE DEF g
  <2>2. g = [r \in SUBSET m |-> g[r]]
    BY DEF g
  <2> QED BY <2>1, <2>2 DEF Sums
<1> QED BY <1>2, <1>5

\* The sum is the value at the set of the function that CHOOSE picks.
LEMMA SumIs ==
  ASSUME NEW F, NEW S
  PROVE  SumFunctionOnSet(F, S) = SumsOf(F, S)[S]
  BY DEF SumFunctionOnSet, FoldFunctionOnSet, MapThenFoldSet, SumsOf, Sums, Chosen

\* Nothing sums to 0.
LEMMA SumEmpty ==
  ASSUME NEW F PROVE SumFunctionOnSet(F, {}) = 0
<1>1. Sums(SumsOf(F, {}), F, {})
  BY SumsExist, FS_EmptySet DEF SumsOf
<1> QED BY <1>1, SumIs DEF Sums

\* One unfolding of the recursion.
LEMMA SumChosen ==
  ASSUME NEW F, NEW S, IsFiniteSet(S), S # {}
  PROVE  SumFunctionOnSet(F, S) = F[Chosen(S)] + SumFunctionOnSet(F, S \ {Chosen(S)})
<1> DEFINE p == S \ {Chosen(S)}
<1>1. Sums(SumsOf(F, S), F, S)
  BY SumsExist DEF SumsOf
<1>2. IsFiniteSet(p)
  BY FS_Subset
<1>3. Sums(SumsOf(F, p), F, p)
  BY <1>2, SumsExist DEF SumsOf
<1>4. SumsOf(F, S)[S] = F[Chosen(S)] + SumsOf(F, S)[p]
  BY <1>1 DEF Sums
<1>5. SumsOf(F, S)[p] = SumsOf(F, p)[p]
  BY <1>1, <1>3, SumsAgree
<1> QED BY <1>4, <1>5, SumIs

-----------------------------------------------------------------------------
(* Values. *)

\* A sum of integers is one.
LEMMA SumInt ==
  ASSUME NEW F, NEW S, IsFiniteSet(S), \A x \in S : F[x] \in Int
  PROVE  SumFunctionOnSet(F, S) \in Int
<1> DEFINE Good == {T \in SUBSET S : SumFunctionOnSet(F, T) \in Int}
<1>1. {} \in Good
  <2>1. SumFunctionOnSet(F, {}) = 0
    BY SumEmpty
  <2> QED BY <2>1
<1>2. ASSUME NEW T \in SUBSET S, T # {}, \A x \in T : T \ {x} \in Good
      PROVE  T \in Good
  <2>1. Chosen(T) \in T
    BY <1>2, ChosenIn
  <2>2. SumFunctionOnSet(F, T) = F[Chosen(T)] + SumFunctionOnSet(F, T \ {Chosen(T)})
    BY <1>2, FS_Subset, SumChosen
  <2> QED BY <1>2, <2>1, <2>2
<1>3. S \in Good
  <2> HIDE DEF Good
  <2> QED BY <1>1, <1>2, SetInduction
<1> QED BY <1>3

\* Only the values on the set matter.
LEMMA SumCongruence ==
  ASSUME NEW F, NEW G, NEW S, IsFiniteSet(S), \A x \in S : F[x] = G[x]
  PROVE  SumFunctionOnSet(F, S) = SumFunctionOnSet(G, S)
<1> DEFINE Good == {T \in SUBSET S : SumFunctionOnSet(F, T) = SumFunctionOnSet(G, T)}
<1>1. {} \in Good
  BY SumEmpty
<1>2. ASSUME NEW T \in SUBSET S, T # {}, \A x \in T : T \ {x} \in Good
      PROVE  T \in Good
  <2>1. Chosen(T) \in T
    BY <1>2, ChosenIn
  <2>2. /\ SumFunctionOnSet(F, T) = F[Chosen(T)] + SumFunctionOnSet(F, T \ {Chosen(T)})
        /\ SumFunctionOnSet(G, T) = G[Chosen(T)] + SumFunctionOnSet(G, T \ {Chosen(T)})
    BY <1>2, FS_Subset, SumChosen
  <2> QED BY <1>2, <2>1, <2>2
<1>3. S \in Good
  <2> HIDE DEF Good
  <2> QED BY <1>1, <1>2, SetInduction
<1> QED BY <1>3

\* The order does not matter: any element may be taken out first.
LEMMA SumRemove ==
  ASSUME NEW F, NEW S, IsFiniteSet(S), \A x \in S : F[x] \in Int, NEW a \in S
  PROVE  SumFunctionOnSet(F, S) = F[a] + SumFunctionOnSet(F, S \ {a})
<1> DEFINE Good == {T \in SUBSET S : \A x \in T :
             SumFunctionOnSet(F, T) = F[x] + SumFunctionOnSet(F, T \ {x})}
<1>1. {} \in Good
  OBVIOUS
<1>2. ASSUME NEW T \in SUBSET S, T # {}, \A y \in T : T \ {y} \in Good
      PROVE  T \in Good
  <2> SUFFICES ASSUME NEW x \in T
               PROVE  SumFunctionOnSet(F, T) = F[x] + SumFunctionOnSet(F, T \ {x})
    OBVIOUS
  <2>1. PICK c \in T : SumFunctionOnSet(F, T) = F[c] + SumFunctionOnSet(F, T \ {c})
    BY <1>2, ChosenIn, FS_Subset, SumChosen
  <2>2. CASE x = c
    BY <2>1, <2>2
  <2>3. CASE x # c
    <3> DEFINE u == T \ {x, c}
    <3>1. T \ {c} \in Good /\ x \in T \ {c} /\ (T \ {c}) \ {x} = u
      BY <1>2, <2>3
    <3>2. T \ {x} \in Good /\ c \in T \ {x} /\ (T \ {x}) \ {c} = u
      BY <1>2, <2>3
    <3>3. SumFunctionOnSet(F, T \ {c}) = F[x] + SumFunctionOnSet(F, u)
      BY <3>1
    <3>4. SumFunctionOnSet(F, T \ {x}) = F[c] + SumFunctionOnSet(F, u)
      BY <3>2
    <3>5. SumFunctionOnSet(F, u) \in Int
      <4>1. IsFiniteSet(u)
        BY FS_Subset
      <4> QED BY <4>1, SumInt
    <3>6. F[x] \in Int /\ F[c] \in Int
      OBVIOUS
    <3> HIDE DEF u
    <3> QED BY <2>1, <3>3, <3>4, <3>5, <3>6
  <2> QED BY <2>2, <2>3
<1>3. S \in Good
  <2> HIDE DEF Good
  <2> QED BY <1>1, <1>2, SetInduction
<1> QED BY <1>3

\* One element more.
LEMMA SumAdd ==
  ASSUME NEW F, NEW S, IsFiniteSet(S), NEW a, a \notin S,
         \A x \in S \cup {a} : F[x] \in Int
  PROVE  SumFunctionOnSet(F, S \cup {a}) = F[a] + SumFunctionOnSet(F, S)
<1>1. IsFiniteSet(S \cup {a}) /\ (S \cup {a}) \ {a} = S /\ a \in S \cup {a}
  BY FS_AddElement
<1> QED BY <1>1, SumRemove

\* A sum of natural numbers is one, and is 0 when all of them are.
LEMMA SumNat ==
  ASSUME NEW F, NEW S, IsFiniteSet(S), \A x \in S : F[x] \in Nat
  PROVE  SumFunctionOnSet(F, S) \in Nat
<1> DEFINE Good == {T \in SUBSET S : SumFunctionOnSet(F, T) \in Nat}
<1>1. {} \in Good
  <2>1. SumFunctionOnSet(F, {}) = 0
    BY SumEmpty
  <2> QED BY <2>1
<1>2. ASSUME NEW T \in SUBSET S, T # {}, \A x \in T : T \ {x} \in Good
      PROVE  T \in Good
  <2>1. Chosen(T) \in T
    BY <1>2, ChosenIn
  <2>2. SumFunctionOnSet(F, T) = F[Chosen(T)] + SumFunctionOnSet(F, T \ {Chosen(T)})
    BY <1>2, FS_Subset, SumChosen
  <2> QED BY <1>2, <2>1, <2>2
<1>3. S \in Good
  <2> HIDE DEF Good
  <2> QED BY <1>1, <1>2, SetInduction
<1> QED BY <1>3

\* Zeros sum to 0.
LEMMA SumZero ==
  ASSUME NEW F, NEW S, IsFiniteSet(S), \A x \in S : F[x] = 0
  PROVE  SumFunctionOnSet(F, S) = 0
<1> DEFINE Good == {T \in SUBSET S : SumFunctionOnSet(F, T) = 0}
<1>1. {} \in Good
  BY SumEmpty
<1>2. ASSUME NEW T \in SUBSET S, T # {}, \A x \in T : T \ {x} \in Good
      PROVE  T \in Good
  <2>1. Chosen(T) \in T
    BY <1>2, ChosenIn
  <2>2. SumFunctionOnSet(F, T) = F[Chosen(T)] + SumFunctionOnSet(F, T \ {Chosen(T)})
    BY <1>2, FS_Subset, SumChosen
  <2> QED BY <1>2, <2>1, <2>2
<1>3. S \in Good
  <2> HIDE DEF Good
  <2> QED BY <1>1, <1>2, SetInduction
<1> QED BY <1>3

\* A sum over two sets that share nothing, and over a part of a set.
LEMMA SumUnion ==
  ASSUME NEW F, NEW S, IsFiniteSet(S), NEW U, IsFiniteSet(U), S \cap U = {},
         \A x \in S \cup U : F[x] \in Int
  PROVE  SumFunctionOnSet(F, S \cup U) = SumFunctionOnSet(F, S) + SumFunctionOnSet(F, U)
<1> DEFINE Good == {T \in SUBSET S : SumFunctionOnSet(F, T \cup U)
                                      = SumFunctionOnSet(F, T) + SumFunctionOnSet(F, U)}
<1>1. {} \in Good
  <2>1. SumFunctionOnSet(F, U) \in Int
    BY SumInt
  <2>2. {} \cup U = U /\ SumFunctionOnSet(F, {}) = 0
    BY SumEmpty
  <2> QED BY <2>1, <2>2
<1>2. ASSUME NEW T \in SUBSET S, T # {}, \A x \in T : T \ {x} \in Good
      PROVE  T \in Good
  <2>1. PICK x \in T : TRUE
    BY <1>2
  <2> DEFINE r == T \ {x}
  <2>2. IsFiniteSet(T) /\ IsFiniteSet(r) /\ IsFiniteSet(r \cup U)
    BY FS_Subset, FS_Union
  <2>3. SumFunctionOnSet(F, T) = F[x] + SumFunctionOnSet(F, r)
    BY <2>2, SumRemove
  <2>4. SumFunctionOnSet(F, T \cup U) = F[x] + SumFunctionOnSet(F, r \cup U)
    <3>1. T \cup U = (r \cup U) \cup {x} /\ x \notin r \cup U
      OBVIOUS
    <3>2. \A y \in (r \cup U) \cup {x} : F[y] \in Int
      OBVIOUS
    <3> HIDE DEF r
    <3> QED BY <2>2, <3>1, <3>2, SumAdd
  <2>5. SumFunctionOnSet(F, r \cup U) = SumFunctionOnSet(F, r) + SumFunctionOnSet(F, U)
    BY <1>2
  <2>6. /\ SumFunctionOnSet(F, r) \in Int /\ SumFunctionOnSet(F, U) \in Int
        /\ F[x] \in Int
    BY <2>2, SumInt
  <2> HIDE DEF r
  <2>7. SumFunctionOnSet(F, T \cup U) = SumFunctionOnSet(F, T) + SumFunctionOnSet(F, U)
    BY <2>3, <2>4, <2>5, <2>6
  <2> QED BY <2>7
<1>3. S \in Good
  <2> HIDE DEF Good
  <2> QED BY <1>1, <1>2, SetInduction
<1> QED BY <1>3

\* A part of some natural numbers has a smaller sum.
LEMMA SumMonotone ==
  ASSUME NEW F, NEW S, IsFiniteSet(S), \A x \in S : F[x] \in Nat, NEW T \in SUBSET S
  PROVE  SumFunctionOnSet(F, T) <= SumFunctionOnSet(F, S)
<1>1. IsFiniteSet(T) /\ IsFiniteSet(S \ T) /\ T \cup (S \ T) = S /\ T \cap (S \ T) = {}
  BY FS_Subset
<1>2. SumFunctionOnSet(F, S) = SumFunctionOnSet(F, T) + SumFunctionOnSet(F, S \ T)
  BY <1>1, SumUnion
<1>3. SumFunctionOnSet(F, T) \in Nat /\ SumFunctionOnSet(F, S \ T) \in Nat
  BY <1>1, SumNat
<1> QED BY <1>2, <1>3

\* Smaller numbers have a smaller sum.
LEMMA SumAtMost ==
  ASSUME NEW F, NEW G, NEW S, IsFiniteSet(S),
         \A x \in S : F[x] \in Int /\ G[x] \in Int /\ F[x] <= G[x]
  PROVE  SumFunctionOnSet(F, S) <= SumFunctionOnSet(G, S)
<1> DEFINE Good == {T \in SUBSET S : SumFunctionOnSet(F, T) <= SumFunctionOnSet(G, T)}
<1>1. {} \in Good
  <2>1. SumFunctionOnSet(F, {}) = 0 /\ SumFunctionOnSet(G, {}) = 0
    BY SumEmpty
  <2> QED BY <2>1
<1>2. ASSUME NEW T \in SUBSET S, T # {}, \A x \in T : T \ {x} \in Good
      PROVE  T \in Good
  <2>1. PICK x \in T : TRUE
    BY <1>2
  <2> DEFINE r == T \ {x}
  <2>2. IsFiniteSet(T) /\ IsFiniteSet(r)
    BY FS_Subset
  <2>3. /\ SumFunctionOnSet(F, T) = F[x] + SumFunctionOnSet(F, r)
        /\ SumFunctionOnSet(G, T) = G[x] + SumFunctionOnSet(G, r)
    BY <2>2, SumRemove
  <2>4. SumFunctionOnSet(F, r) \in Int /\ SumFunctionOnSet(G, r) \in Int
    BY <2>2, SumInt
  <2>5. SumFunctionOnSet(F, r) <= SumFunctionOnSet(G, r)
    BY <1>2
  <2>6. F[x] \in Int /\ G[x] \in Int /\ F[x] <= G[x]
    OBVIOUS
  <2> HIDE DEF r
  <2>7. SumFunctionOnSet(F, T) <= SumFunctionOnSet(G, T)
    BY <2>3, <2>4, <2>5, <2>6
  <2> QED BY <2>7
<1>3. S \in Good
  <2> HIDE DEF Good
  <2> QED BY <1>1, <1>2, SetInduction
<1> QED BY <1>3

\* No number is above the sum.
LEMMA SumHasEach ==
  ASSUME NEW F, NEW S, IsFiniteSet(S), \A x \in S : F[x] \in Nat, NEW a \in S
  PROVE  F[a] <= SumFunctionOnSet(F, S)
<1>1. SumFunctionOnSet(F, S) = F[a] + SumFunctionOnSet(F, S \ {a})
  BY SumRemove
<1>2. SumFunctionOnSet(F, S \ {a}) \in Nat
  <2>1. IsFiniteSet(S \ {a})
    BY FS_Subset
  <2> QED BY <2>1, SumNat
<1>3. F[a] \in Nat
  OBVIOUS
<1> QED BY <1>1, <1>2, <1>3

\* One value more or less.
LEMMA SumExcept ==
  ASSUME NEW F, NEW G, NEW S, IsFiniteSet(S), NEW a \in S,
         \A x \in S : F[x] \in Int, G[a] \in Int, \A x \in S \ {a} : G[x] = F[x]
  PROVE  SumFunctionOnSet(G, S) = SumFunctionOnSet(F, S) + G[a] - F[a]
<1>1. SumFunctionOnSet(G, S \ {a}) = SumFunctionOnSet(F, S \ {a})
  BY FS_Subset, SumCongruence
<1>2. /\ SumFunctionOnSet(F, S) = F[a] + SumFunctionOnSet(F, S \ {a})
      /\ SumFunctionOnSet(G, S) = G[a] + SumFunctionOnSet(G, S \ {a})
  BY SumRemove
<1>3. SumFunctionOnSet(F, S \ {a}) \in Int
  BY FS_Subset, SumInt
<1> QED BY <1>1, <1>2, <1>3

-----------------------------------------------------------------------------
(* Sums of sums. *)

\* A sum over elements sorted by a key is the sum, over the keys, of their sums.
LEMMA SumByKey ==
  ASSUME NEW F, NEW S, IsFiniteSet(S), \A x \in S : F[x] \in Int,
         NEW Key, NEW D, IsFiniteSet(D)
  PROVE  SumFunctionOnSet(F, {x \in S : Key[x] \in D})
           = SumFunctionOnSet([d \in D |-> SumFunctionOnSet(F, {x \in S : Key[x] = d})], D)
<1> DEFINE With(d) == {x \in S : Key[x] = d}
           In(T) == {x \in S : Key[x] \in T}
           G == [d \in D |-> SumFunctionOnSet(F, With(d))]
           Good == {T \in SUBSET D : SumFunctionOnSet(F, In(T)) = SumFunctionOnSet(G, T)}
<1>0. \A d \in D : IsFiniteSet(With(d)) /\ G[d] = SumFunctionOnSet(F, With(d)) /\ G[d] \in Int
  <2> SUFFICES ASSUME NEW d \in D PROVE IsFiniteSet(With(d)) /\ SumFunctionOnSet(F, With(d)) \in Int
    OBVIOUS
  <2>1. IsFiniteSet(With(d)) /\ With(d) \in SUBSET S
    BY FS_Subset
  <2> HIDE DEF With
  <2> QED BY <2>1, SumInt
<1>1. {} \in Good
  <2>1. In({}) = {}
    OBVIOUS
  <2> HIDE DEF In, G
  <2>2. SumFunctionOnSet(F, In({})) = SumFunctionOnSet(G, {})
    BY <2>1, SumEmpty
  <2> QED BY <2>2
<1>2. ASSUME NEW T \in SUBSET D, T # {}, \A d \in T : T \ {d} \in Good
      PROVE  T \in Good
  <2>1. PICK d \in T : TRUE
    BY <1>2
  <2> DEFINE r == T \ {d}
  <2>2. In(T) = In(r) \cup With(d) /\ In(r) \cap With(d) = {}
    OBVIOUS
  <2>3. In(r) \in SUBSET S /\ With(d) \in SUBSET S
    OBVIOUS
  <2>4. SumFunctionOnSet(F, In(r)) = SumFunctionOnSet(G, r)
    BY <1>2, <2>1
  <2>5. IsFiniteSet(T)
    BY FS_Subset
  <2> HIDE DEF In, With, Good
  <2>6. SumFunctionOnSet(F, In(T)) = SumFunctionOnSet(F, In(r)) + SumFunctionOnSet(F, With(d))
    <3>1. IsFiniteSet(In(r)) /\ IsFiniteSet(With(d))
      BY <2>3, FS_Subset
    <3>2. \A x \in In(r) \cup With(d) : F[x] \in Int
      BY <2>3
    <3>3. SumFunctionOnSet(F, In(r) \cup With(d))
            = SumFunctionOnSet(F, In(r)) + SumFunctionOnSet(F, With(d))
      BY <2>2, <3>1, <3>2, SumUnion
    <3> QED BY <2>2, <3>3
  <2>7. SumFunctionOnSet(G, T) = G[d] + SumFunctionOnSet(G, r)
    <3>1. \A e \in T : G[e] \in Int
      BY <1>0
    <3> HIDE DEF G
    <3> QED BY <2>1, <2>5, <3>1, SumRemove
  <2>8. SumFunctionOnSet(F, In(r)) \in Int
    <3>1. IsFiniteSet(In(r)) /\ \A x \in In(r) : F[x] \in Int
      BY <2>3, FS_Subset
    <3> QED BY <3>1, SumInt
  <2>9. G[d] = SumFunctionOnSet(F, With(d)) /\ G[d] \in Int
    BY <1>0
  <2> HIDE DEF G, r
  <2>10. SumFunctionOnSet(F, In(T)) = SumFunctionOnSet(G, T)
    BY <2>4, <2>6, <2>7, <2>8, <2>9
  <2> QED BY <2>10 DEF Good
<1>3. D \in Good
  <2> HIDE DEF Good
  <2> QED BY <1>1, <1>2, SetInduction
<1> QED BY <1>3

\* A finite set has as many elements as the sum of a one for each.
LEMMA CardinalitySum ==
  ASSUME NEW F, NEW S, IsFiniteSet(S), \A x \in S : F[x] = 1
  PROVE  Cardinality(S) = SumFunctionOnSet(F, S)
<1> DEFINE Good == {T \in SUBSET S : Cardinality(T) = SumFunctionOnSet(F, T)}
<1>1. {} \in Good
  <2>1. Cardinality({}) = 0 /\ SumFunctionOnSet(F, {}) = 0
    BY SumEmpty, FS_EmptySet
  <2> QED BY <2>1
<1>2. ASSUME NEW T \in SUBSET S, T # {}, \A x \in T : T \ {x} \in Good
      PROVE  T \in Good
  <2>1. PICK x \in T : TRUE
    BY <1>2
  <2>2. IsFiniteSet(T) /\ \A y \in T : F[y] \in Int
    BY FS_Subset
  <2>3. Cardinality(T \ {x}) = Cardinality(T) - 1 /\ Cardinality(T) \in Nat
    BY <2>2, FS_RemoveElement, FS_CardinalityType
  <2>4. SumFunctionOnSet(F, T) = 1 + SumFunctionOnSet(F, T \ {x})
    BY <2>2, SumRemove
  <2> QED BY <1>2, <2>3, <2>4
<1>3. S \in Good
  <2> HIDE DEF Good
  <2> QED BY <1>1, <1>2, SetInduction
<1> QED BY <1>3

\* A finite set, sorted by a key, has as many elements as its parts together.
LEMMA CardinalityByKey ==
  ASSUME NEW S, IsFiniteSet(S), NEW Key, NEW D, IsFiniteSet(D)
  PROVE  Cardinality({x \in S : Key[x] \in D})
           = SumFunctionOnSet([d \in D |-> Cardinality({x \in S : Key[x] = d})], D)
<1> DEFINE F == [x \in S |-> 1]
           With(d) == {x \in S : Key[x] = d}
           In == {x \in S : Key[x] \in D}
           G == [d \in D |-> SumFunctionOnSet(F, With(d))]
           H == [d \in D |-> Cardinality(With(d))]
<1>1. \A x \in S : F[x] = 1 /\ F[x] \in Int
  OBVIOUS
<1>2. ASSUME NEW T \in SUBSET S PROVE Cardinality(T) = SumFunctionOnSet(F, T)
  <2> HIDE DEF F
  <2> QED BY <1>1, FS_Subset, CardinalitySum
<1>3. Cardinality(In) = SumFunctionOnSet(F, In)
  BY <1>2
<1>4. \A d \in D : G[d] = H[d]
  <2> SUFFICES ASSUME NEW d \in D PROVE SumFunctionOnSet(F, With(d)) = Cardinality(With(d))
    OBVIOUS
  <2>1. With(d) \in SUBSET S
    OBVIOUS
  <2> HIDE DEF F, With
  <2> QED BY <1>2, <2>1
<1>5. SumFunctionOnSet(F, In) = SumFunctionOnSet(G, D)
  <2> HIDE DEF F
  <2> QED BY <1>1, SumByKey
<1>6. SumFunctionOnSet(G, D) = SumFunctionOnSet(H, D)
  <2> HIDE DEF G, H
  <2> QED BY <1>4, SumCongruence
<1> QED BY <1>3, <1>5, <1>6

=============================================================================
