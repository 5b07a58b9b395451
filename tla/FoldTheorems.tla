---------------------------- MODULE FoldTheorems ----------------------------
(***************************************************************************)
(* SumFunctionOnSet and FoldLeft, as the community modules define them,    *)
(* over finite sets and sequences: the definitions are well-founded; a sum *)
(* is a number, and an element adds what the function says of it, in       *)
(* whatever order it is taken; a fold has a value before each place of the *)
(* sequence and one after it. The induction goes over sets: of those that  *)
(* are no counterexample's superset, the smallest.                         *)
(***************************************************************************)
EXTENDS Integers, FiniteSets, FiniteSetsExt, SequencesExt, FiniteSetTheorems,
        WellFoundedInduction, TLAPS

(* Sums over sets. *)

LEMMA FiniteImage ==
  ASSUME NEW S, IsFiniteSet(S), NEW f
  PROVE  IsFiniteSet({f[x] : x \in S})
<1> DEFINE T == {f[x] : x \in S}
           g == [x \in S |-> f[x]]
<1>1. g \in Surjection(S, T)
  BY DEF Surjection
<1> HIDE DEF g, T
<1>2. IsFiniteSet(T)
  BY <1>1, FS_Surjection
<1> QED
  BY <1>2 DEF T

\* A set of finite sets has one that holds no other.
LEMMA SmallestSet ==
  ASSUME NEW B, B # {}, \A S \in B : IsFiniteSet(S)
  PROVE  \E S \in B : \A T \in B : T \subseteq S => T = S
<1> DEFINE U == UNION B
<1>1. B \subseteq FiniteSubsetsOf(U)
  BY DEF FiniteSubsetsOf
<1>2. IsWellFoundedOn(StrictSubsetOrdering(U), FiniteSubsetsOf(U))
  BY FS_StrictSubsetOrderingWellFounded
<1>3. PICK S \in B : \A T \in B : ~(<<T, S>> \in StrictSubsetOrdering(U))
  <2> HIDE DEF U
  <2> QED
    BY <1>1, <1>2, WFMin
<1>4. ASSUME NEW T \in B, T \subseteq S PROVE T = S
  <2>1. T \in SUBSET U /\ S \in SUBSET U
    OBVIOUS
  <2> HIDE DEF U
  <2> QED
    BY <1>3, <1>4, <2>1 DEF StrictSubsetOrdering
<1> QED
  BY <1>4

Pick(S) == CHOOSE x \in S : TRUE

LEMMA PickIsIn == ASSUME NEW S, S # {} PROVE Pick(S) \in S
  BY DEF Pick

\* g sums up f over the subsets of S as SumFunctionOnSet does.
Sums(g, f, S) ==
    g = [s \in SUBSET S |-> IF s = {} THEN 0 ELSE f[Pick(s)] + g[s \ {Pick(s)}]]

LEMMA SumIsOfSums ==
  ASSUME NEW f, NEW S
  PROVE  SumFunctionOnSet(f, S) = (CHOOSE g : Sums(g, f, S))[S]
  BY Zenon DEF SumFunctionOnSet, FoldFunctionOnSet, MapThenFoldSet, Sums, Pick
\* Two ways of summing up agree where both are defined.
LEMMA SumsAgree ==
  ASSUME NEW f, NEW S, NEW T, IsFiniteSet(S), NEW g, Sums(g, f, S), NEW h, Sums(h, f, T)
  PROVE  \A s \in SUBSET S : s \subseteq T => g[s] = h[s]
<1> DEFINE B == {s \in SUBSET S : s \subseteq T /\ g[s] # h[s]}
<1>1. SUFFICES ASSUME B # {} PROVE FALSE
  OBVIOUS
<1>2. \A s \in B : IsFiniteSet(s)
  BY FS_Subset
<1>3. PICK s \in B : \A t \in B : t \subseteq s => t = s
  <2> HIDE DEF B
  <2> QED
    BY <1>1, <1>2, SmallestSet
<1>4. s # {}
  BY <1>3 DEF Sums
<1>5. Pick(s) \in s
  BY <1>4, PickIsIn
<1>6. s \ {Pick(s)} \notin B
  BY <1>3, <1>5
<1>7. g[s \ {Pick(s)}] = h[s \ {Pick(s)}]
  BY <1>6
<1>8. /\ s \in SUBSET S /\ s \in SUBSET T
      /\ g[s] = f[Pick(s)] + g[s \ {Pick(s)}]
      /\ h[s] = f[Pick(s)] + h[s \ {Pick(s)}]
  BY <1>4 DEF Sums
<1> QED
  BY <1>7, <1>8

\* The sum is well defined.
LEMMA SumsExist ==
  ASSUME NEW f, NEW S, IsFiniteSet(S)
  PROVE  \E g : Sums(g, f, S)
<1> DEFINE B == {s \in SUBSET S : ~\E g : Sums(g, f, s)}
<1>1. SUFFICES ASSUME B # {} PROVE FALSE
  OBVIOUS
<1>2. \A s \in B : IsFiniteSet(s)
  BY FS_Subset
<1>3. PICK s \in B : \A t \in B : t \subseteq s => t = s
  <2> HIDE DEF B
  <2> QED
    BY <1>1, <1>2, SmallestSet
<1>4. \A t \in SUBSET s : t # s => \E g : Sums(g, f, t)
  BY <1>3
<1> DEFINE G(t) == CHOOSE g : Sums(g, f, t)
           h == [t \in SUBSET s |-> IF t = {} THEN 0
                    ELSE f[Pick(t)] + G(t \ {Pick(t)})[t \ {Pick(t)}]]
<1>5. \A t \in SUBSET s : t # s => Sums(G(t), f, t)
  BY <1>4
<1> HIDE DEF G
<1>6. ASSUME NEW t \in SUBSET s, t # s PROVE h[t] = G(t)[t]
  <2>1. CASE t = {}
    BY <1>5, <1>6, <2>1 DEF Sums
  <2>2. CASE t # {}
    <3> DEFINE u == t \ {Pick(t)}
    <3>1. Pick(t) \in t /\ u \in SUBSET s /\ u # s /\ u \in SUBSET t
      BY <1>6, <2>2, PickIsIn
    <3>2. Sums(G(t), f, t) /\ Sums(G(u), f, u)
      BY <1>5, <1>6, <3>1
    <3>3. IsFiniteSet(u)
      BY <3>1, FS_Subset
    <3>4. G(u)[u] = G(t)[u]
      <4> HIDE DEF u
      <4> QED
        BY <3>1, <3>2, <3>3, SumsAgree
    <3>5. G(t)[t] = f[Pick(t)] + G(t)[u]
      BY <2>2, <3>2 DEF Sums
    <3>6. h[t] = f[Pick(t)] + G(u)[u]
      BY <2>2
    <3> QED
      BY <3>4, <3>5, <3>6
  <2> QED
    BY <2>1, <2>2
<1>7. Sums(h, f, s)
  <2>1. ASSUME NEW t \in SUBSET s
        PROVE  h[t] = IF t = {} THEN 0 ELSE f[Pick(t)] + h[t \ {Pick(t)}]
    <3>1. CASE t # {}
      <4> DEFINE u == t \ {Pick(t)}
      <4>1. Pick(t) \in t /\ u \in SUBSET s /\ u # s
        BY <3>1, PickIsIn
      <4>2. h[u] = G(u)[u]
        BY <1>6, <4>1
      <4>3. h[t] = f[Pick(t)] + G(u)[u]
        BY <3>1
      <4> QED
        BY <3>1, <4>2, <4>3
    <3> QED
      BY <3>1
  <2>2. h = [t \in SUBSET s |-> h[t]]
    OBVIOUS
  <2> HIDE DEF h
  <2> QED
    BY <2>1, <2>2 DEF Sums
<1> QED
  BY <1>3, <1>7

LEMMA SumsSum ==
  ASSUME NEW f, NEW S, IsFiniteSet(S)
  PROVE  \E g : Sums(g, f, S) /\ \A s \in SUBSET S : g[s] = SumFunctionOnSet(f, s)
<1>1. \A s \in SUBSET S : IsFiniteSet(s)
  BY FS_Subset
<1> DEFINE G(t) == CHOOSE g : Sums(g, f, t)
<1>2. \A s \in SUBSET S : Sums(G(s), f, s) /\ SumFunctionOnSet(f, s) = G(s)[s]
  BY <1>1, SumsExist, SumIsOfSums
<1> HIDE DEF G
<1>3. ASSUME NEW s \in SUBSET S PROVE G(S)[s] = G(s)[s]
  <2>1. /\ IsFiniteSet(s) /\ s \in SUBSET s /\ s \subseteq S
        /\ Sums(G(s), f, s) /\ Sums(G(S), f, S)
    BY <1>1, <1>2
  <2> QED
    BY <2>1, SumsAgree
<1> QED
  BY <1>2, <1>3

LEMMA SumEmpty == ASSUME NEW f PROVE SumFunctionOnSet(f, {}) = 0
  BY SumsSum, FS_EmptySet DEF Sums

LEMMA SumPick ==
  ASSUME NEW f, NEW S, IsFiniteSet(S), S # {}
  PROVE  SumFunctionOnSet(f, S) = f[Pick(S)] + SumFunctionOnSet(f, S \ {Pick(S)})
<1>1. PICK g : Sums(g, f, S) /\ \A s \in SUBSET S : g[s] = SumFunctionOnSet(f, s)
  BY SumsSum
<1>2. g[S] = f[Pick(S)] + g[S \ {Pick(S)}]
  BY <1>1 DEF Sums
<1> QED
  BY <1>1, <1>2

LEMMA SumInt ==
  ASSUME NEW S, IsFiniteSet(S), NEW f, \A x \in S : f[x] \in Int
  PROVE  SumFunctionOnSet(f, S) \in Int
<1> DEFINE B == {s \in SUBSET S : SumFunctionOnSet(f, s) \notin Int}
<1>1. SUFFICES ASSUME B # {} PROVE FALSE
  OBVIOUS
<1>2. \A s \in B : IsFiniteSet(s)
  BY FS_Subset
<1>3. PICK s \in B : \A t \in B : t \subseteq s => t = s
  <2> HIDE DEF B
  <2> QED
    BY <1>1, <1>2, SmallestSet
<1>4. s # {}
  <2>1. SumFunctionOnSet(f, {}) \in Int
    BY SumEmpty
  <2>2. SumFunctionOnSet(f, s) \notin Int
    BY <1>3
  <2> QED
    BY <2>1, <2>2, Zenon
<1>5. Pick(s) \in s
  BY <1>4, PickIsIn
<1>6. SumFunctionOnSet(f, s \ {Pick(s)}) \in Int
  BY <1>3, <1>5
<1>7. SumFunctionOnSet(f, s) = f[Pick(s)] + SumFunctionOnSet(f, s \ {Pick(s)})
  BY <1>2, <1>4, SumPick
<1> QED
  BY <1>3, <1>5, <1>6, <1>7

LEMMA SumNat ==
  ASSUME NEW S, IsFiniteSet(S), NEW f, \A x \in S : f[x] \in Nat
  PROVE  SumFunctionOnSet(f, S) \in Nat
<1> DEFINE B == {s \in SUBSET S : SumFunctionOnSet(f, s) \notin Nat}
<1>1. SUFFICES ASSUME B # {} PROVE FALSE
  OBVIOUS
<1>2. \A s \in B : IsFiniteSet(s)
  BY FS_Subset
<1>3. PICK s \in B : \A t \in B : t \subseteq s => t = s
  <2> HIDE DEF B
  <2> QED
    BY <1>1, <1>2, SmallestSet
<1>4. s # {}
  <2>1. SumFunctionOnSet(f, {}) \in Nat
    BY SumEmpty
  <2>2. SumFunctionOnSet(f, s) \notin Nat
    BY <1>3
  <2> QED
    BY <2>1, <2>2, Zenon
<1>5. Pick(s) \in s
  BY <1>4, PickIsIn
<1>6. SumFunctionOnSet(f, s \ {Pick(s)}) \in Nat
  BY <1>3, <1>5
<1>7. SumFunctionOnSet(f, s) = f[Pick(s)] + SumFunctionOnSet(f, s \ {Pick(s)})
  BY <1>2, <1>4, SumPick
<1> QED
  BY <1>3, <1>5, <1>6, <1>7

\* The order of the summands does not matter.
LEMMA SumRemove ==
  ASSUME NEW S, IsFiniteSet(S), NEW f, \A x \in S : f[x] \in Int
  PROVE  \A x \in S : SumFunctionOnSet(f, S) = f[x] + SumFunctionOnSet(f, S \ {x})
<1> DEFINE Sum(s) == SumFunctionOnSet(f, s)
           B == {s \in SUBSET S : \E x \in s : Sum(s) # f[x] + Sum(s \ {x})}
<1>1. SUFFICES ASSUME B # {} PROVE FALSE
  OBVIOUS
<1>2. \A s \in SUBSET S : IsFiniteSet(s) /\ Sum(s) \in Int
  BY FS_Subset, SumInt
<1>3. PICK s \in B : \A t \in B : t \subseteq s => t = s
  <2>1. \A s \in B : IsFiniteSet(s)
    BY <1>2
  <2> HIDE DEF B
  <2> QED
    BY <1>1, <2>1, SmallestSet
<1>4. PICK x \in s : Sum(s) # f[x] + Sum(s \ {x})
  BY <1>3
<1> DEFINE p == Pick(s)
<1>5. s \in SUBSET S /\ s # {} /\ p \in s
  BY <1>4, PickIsIn
<1>6. Sum(s) = f[p] + Sum(s \ {p})
  BY <1>2, <1>5, SumPick
<1> HIDE DEF p
<1>7. p # x
  BY <1>4, <1>6
<1>8. Sum(s \ {p}) = f[x] + Sum((s \ {p}) \ {x})
  <2>1. s \ {p} \notin B /\ s \ {p} \in SUBSET S /\ x \in s \ {p}
    BY <1>3, <1>5, <1>7
  <2> QED
    BY <2>1
<1>9. Sum(s \ {x}) = f[p] + Sum((s \ {x}) \ {p})
  <2>1. s \ {x} \notin B /\ s \ {x} \in SUBSET S /\ p \in s \ {x}
    BY <1>3, <1>5, <1>7
  <2> QED
    BY <2>1
<1>10. (s \ {x}) \ {p} = (s \ {p}) \ {x}
  OBVIOUS
<1>11. f[p] \in Int /\ f[x] \in Int /\ Sum((s \ {p}) \ {x}) \in Int
  <2>1. (s \ {p}) \ {x} \in SUBSET S
    BY <1>5
  <2> QED
    BY <1>2, <1>5, <2>1
<1>12. Sum(s \ {x}) = f[p] + Sum((s \ {p}) \ {x})
  BY <1>9, <1>10, Zenon
<1> HIDE DEF Sum, B
<1> QED
  BY <1>4, <1>6, <1>8, <1>11, <1>12

LEMMA SumAdd ==
  ASSUME NEW S, IsFiniteSet(S), NEW x, x \notin S, NEW f, \A y \in S \cup {x} : f[y] \in Int
  PROVE  SumFunctionOnSet(f, S \cup {x}) = f[x] + SumFunctionOnSet(f, S)
<1>1. IsFiniteSet(S \cup {x}) /\ (S \cup {x}) \ {x} = S
  BY FS_AddElement
<1> QED
  BY <1>1, SumRemove

\* Functions that agree have one sum.
LEMMA SumSame ==
  ASSUME NEW S, IsFiniteSet(S), NEW f, NEW g, \A x \in S : f[x] = g[x]
  PROVE  SumFunctionOnSet(f, S) = SumFunctionOnSet(g, S)
<1> DEFINE B == {s \in SUBSET S : SumFunctionOnSet(f, s) # SumFunctionOnSet(g, s)}
<1>1. SUFFICES ASSUME B # {} PROVE FALSE
  OBVIOUS
<1>2. \A s \in B : IsFiniteSet(s)
  BY FS_Subset
<1>3. PICK s \in B : \A t \in B : t \subseteq s => t = s
  <2> HIDE DEF B
  <2> QED
    BY <1>1, <1>2, SmallestSet
<1>4. s # {}
  <2>1. SumFunctionOnSet(f, {}) = 0 /\ SumFunctionOnSet(g, {}) = 0
    BY SumEmpty
  <2> QED
    BY <1>3, <2>1
<1>5. Pick(s) \in s /\ s \in SUBSET S
  BY <1>3, <1>4, PickIsIn
<1>6. SumFunctionOnSet(f, s \ {Pick(s)}) = SumFunctionOnSet(g, s \ {Pick(s)})
  BY <1>3, <1>5
<1>7. /\ SumFunctionOnSet(f, s) = f[Pick(s)] + SumFunctionOnSet(f, s \ {Pick(s)})
      /\ SumFunctionOnSet(g, s) = g[Pick(s)] + SumFunctionOnSet(g, s \ {Pick(s)})
  BY <1>2, <1>4, SumPick
<1> QED
  BY <1>3, <1>5, <1>6, <1>7

-----------------------------------------------------------------------------
(* Sums that grow, change and shrink. *)

LEMMA SumOne ==
    ASSUME NEW f, NEW x, f[x] \in Int
    PROVE  SumFunctionOnSet(f, {x}) = f[x]
<1>1. SumFunctionOnSet(f, {}) = 0
  BY SumEmpty
<1>2. SumFunctionOnSet(f, {} \cup {x}) = f[x] + SumFunctionOnSet(f, {})
  <2>1. IsFiniteSet({}) /\ x \notin {} /\ \A y \in {} \cup {x} : f[y] \in Int
    BY FS_EmptySet
  <2> QED BY <2>1, SumAdd
<1>3. {} \cup {x} = {x}
  OBVIOUS
<1> QED
  BY <1>1, <1>2, <1>3

LEMMA SumGrown ==
    ASSUME NEW S, IsFiniteSet(S), NEW x, x \notin S, NEW f, NEW g,
           \A y \in S : f[y] \in Int /\ g[y] = f[y], g[x] \in Int
    PROVE  SumFunctionOnSet(g, S \cup {x}) = SumFunctionOnSet(f, S) + g[x]
<1>1. \A y \in S \cup {x} : g[y] \in Int
  OBVIOUS
<1>2. SumFunctionOnSet(g, S \cup {x}) = g[x] + SumFunctionOnSet(g, S)
  BY <1>1, SumAdd
<1>3. SumFunctionOnSet(g, S) = SumFunctionOnSet(f, S)
  BY SumSame
<1>4. SumFunctionOnSet(f, S) \in Int
  BY SumInt
<1> QED
  BY <1>2, <1>3, <1>4

LEMMA SumSwapped ==
    ASSUME NEW S, IsFiniteSet(S), NEW x \in S, NEW f, NEW g,
           \A y \in S : f[y] \in Int, \A y \in S \ {x} : g[y] = f[y], g[x] \in Int
    PROVE  SumFunctionOnSet(g, S) = SumFunctionOnSet(f, S) - f[x] + g[x]
<1>1. IsFiniteSet(S \ {x}) /\ \A y \in S : g[y] \in Int
  BY FS_RemoveElement
<1>2. SumFunctionOnSet(g, S) = g[x] + SumFunctionOnSet(g, S \ {x})
  BY <1>1, SumRemove
<1>3. SumFunctionOnSet(f, S) = f[x] + SumFunctionOnSet(f, S \ {x})
  BY SumRemove
<1>4. SumFunctionOnSet(g, S \ {x}) = SumFunctionOnSet(f, S \ {x})
  BY <1>1, SumSame
<1>5. SumFunctionOnSet(f, S \ {x}) \in Int
  BY <1>1, SumInt
<1> DEFINE a == SumFunctionOnSet(f, S \ {x})
<1> HIDE DEF a
<1>6. SumFunctionOnSet(g, S) = g[x] + a /\ SumFunctionOnSet(f, S) = f[x] + a /\ a \in Int
      /\ f[x] \in Int /\ g[x] \in Int
  BY <1>2, <1>3, <1>4, <1>5 DEF a
<1> QED
  BY <1>6

\* The sum without some of its elements.
LEMMA SumCut ==
    ASSUME NEW S, IsFiniteSet(S), NEW T, T \subseteq S, NEW f, \A y \in S : f[y] \in Int
    PROVE  SumFunctionOnSet(f, S \ T) = SumFunctionOnSet(f, S) - SumFunctionOnSet(f, T)
<1> DEFINE Sum(s) == SumFunctionOnSet(f, s)
           B == {t \in SUBSET S : Sum(S \ t) # Sum(S) - Sum(t)}
<1>1. SUFFICES ASSUME B # {} PROVE FALSE
  OBVIOUS
<1>2. \A s \in SUBSET S : IsFiniteSet(s) /\ Sum(s) \in Int
  BY FS_Subset, SumInt
<1>3. PICK t \in B : \A u \in B : u \subseteq t => u = t
  <2>1. \A s \in B : IsFiniteSet(s)
    BY <1>2
  <2> HIDE DEF B
  <2> QED
    BY <1>1, <2>1, SmallestSet
<1>4. t \in SUBSET S /\ Sum(S \ t) # Sum(S) - Sum(t)
  BY <1>3
<1>5. t # {}
  <2>1. Sum({}) = 0 /\ S \ {} = S /\ Sum(S) \in Int
    BY <1>2, SumEmpty
  <2> HIDE DEF Sum
  <2> QED BY <1>4, <2>1
<1>6. PICK x \in t : TRUE
  BY <1>5
<1> DEFINE u == t \ {x}
           rest == S \ t
<1>7. u \in SUBSET S /\ rest \in SUBSET S /\ S \ u = rest \cup {x} /\ t = u \cup {x} /\ x \notin rest /\ x \notin u
  BY <1>4
<1>8. u \notin B
  BY <1>3, <1>7
<1>9. Sum(S \ u) = Sum(S) - Sum(u)
  BY <1>7, <1>8
<1> HIDE DEF u, rest, B
<1>10. \A y \in rest \cup {x} : f[y] \in Int
  BY <1>4, <1>7
<1>11. \A y \in u \cup {x} : f[y] \in Int
  BY <1>4, <1>7
<1>12. IsFiniteSet(rest) /\ IsFiniteSet(u)
  BY <1>2, <1>7
<1>13. Sum(rest \cup {x}) = f[x] + Sum(rest)
  BY <1>7, <1>10, <1>12, SumAdd
<1>14. Sum(u \cup {x}) = f[x] + Sum(u)
  BY <1>7, <1>11, <1>12, SumAdd
<1>15. Sum(S) \in Int /\ Sum(u) \in Int /\ Sum(rest) \in Int /\ f[x] \in Int
  BY <1>2, <1>4, <1>7
<1> HIDE DEF Sum
<1>16. f[x] + Sum(rest) = Sum(S) - Sum(u)
  BY <1>7, <1>9, <1>13
<1>17. Sum(rest) = Sum(S) - (f[x] + Sum(u))
  BY <1>15, <1>16
<1> QED
  BY <1>4, <1>7, <1>14, <1>17 DEF rest

\* What each element's own set sums up to: the sets share nothing.
LEMMA SumOfSets ==
    ASSUME NEW A, IsFiniteSet(A), NEW M, NEW f, NEW g,
           \A a \in A : IsFiniteSet(M[a]) /\ g[a] = SumFunctionOnSet(f, M[a]),
           \A a \in A : \A x \in M[a] : f[x] \in Int,
           \A a, b \in A : a # b => M[a] \cap M[b] = {}
    PROVE  /\ IsFiniteSet(UNION {M[a] : a \in A})
           /\ SumFunctionOnSet(g, A) = SumFunctionOnSet(f, UNION {M[a] : a \in A})
<1> DEFINE All(s) == UNION {M[a] : a \in s}
           B == {s \in SUBSET A : ~(/\ IsFiniteSet(All(s))
                                    /\ SumFunctionOnSet(g, s) = SumFunctionOnSet(f, All(s)))}
<1>1. SUFFICES ASSUME B # {} PROVE FALSE
  OBVIOUS
<1>2. \A s \in SUBSET A : IsFiniteSet(s)
  BY FS_Subset
<1>3. PICK s \in B : \A u \in B : u \subseteq s => u = s
  <2>1. \A s \in B : IsFiniteSet(s)
    BY <1>2
  <2> HIDE DEF B
  <2> QED
    BY <1>1, <2>1, SmallestSet
<1>4. s \in SUBSET A /\ ~(IsFiniteSet(All(s)) /\ SumFunctionOnSet(g, s) = SumFunctionOnSet(f, All(s)))
  BY <1>3
<1>5. s # {}
  <2>1. All({}) = {}
    OBVIOUS
  <2> HIDE DEF All
  <2>2. IsFiniteSet({}) /\ SumFunctionOnSet(g, {}) = 0 /\ SumFunctionOnSet(f, {}) = 0
    BY FS_EmptySet, SumEmpty
  <2> QED BY <1>4, <2>1, <2>2
<1>6. PICK x \in s : TRUE
  BY <1>5
<1> DEFINE u == s \ {x}
<1>7. u \in SUBSET A /\ s = u \cup {x} /\ x \notin u /\ x \in A /\ u # s
  BY <1>4
<1>8. IsFiniteSet(All(u)) /\ SumFunctionOnSet(g, u) = SumFunctionOnSet(f, All(u))
  BY <1>3, <1>7
<1>9. All(s) = All(u) \cup M[x] /\ All(u) \cap M[x] = {}
  BY <1>4, <1>7
<1> HIDE DEF u, B
<1>10. IsFiniteSet(All(s))
  <2>1. IsFiniteSet(M[x])
    BY <1>7
  <2> HIDE DEF All
  <2>2. IsFiniteSet(All(u) \cup M[x])
    BY <1>8, <2>1, FS_Union
  <2> QED BY <1>9, <2>2
<1>11. All(s) \ M[x] = All(u) /\ M[x] \subseteq All(s)
  BY <1>9
<1>12. \A y \in All(s) : f[y] \in Int
  BY <1>4
<1> HIDE DEF All
<1>13. SumFunctionOnSet(f, All(u)) = SumFunctionOnSet(f, All(s)) - SumFunctionOnSet(f, M[x])
  BY <1>10, <1>11, <1>12, SumCut
<1>14. SumFunctionOnSet(f, All(s)) \in Int /\ SumFunctionOnSet(f, M[x]) \in Int /\ SumFunctionOnSet(f, All(u)) \in Int
  <2>1. \A y \in All(u) : f[y] \in Int
    BY <1>9, <1>12
  <2> QED BY <1>7, <1>8, <1>10, <1>12, <2>1, SumInt
<1>15. SumFunctionOnSet(g, u \cup {x}) = g[x] + SumFunctionOnSet(g, u)
  <2>1. \A a \in u \cup {x} : g[a] \in Int
    <3>1. ASSUME NEW a \in A PROVE g[a] \in Int
      <4>1. IsFiniteSet(M[a]) /\ \A y \in M[a] : f[y] \in Int
        OBVIOUS
      <4>2. SumFunctionOnSet(f, M[a]) \in Int
        BY <4>1, SumInt
      <4> QED BY <4>2
    <3> QED BY <1>7, <3>1
  <2> QED BY <1>2, <1>7, <2>1, SumAdd
<1>16. g[x] = SumFunctionOnSet(f, M[x])
  BY <1>7
<1>17. SumFunctionOnSet(g, s) = SumFunctionOnSet(f, All(s))
  BY <1>7, <1>8, <1>13, <1>14, <1>15, <1>16
<1> QED
  BY <1>4, <1>10, <1>17

LEMMA SumOfBoth ==
    ASSUME NEW S, IsFiniteSet(S), NEW f, NEW g, NEW h,
           \A x \in S : f[x] \in Int /\ g[x] \in Int /\ h[x] = f[x] + g[x]
    PROVE  SumFunctionOnSet(h, S) = SumFunctionOnSet(f, S) + SumFunctionOnSet(g, S)
<1> DEFINE B == {s \in SUBSET S : SumFunctionOnSet(h, s) # SumFunctionOnSet(f, s) + SumFunctionOnSet(g, s)}
<1>1. SUFFICES ASSUME B # {} PROVE FALSE
  OBVIOUS
<1>2. \A s \in SUBSET S : IsFiniteSet(s)
  BY FS_Subset
<1>3. PICK s \in B : \A u \in B : u \subseteq s => u = s
  <2>1. \A s \in B : IsFiniteSet(s)
    BY <1>2
  <2> HIDE DEF B
  <2> QED
    BY <1>1, <2>1, SmallestSet
<1>4. s \in SUBSET S /\ SumFunctionOnSet(h, s) # SumFunctionOnSet(f, s) + SumFunctionOnSet(g, s)
  BY <1>3
<1>5. s # {}
  <2>1. SumFunctionOnSet(h, {}) = 0 /\ SumFunctionOnSet(f, {}) = 0 /\ SumFunctionOnSet(g, {}) = 0
    BY SumEmpty
  <2>2. SumFunctionOnSet(h, {}) = SumFunctionOnSet(f, {}) + SumFunctionOnSet(g, {})
    BY <2>1
  <2> QED BY <1>4, <2>2
<1>6. PICK x \in s : TRUE
  BY <1>5
<1> DEFINE u == s \ {x}
<1>7. u \in SUBSET S /\ IsFiniteSet(u) /\ s = u \cup {x} /\ x \notin u /\ x \in S /\ u # s
  BY <1>2, <1>4
<1>8. SumFunctionOnSet(h, u) = SumFunctionOnSet(f, u) + SumFunctionOnSet(g, u)
  BY <1>3, <1>7
<1> HIDE DEF u, B
<1>9. (\A y \in u \cup {x} : f[y] \in Int /\ g[y] \in Int /\ h[y] \in Int) /\ h[x] = f[x] + g[x]
  BY <1>7
<1>10. /\ SumFunctionOnSet(f, s) = f[x] + SumFunctionOnSet(f, u)
       /\ SumFunctionOnSet(g, s) = g[x] + SumFunctionOnSet(g, u)
       /\ SumFunctionOnSet(h, s) = h[x] + SumFunctionOnSet(h, u)
  BY <1>7, <1>9, SumAdd
<1>11. SumFunctionOnSet(f, u) \in Int /\ SumFunctionOnSet(g, u) \in Int /\ f[x] \in Int /\ g[x] \in Int
  BY <1>7, <1>9, SumInt
<1> QED
  BY <1>4, <1>8, <1>9, <1>10, <1>11

-----------------------------------------------------------------------------
(* Folds over sequences. *)

\* Counting up from 0 reaches every number up to n.
LEMMA CountUp ==
  ASSUME NEW n \in Nat, NEW T, 0 \in T, \A k \in 0 .. n-1 : k \in T => k + 1 \in T
  PROVE  \A k \in 0 .. n : k \in T
<1> DEFINE B == {0 .. k : k \in {j \in 0 .. n : j \notin T}}
<1>1. SUFFICES ASSUME NEW k \in 0 .. n, k \notin T PROVE FALSE
  OBVIOUS
<1>2. \A s \in B : IsFiniteSet(s)
  BY FS_Interval
<1>3. 0 .. k \in B
  BY <1>1
<1>4. PICK s \in B : \A t \in B : t \subseteq s => t = s
  <2> HIDE DEF B
  <2> QED
    BY <1>2, <1>3, SmallestSet
<1>5. PICK j \in 0 .. n : j \notin T /\ s = 0 .. j
  OBVIOUS
<1>6. j # 0 /\ j - 1 \in 0 .. n-1 /\ (j - 1) + 1 = j
  BY <1>5
<1>7. j - 1 \notin T
  BY <1>5, <1>6
<1>8. 0 .. j-1 \in B
  BY <1>6, <1>7
<1>9. 0 .. j-1 \subseteq 0 .. j /\ 0 .. j-1 # 0 .. j
  BY <1>6
<1> QED
  BY <1>4, <1>5, <1>8, <1>9

LEMMA PlacesAreFinite ==
  ASSUME NEW n \in Nat
  PROVE  \A s \in SUBSET (1 .. n) : IsFiniteSet(s)
<1>1. IsFiniteSet(1 .. n)
  BY FS_Interval
<1> QED
  BY <1>1, FS_Subset

LEMMA MaxOfFirst ==
  ASSUME NEW n \in Nat, n # 0
  PROVE  Max(1 .. n) = n
<1>1. n \in 1 .. n /\ \A y \in 1 .. n : n >= y
  OBVIOUS
<1>2. \A x \in 1 .. n : (\A y \in 1 .. n : x >= y) => x = n
  OBVIOUS
<1> QED
  BY <1>1, <1>2 DEF Max

\* The places before the next one.
LEMMA FirstPlaces ==
  ASSUME NEW n \in Nat, NEW k \in 0 .. n-1
  PROVE  1 .. k+1 \in SUBSET (1 .. n) /\ 1 .. k+1 # {} /\ (1 .. k+1) \ {k + 1} = 1 .. k
<1>1. 1 .. k+1 \subseteq 1 .. n
  OBVIOUS
<1>2. k + 1 \in 1 .. k+1
  OBVIOUS
<1>3. (1 .. k+1) \ {k + 1} = 1 .. k
  OBVIOUS
<1> QED
  BY <1>1, <1>2, <1>3

LEMMA MaxIsIn ==
  ASSUME NEW n \in Nat, NEW s \in SUBSET (1 .. n), s # {}
  PROVE  Max(s) \in s
<1> DEFINE T == {k \in 0 .. n : s \cap (1 .. k) # {} => \E x \in s : \A y \in s \cap (1 .. k) : x >= y}
<1>1. 0 \in T
  OBVIOUS
<1>2. ASSUME NEW k \in 0 .. n-1, k \in T PROVE k + 1 \in T
  <2>1. CASE k + 1 \in s
    <3>1. \A y \in s \cap (1 .. k+1) : k + 1 >= y
      OBVIOUS
    <3> QED BY <2>1, <3>1
  <2>2. CASE k + 1 \notin s
    <3>1. s \cap (1 .. k+1) = s \cap (1 .. k)
      BY <2>2
    <3> QED BY <1>2, <3>1
  <2> QED BY <2>1, <2>2
<1>3. n \in T
  <2> HIDE DEF T
  <2> QED BY <1>1, <1>2, CountUp
<1>4. s \cap (1 .. n) = s
  OBVIOUS
<1>5. \E x \in s : \A y \in s : x >= y
  BY <1>3, <1>4
<1> QED
  BY <1>5 DEF Max

\* g folds step over the subsets of S, the greatest place last.
Iterates(g, step, base, S) ==
    g = [s \in SUBSET S |-> IF s = {} THEN base ELSE step[<<g[s \ {Max(s)}], Max(s)>>]]

\* Two ways of folding agree where both are defined.
LEMMA IteratesAgree ==
  ASSUME NEW step, NEW base, NEW n \in Nat, NEW S \in SUBSET (1 .. n), NEW T,
         NEW g, Iterates(g, step, base, S), NEW h, Iterates(h, step, base, T)
  PROVE  \A s \in SUBSET S : s \subseteq T => g[s] = h[s]
<1> DEFINE B == {s \in SUBSET S : s \subseteq T /\ g[s] # h[s]}
<1>1. SUFFICES ASSUME B # {} PROVE FALSE
  OBVIOUS
<1>2. \A s \in B : IsFiniteSet(s)
  BY PlacesAreFinite
<1>3. PICK s \in B : \A t \in B : t \subseteq s => t = s
  <2> HIDE DEF B
  <2> QED
    BY <1>1, <1>2, SmallestSet
<1>4. s # {}
  BY <1>3 DEF Iterates
<1>5. Max(s) \in s
  BY <1>4, MaxIsIn
<1>6. s \ {Max(s)} \notin B
  BY <1>3, <1>5
<1>7. g[s \ {Max(s)}] = h[s \ {Max(s)}]
  BY <1>6
<1>8. /\ s \in SUBSET S /\ s \in SUBSET T
      /\ g[s] = step[<<g[s \ {Max(s)}], Max(s)>>]
      /\ h[s] = step[<<h[s \ {Max(s)}], Max(s)>>]
  BY <1>4 DEF Iterates
<1> QED
  BY <1>7, <1>8

LEMMA IteratesExist ==
  ASSUME NEW step, NEW base, NEW n \in Nat, NEW S \in SUBSET (1 .. n)
  PROVE  \E g : Iterates(g, step, base, S)
<1> DEFINE B == {s \in SUBSET S : ~\E g : Iterates(g, step, base, s)}
<1>1. SUFFICES ASSUME B # {} PROVE FALSE
  OBVIOUS
<1>2. \A s \in B : IsFiniteSet(s)
  BY PlacesAreFinite
<1>3. PICK s \in B : \A t \in B : t \subseteq s => t = s
  <2> HIDE DEF B
  <2> QED
    BY <1>1, <1>2, SmallestSet
<1>4. \A t \in SUBSET s : t # s => \E g : Iterates(g, step, base, t)
  BY <1>3
<1> DEFINE G(t) == CHOOSE g : Iterates(g, step, base, t)
           h == [t \in SUBSET s |-> IF t = {} THEN base
                    ELSE step[<<G(t \ {Max(t)})[t \ {Max(t)}], Max(t)>>]]
<1>5. \A t \in SUBSET s : t # s => Iterates(G(t), step, base, t)
  BY <1>4
<1> HIDE DEF G
<1>6. ASSUME NEW t \in SUBSET s, t # s PROVE h[t] = G(t)[t]
  <2>1. CASE t = {}
    BY <1>5, <1>6, <2>1 DEF Iterates
  <2>2. CASE t # {}
    <3> DEFINE u == t \ {Max(t)}
    <3>0. t \in SUBSET (1 .. n)
      OBVIOUS
    <3>1. Max(t) \in t /\ u \in SUBSET s /\ u # s /\ u \in SUBSET t /\ u \in SUBSET (1 .. n)
      BY <1>6, <2>2, <3>0, MaxIsIn
    <3>2. Iterates(G(t), step, base, t) /\ Iterates(G(u), step, base, u)
      BY <1>5, <1>6, <3>1
    <3>4. G(u)[u] = G(t)[u]
      <4>1. u \in SUBSET u /\ u \subseteq t
        BY <3>1
      <4> HIDE DEF u, h, B
      <4> QED
        BY <3>1, <3>2, <4>1, IteratesAgree
    <3>5. G(t)[t] = step[<<G(t)[u], Max(t)>>]
      BY <2>2, <3>2 DEF Iterates
    <3>6. h[t] = step[<<G(u)[u], Max(t)>>]
      BY <2>2
    <3> QED
      BY <3>4, <3>5, <3>6
  <2> QED
    BY <2>1, <2>2
<1>7. Iterates(h, step, base, s)
  <2>1. ASSUME NEW t \in SUBSET s
        PROVE  h[t] = IF t = {} THEN base ELSE step[<<h[t \ {Max(t)}], Max(t)>>]
    <3>1. CASE t # {}
      <4> DEFINE u == t \ {Max(t)}
      <4>0. t \in SUBSET (1 .. n)
        OBVIOUS
      <4>1. Max(t) \in t /\ u \in SUBSET s /\ u # s
        BY <3>1, <4>0, MaxIsIn
      <4>2. h[u] = G(u)[u]
        BY <1>6, <4>1
      <4>3. h[t] = step[<<G(u)[u], Max(t)>>]
        BY <3>1
      <4> QED
        BY <3>1, <4>2, <4>3
    <3> QED
      BY <3>1
  <2> HIDE DEF h
  <2>2. h = [t \in SUBSET s |-> h[t]]
    BY DEF h
  <2> QED
    BY <2>1, <2>2 DEF Iterates
<1> QED
  BY <1>3, <1>7

\* Folding stays among the values a step stays among.
LEMMA IteratesType ==
  ASSUME NEW V, NEW base \in V, NEW n \in Nat, NEW step \in [V \X (1 .. n) -> V],
         NEW g, Iterates(g, step, base, 1 .. n)
  PROVE  \A s \in SUBSET (1 .. n) : g[s] \in V
<1> DEFINE B == {s \in SUBSET (1 .. n) : g[s] \notin V}
<1>1. SUFFICES ASSUME B # {} PROVE FALSE
  OBVIOUS
<1>2. \A s \in B : IsFiniteSet(s)
  BY PlacesAreFinite
<1>3. PICK s \in B : \A t \in B : t \subseteq s => t = s
  <2> HIDE DEF B
  <2> QED
    BY <1>1, <1>2, SmallestSet
<1>4. s # {}
  BY <1>3 DEF Iterates
<1>5. Max(s) \in s
  BY <1>4, MaxIsIn
<1>6. s \ {Max(s)} \notin B
  BY <1>3, <1>5
<1>7. g[s \ {Max(s)}] \in V /\ Max(s) \in 1 .. n
  BY <1>5, <1>6
<1>8. g[s] = step[<<g[s \ {Max(s)}], Max(s)>>]
  BY <1>4 DEF Iterates
<1>9. step[<<g[s \ {Max(s)}], Max(s)>>] \in V
  BY <1>7
<1> QED
  BY <1>3, <1>8, <1>9

\* A fold of typed steps exists.
LEMMA FoldExists ==
  ASSUME NEW V, NEW base \in V, NEW n \in Nat, NEW step \in [V \X (1 .. n) -> V]
  PROVE  \E g : Iterates(g, step, base, 1 .. n) /\ \A s \in SUBSET (1 .. n) : g[s] \in V
<1>1. PICK g : Iterates(g, step, base, 1 .. n)
  BY IteratesExist
<1>2. \A s \in SUBSET (1 .. n) : g[s] \in V
  BY <1>1, IteratesType
<1> QED
  BY <1>1, <1>2

=============================================================================
