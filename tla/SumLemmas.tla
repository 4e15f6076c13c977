----------------------------- MODULE SumLemmas -----------------------------
(***************************************************************************)
(* What SumFunctionOnSet, the finite sum of the community modules, is      *)
(* equal to: nothing for the empty set, and one summand more for every     *)
(* element that is added, in whatever order.  The sums of the models range *)
(* over keys, transfers, requests and callbacks; every conservation law is *)
(* proved from these lemmas.  Induction over the finite sets is the        *)
(* existence of a minimal counterexample.                                  *)
(***************************************************************************)
EXTENDS FiniteSetsExt, FiniteSetTheorems, TLAPS

\* Of the subsets of a finite set that are in U, one is minimal.
LEMMA MinimalSubset ==
    ASSUME NEW S, IsFiniteSet(S), NEW U, U \subseteq SUBSET S, U # {}
    PROVE  \E m \in U : \A u \in U : u \subseteq m => u = m
  <1>1. IsWellFoundedOn(StrictSubsetOrdering(S), SUBSET S)
    BY FS_StrictSubsetOrderingWellFounded, FS_FiniteSubsetsOfFinite
  <1>2. PICK m \in U : \A u \in U : ~(<<u, m>> \in StrictSubsetOrdering(S))
    BY <1>1, WFMin
  <1>3. ASSUME NEW u \in U, u \subseteq m, u # m PROVE FALSE
    BY <1>2, <1>3 DEF StrictSubsetOrdering
  <1> QED
    BY <1>3

Pick(s) == CHOOSE x \in s : TRUE

\* g is the function by which the sum of f over S is defined.
IsFold(f, S, g) ==
    g = [s \in SUBSET S |-> IF s = {} THEN 0 ELSE f[Pick(s)] + g[s \ {Pick(s)}]]

\* Two such functions agree where both are defined.
LEMMA FoldUnique ==
    ASSUME NEW f, NEW S, IsFiniteSet(S), NEW g, IsFold(f, S, g),
           NEW T, T \subseteq S, NEW h, IsFold(f, T, h)
    PROVE  \A s \in SUBSET T : g[s] = h[s]
  <1> DEFINE U == {s \in SUBSET T : g[s] # h[s]}
  <1> SUFFICES ASSUME U # {} PROVE FALSE
    OBVIOUS
  <1>1. PICK m \in U : \A u \in U : u \subseteq m => u = m
    <2>1. U \subseteq SUBSET S
      OBVIOUS
    <2> HIDE DEF U
    <2> QED
      BY <2>1, MinimalSubset
  <1>2. m # {}
    BY <1>1 DEF IsFold
  <1>3. Pick(m) \in m
    BY <1>2 DEF Pick
  <1>4. g[m \ {Pick(m)}] = h[m \ {Pick(m)}]
    BY <1>1, <1>3
  <1>5. g[m] = f[Pick(m)] + g[m \ {Pick(m)}]
    <2>1. m \in SUBSET S
      BY <1>1
    <2> QED
      BY <1>2, <2>1 DEF IsFold
  <1>6. h[m] = f[Pick(m)] + h[m \ {Pick(m)}]
    BY <1>1, <1>2 DEF IsFold
  <1> QED
    BY <1>1, <1>4, <1>5, <1>6

\* The recursion defines a function.
LEMMA FoldExists ==
    ASSUME NEW f, NEW S, IsFiniteSet(S)
    PROVE  \E g : IsFold(f, S, g)
  <1> DEFINE U == {s \in SUBSET S : ~ \E g : IsFold(f, s, g)}
  <1> SUFFICES ASSUME U # {} PROVE FALSE
    OBVIOUS
  <1>1. PICK m \in U : \A u \in U : u \subseteq m => u = m
    <2>1. U \subseteq SUBSET S
      OBVIOUS
    <2> HIDE DEF U
    <2> QED
      BY <2>1, MinimalSubset
  <1> DEFINE G(u) == CHOOSE h : IsFold(f, u, h)
             Rest(s) == s \ {Pick(s)}
             g == [s \in SUBSET m |-> IF s = {} THEN 0 ELSE f[Pick(s)] + G(Rest(s))[Rest(s)]]
  <1>2. ASSUME NEW u, u \subseteq m, u # m PROVE IsFold(f, u, G(u))
    <2>1. \E h : IsFold(f, u, h)
      BY <1>1, <1>2
    <2> QED
      BY <2>1
  <1>3. ASSUME NEW u, u \subseteq m, u # m PROVE G(u)[u] = g[u]
    <2> DEFINE h == G(u)
    <2>1. IsFold(f, u, h)
      BY <1>2, <1>3
    <2>2. CASE u = {}
      <3> HIDE DEF h
      <3>1. h[u] = 0
        BY <2>1, <2>2 DEF IsFold
      <3>2. g[u] = 0
        BY <2>2
      <3> QED
        BY <3>1, <3>2 DEF h
    <2>3. CASE u # {}
      <3>1. Pick(u) \in u
        BY <2>3 DEF Pick
      <3>2. IsFold(f, Rest(u), G(Rest(u)))
        <4>1. Rest(u) \subseteq m /\ Rest(u) # m
          BY <1>3, <3>1
        <4> HIDE DEF Rest, G
        <4> QED
          BY <4>1, <1>2
      <3>3. IsFiniteSet(u)
        BY <1>3, <1>1, FS_Subset
      <3>4. h[Rest(u)] = G(Rest(u))[Rest(u)]
        <4>1. Rest(u) \subseteq u
          OBVIOUS
        <4> HIDE DEF h, G, Rest
        <4> QED
          BY <2>1, <3>2, <3>3, <4>1, FoldUnique
      <3>5. h[u] = f[Pick(u)] + h[Rest(u)]
        <4> HIDE DEF h
        <4> QED
          BY <2>1, <2>3 DEF IsFold
      <3>6. g[u] = f[Pick(u)] + G(Rest(u))[Rest(u)]
        <4> HIDE DEF G, Rest
        <4> QED
          BY <1>3, <2>3
      <3> HIDE DEF h, g, G, Rest
      <3>7. h[u] = g[u]
        BY <3>4, <3>5, <3>6
      <3> QED
        BY <3>7 DEF h
    <2> QED
      BY <2>2, <2>3
  <1>4. IsFold(f, m, g)
    <2>1. ASSUME NEW s \in SUBSET m, s # {} PROVE G(Rest(s))[Rest(s)] = g[Rest(s)]
      <3>1. Pick(s) \in s
        BY <2>1 DEF Pick
      <3>2. Rest(s) \subseteq m /\ Rest(s) # m
        BY <3>1
      <3> HIDE DEF G, Rest, g
      <3> QED
        BY <3>2, <1>3
    <2>2. g = [s \in SUBSET m |-> IF s = {} THEN 0 ELSE f[Pick(s)] + g[Rest(s)]]
      <3>1. \A s \in SUBSET m : (IF s = {} THEN 0 ELSE f[Pick(s)] + G(Rest(s))[Rest(s)])
                                  = (IF s = {} THEN 0 ELSE f[Pick(s)] + g[Rest(s)])
        <4> HIDE DEF G, Rest, g
        <4> QED
          BY <2>1
      <3>2. g = [s \in SUBSET m |-> IF s = {} THEN 0 ELSE f[Pick(s)] + G(Rest(s))[Rest(s)]]
        OBVIOUS
      <3> HIDE DEF G, Rest, g
      <3> QED
        BY <3>1, <3>2, Zenon
    <2> HIDE DEF g, G
    <2> QED
      BY <2>2 DEF IsFold
  <1> QED
    BY <1>1, <1>4

\* The sum is the value of that function.
LEMMA SumIsFold ==
    ASSUME NEW f, NEW S, IsFiniteSet(S)
    PROVE  \E g : IsFold(f, S, g) /\ SumFunctionOnSet(f, S) = g[S]
  <1> DEFINE g == CHOOSE h : IsFold(f, S, h)
  <1>1. IsFold(f, S, g)
    BY FoldExists
  <1>2. SumFunctionOnSet(f, S) = g[S]
    BY Zenon DEF SumFunctionOnSet, FoldFunctionOnSet, MapThenFoldSet, IsFold, Pick
  <1> HIDE DEF g
  <1> QED
    BY <1>1, <1>2

\* The sum over the empty set.
LEMMA SumEmpty ==
    ASSUME NEW f
    PROVE  SumFunctionOnSet(f, {}) = 0
  <1>1. PICK g : IsFold(f, {}, g) /\ SumFunctionOnSet(f, {}) = g[{}]
    BY SumIsFold, FS_EmptySet
  <1> QED
    BY <1>1 DEF IsFold

\* The sum takes out the element that Pick gives.
LEMMA SumPick ==
    ASSUME NEW f, NEW S, IsFiniteSet(S), S # {}
    PROVE  SumFunctionOnSet(f, S) = f[Pick(S)] + SumFunctionOnSet(f, S \ {Pick(S)})
  <1> DEFINE R == S \ {Pick(S)}
  <1>1. PICK g : IsFold(f, S, g) /\ SumFunctionOnSet(f, S) = g[S]
    BY SumIsFold
  <1>2. PICK h : IsFold(f, R, h) /\ SumFunctionOnSet(f, R) = h[R]
    <2>1. IsFiniteSet(R)
      BY FS_Subset
    <2> HIDE DEF R
    <2> QED
      BY <2>1, SumIsFold
  <1>3. g[R] = h[R]
    <2>1. R \subseteq S
      OBVIOUS
    <2> HIDE DEF R
    <2> QED
      BY <1>1, <1>2, <2>1, FoldUnique
  <1>4. g[S] = f[Pick(S)] + g[R]
    BY <1>1 DEF IsFold
  <1> QED
    BY <1>1, <1>2, <1>3, <1>4

\* The sum of integers is an integer, the sum of naturals a natural number.
LEMMA SumType ==
    ASSUME NEW f, NEW S, IsFiniteSet(S), \A x \in S : f[x] \in Int
    PROVE  /\ SumFunctionOnSet(f, S) \in Int
           /\ (\A x \in S : f[x] >= 0) => SumFunctionOnSet(f, S) >= 0
  <1> DEFINE U == {s \in SUBSET S : ~ /\ SumFunctionOnSet(f, s) \in Int
                                      /\ (\A x \in S : f[x] >= 0) => SumFunctionOnSet(f, s) >= 0}
  <1> SUFFICES ASSUME U # {} PROVE FALSE
    OBVIOUS
  <1>1. PICK m \in U : \A u \in U : u \subseteq m => u = m
    <2>1. U \subseteq SUBSET S
      OBVIOUS
    <2> HIDE DEF U
    <2> QED
      BY <2>1, MinimalSubset
  <1>2. m # {}
    <2>1. {} \notin U
      <3>1. SumFunctionOnSet(f, {}) = 0
        BY SumEmpty
      <3> QED
        BY <3>1
    <2> QED
      BY <1>1, <2>1
  <1>3. Pick(m) \in m /\ IsFiniteSet(m)
    BY <1>1, <1>2, FS_Subset DEF Pick
  <1>4. m \ {Pick(m)} \notin U /\ m \ {Pick(m)} \in SUBSET S
    <2>1. m \ {Pick(m)} \subseteq m /\ m \ {Pick(m)} # m /\ m \in SUBSET S
      BY <1>3, <1>1
    <2> HIDE DEF U
    <2> QED
      BY <2>1, <1>1
  <1>5. SumFunctionOnSet(f, m) = f[Pick(m)] + SumFunctionOnSet(f, m \ {Pick(m)})
    BY <1>2, <1>3, SumPick
  <1>6. /\ SumFunctionOnSet(f, m \ {Pick(m)}) \in Int
        /\ (\A x \in S : f[x] >= 0) => SumFunctionOnSet(f, m \ {Pick(m)}) >= 0
    BY <1>4
  <1>7. f[Pick(m)] \in Int /\ Pick(m) \in S
    BY <1>1, <1>3
  <1> QED
    BY <1>1, <1>5, <1>6, <1>7

\* An element that is added adds its summand.
LEMMA SumAdd ==
    ASSUME NEW f, NEW S, IsFiniteSet(S), NEW x \in S, \A y \in S : f[y] \in Int
    PROVE  SumFunctionOnSet(f, S) = SumFunctionOnSet(f, S \ {x}) + f[x]
  <1> DEFINE Holds(s) == \A y \in s : SumFunctionOnSet(f, s) = SumFunctionOnSet(f, s \ {y}) + f[y]
             U == {s \in SUBSET S : ~Holds(s)}
  <1> SUFFICES ASSUME U # {} PROVE FALSE
    OBVIOUS
  <1>1. PICK m \in U : \A u \in U : u \subseteq m => u = m
    <2>1. U \subseteq SUBSET S
      OBVIOUS
    <2> HIDE DEF U
    <2> QED
      BY <2>1, MinimalSubset
  <1>2. PICK y \in m : SumFunctionOnSet(f, m) # SumFunctionOnSet(f, m \ {y}) + f[y]
    BY <1>1
  <1> DEFINE p == Pick(m)
  <1>3. p \in m /\ IsFiniteSet(m) /\ m \in SUBSET S
    BY <1>1, <1>2, FS_Subset DEF Pick
  <1>4. SumFunctionOnSet(f, m) = f[p] + SumFunctionOnSet(f, m \ {p})
    BY <1>2, <1>3, SumPick
  <1>5. \A s \in SUBSET m : s # m => Holds(s)
    <2> SUFFICES ASSUME NEW s \in SUBSET m, s # m, ~Holds(s) PROVE FALSE
      OBVIOUS
    <2>1. s \in U
      BY <1>3
    <2> HIDE DEF U, Holds
    <2> QED
      BY <2>1, <1>1
  <1>6. \A s \in SUBSET m : SumFunctionOnSet(f, s) \in Int
    <2> SUFFICES ASSUME NEW s \in SUBSET m PROVE SumFunctionOnSet(f, s) \in Int
      OBVIOUS
    <2>1. IsFiniteSet(s) /\ \A z \in s : f[z] \in Int
      BY <1>3, FS_Subset
    <2> QED
      BY <2>1, SumType
  <1>7. f[p] \in Int /\ f[y] \in Int
    BY <1>2, <1>3
  <1>8. CASE p = y
    BY <1>2, <1>4, <1>6, <1>7, <1>8
  <1>9. CASE p # y
    <2>1. SumFunctionOnSet(f, m \ {p}) = SumFunctionOnSet(f, (m \ {p}) \ {y}) + f[y]
      <3>1. Holds(m \ {p})
        BY <1>3, <1>5
      <3> QED
        BY <3>1, <1>2, <1>9
    <2>2. SumFunctionOnSet(f, m \ {y}) = SumFunctionOnSet(f, (m \ {y}) \ {p}) + f[p]
      <3>1. Holds(m \ {y})
        BY <1>2, <1>5
      <3> QED
        BY <3>1, <1>3, <1>9
    <2>3. PICK rest \in Int : /\ rest = SumFunctionOnSet(f, (m \ {p}) \ {y})
                               /\ rest = SumFunctionOnSet(f, (m \ {y}) \ {p})
      <3>1. (m \ {p}) \ {y} = (m \ {y}) \ {p}
        OBVIOUS
      <3> QED
        BY <3>1, <1>6
    <2> HIDE DEF U, Holds, p
    <2>4. /\ SumFunctionOnSet(f, m) = f[p] + (rest + f[y])
          /\ SumFunctionOnSet(f, m \ {y}) + f[y] = (rest + f[p]) + f[y]
      BY <2>1, <2>2, <2>3, <1>4
    <2> QED
      BY <2>3, <2>4, <1>2, <1>7
  <1> QED
    BY <1>8, <1>9

\* Only the summands count.
LEMMA SumEqual ==
    ASSUME NEW f, NEW g, NEW S, IsFiniteSet(S), \A x \in S : f[x] = g[x]
    PROVE  SumFunctionOnSet(f, S) = SumFunctionOnSet(g, S)
  <1> DEFINE U == {s \in SUBSET S : SumFunctionOnSet(f, s) # SumFunctionOnSet(g, s)}
  <1> SUFFICES ASSUME U # {} PROVE FALSE
    OBVIOUS
  <1>1. PICK m \in U : \A u \in U : u \subseteq m => u = m
    <2>1. U \subseteq SUBSET S
      OBVIOUS
    <2> HIDE DEF U
    <2> QED
      BY <2>1, MinimalSubset
  <1>2. m # {}
    BY <1>1, SumEmpty
  <1>3. Pick(m) \in m /\ IsFiniteSet(m)
    BY <1>1, <1>2, FS_Subset DEF Pick
  <1>4. SumFunctionOnSet(f, m \ {Pick(m)}) = SumFunctionOnSet(g, m \ {Pick(m)})
    BY <1>1, <1>3
  <1>5. /\ SumFunctionOnSet(f, m) = f[Pick(m)] + SumFunctionOnSet(f, m \ {Pick(m)})
        /\ SumFunctionOnSet(g, m) = g[Pick(m)] + SumFunctionOnSet(g, m \ {Pick(m)})
    BY <1>2, <1>3, SumPick
  <1>6. f[Pick(m)] = g[Pick(m)]
    BY <1>1, <1>3
  <1> QED
    BY <1>1, <1>4, <1>5, <1>6

\* The sum of a new element's set.
LEMMA SumInsert ==
    ASSUME NEW f, NEW S, IsFiniteSet(S), NEW x, x \notin S, \A y \in S \cup {x} : f[y] \in Int
    PROVE  SumFunctionOnSet(f, S \cup {x}) = SumFunctionOnSet(f, S) + f[x]
  <1>1. IsFiniteSet(S \cup {x}) /\ x \in S \cup {x} /\ (S \cup {x}) \ {x} = S
    BY FS_AddElement
  <1> QED
    BY <1>1, SumAdd

\* One summand of a sum changes.
LEMMA SumChange ==
    ASSUME NEW f, NEW g, NEW S, IsFiniteSet(S), NEW x \in S,
           \A y \in S : f[y] \in Int /\ g[y] \in Int,
           \A y \in S \ {x} : g[y] = f[y]
    PROVE  SumFunctionOnSet(g, S) = SumFunctionOnSet(f, S) - f[x] + g[x]
  <1>1. /\ SumFunctionOnSet(f, S) = SumFunctionOnSet(f, S \ {x}) + f[x]
        /\ SumFunctionOnSet(g, S) = SumFunctionOnSet(g, S \ {x}) + g[x]
    BY SumAdd
  <1>2. IsFiniteSet(S \ {x})
    BY FS_Subset
  <1>3. SumFunctionOnSet(f, S \ {x}) = SumFunctionOnSet(g, S \ {x})
    BY <1>2, SumEqual
  <1>4. SumFunctionOnSet(f, S \ {x}) \in Int
    BY <1>2, SumType
  <1> QED
    BY <1>1, <1>3, <1>4

\* A sum gains an element; the other summands stay.
LEMMA SumGrows ==
    ASSUME NEW f, NEW g, NEW S, IsFiniteSet(S), NEW x, x \notin S,
           \A y \in S : f[y] \in Int /\ g[y] = f[y], g[x] \in Int
    PROVE  SumFunctionOnSet(g, S \cup {x}) = SumFunctionOnSet(f, S) + g[x]
  <1>1. SumFunctionOnSet(g, S \cup {x}) = SumFunctionOnSet(g, S) + g[x]
    BY SumInsert
  <1>2. SumFunctionOnSet(g, S) = SumFunctionOnSet(f, S)
    BY SumEqual
  <1> QED
    BY <1>1, <1>2

\* A sum loses an element; the other summands stay.
LEMMA SumShrinks ==
    ASSUME NEW f, NEW g, NEW S, IsFiniteSet(S), NEW x \in S,
           \A y \in S : f[y] \in Int, \A y \in S \ {x} : g[y] = f[y]
    PROVE  SumFunctionOnSet(g, S \ {x}) = SumFunctionOnSet(f, S) - f[x]
  <1>1. SumFunctionOnSet(f, S) = SumFunctionOnSet(f, S \ {x}) + f[x]
    BY SumAdd
  <1>2. IsFiniteSet(S \ {x})
    BY FS_Subset
  <1>3. SumFunctionOnSet(g, S \ {x}) = SumFunctionOnSet(f, S \ {x})
    BY <1>2, SumEqual
  <1>4. SumFunctionOnSet(f, S \ {x}) \in Int
    BY <1>2, SumType
  <1> QED
    BY <1>1, <1>3, <1>4

\* Renaming the elements one to one keeps the set finite and the sum as it is.
LEMMA SumImage ==
    ASSUME NEW S, IsFiniteSet(S), NEW h, \A x, y \in S : h[x] = h[y] => x = y,
           NEW f, NEW g, \A x \in S : f[x] \in Int /\ g[h[x]] = f[x]
    PROVE  /\ IsFiniteSet({h[x] : x \in S})
           /\ SumFunctionOnSet(g, {h[x] : x \in S}) = SumFunctionOnSet(f, S)
  <1> DEFINE Image(s) == {h[x] : x \in s}
             Holds(s) == IsFiniteSet(Image(s)) /\ SumFunctionOnSet(g, Image(s)) = SumFunctionOnSet(f, s)
             U == {s \in SUBSET S : ~Holds(s)}
  <1> SUFFICES ASSUME U # {} PROVE FALSE
    OBVIOUS
  <1>1. PICK m \in U : \A u \in U : u \subseteq m => u = m
    <2>1. U \subseteq SUBSET S
      OBVIOUS
    <2> HIDE DEF U
    <2> QED
      BY <2>1, MinimalSubset
  <1>2. m \in SUBSET S /\ ~Holds(m)
    BY <1>1
  <1>3. ASSUME m = {} PROVE FALSE
    <2>1. Image(m) = {}
      BY <1>3
    <2>2. Holds(m)
      BY <2>1, <1>3, SumEmpty, FS_EmptySet
    <2> QED
      BY <2>2, <1>2
  <1>4. PICK x \in m : TRUE
    BY <1>3
  <1> DEFINE r == m \ {x}
  <1>5. Holds(r)
    <2>1. r \in SUBSET S /\ r \subseteq m /\ r # m
      BY <1>2, <1>4
    <2> HIDE DEF r, Holds
    <2> QED
      BY <2>1, <1>1
  <1>6. Image(m) = Image(r) \cup {h[x]} /\ h[x] \notin Image(r)
    BY <1>2, <1>4
  <1>7. IsFiniteSet(r) /\ x \notin r /\ m = r \cup {x} /\ \A y \in r \cup {x} : f[y] \in Int
    BY <1>2, <1>4, FS_Subset
  <1>8. \A z \in Image(r) \cup {h[x]} : g[z] \in Int
    BY <1>2, <1>4
  <1>9. g[h[x]] = f[x]
    BY <1>2, <1>4
  <1>10. IsFiniteSet(Image(r)) /\ SumFunctionOnSet(g, Image(r)) = SumFunctionOnSet(f, r)
    BY <1>5
  <1> HIDE DEF r, Image
  <1>11. SumFunctionOnSet(f, m) = SumFunctionOnSet(f, r) + f[x]
    BY <1>7, SumInsert
  <1>12. SumFunctionOnSet(g, Image(m)) = SumFunctionOnSet(g, Image(r)) + g[h[x]]
    BY <1>6, <1>8, <1>10, SumInsert
  <1>13. IsFiniteSet(Image(m))
    BY <1>6, <1>10, FS_AddElement
  <1>14. Holds(m)
    BY <1>9, <1>10, <1>11, <1>12, <1>13
  <1> QED
    BY <1>2, <1>14

\* The sum of zeros.
LEMMA SumZero ==
    ASSUME NEW f, NEW S, IsFiniteSet(S), \A x \in S : f[x] = 0
    PROVE  SumFunctionOnSet(f, S) = 0
  <1> DEFINE U == {s \in SUBSET S : SumFunctionOnSet(f, s) # 0}
  <1> SUFFICES ASSUME U # {} PROVE FALSE
    OBVIOUS
  <1>1. PICK m \in U : \A u \in U : u \subseteq m => u = m
    <2>1. U \subseteq SUBSET S
      OBVIOUS
    <2> HIDE DEF U
    <2> QED
      BY <2>1, MinimalSubset
  <1>2. m # {}
    BY <1>1, SumEmpty
  <1>3. Pick(m) \in m /\ IsFiniteSet(m)
    BY <1>1, <1>2, FS_Subset DEF Pick
  <1>4. SumFunctionOnSet(f, m \ {Pick(m)}) = 0
    BY <1>1, <1>3
  <1>5. SumFunctionOnSet(f, m) = f[Pick(m)] + SumFunctionOnSet(f, m \ {Pick(m)})
    BY <1>2, <1>3, SumPick
  <1>6. f[Pick(m)] = 0
    BY <1>1, <1>3
  <1> QED
    BY <1>1, <1>4, <1>5, <1>6

-----------------------------------------------------------------------------
(* Folds over a sequence *)

\* U is a set of sets of the indices of a sequence of length n, and not empty.
IndexSets(U, n) == U \subseteq SUBSET (1 .. n) /\ U # {}

HasMinimal(U) == \E m \in U : \A u \in U : u \subseteq m => u = m

\* One of them is minimal.
LEMMA MinimalIndices ==
    ASSUME NEW n \in Nat, NEW U, IndexSets(U, n)
    PROVE  HasMinimal(U)
  <1>1. PICK N : N = 1 .. n
    OBVIOUS
  <1>2. IsFiniteSet(N) /\ U \subseteq SUBSET N /\ U # {}
    BY <1>1, FS_Interval DEF IndexSets
  <1> QED
    BY <1>2, MinimalSubset DEF HasMinimal

\* FoldLeft takes the elements by the largest index first.
LEMMA MaxIn ==
    ASSUME NEW n \in Nat, NEW s \in SUBSET (1 .. n), s # {}
    PROVE  Max(s) \in s /\ \A i \in s : i <= Max(s)
  <1> DEFINE U == {i .. n : i \in s}
  <1>1. IsFiniteSet(1 .. n)
    BY FS_Interval
  <1>2. IndexSets(U, n)
    <2>1. ASSUME NEW i \in s PROVE i .. n \subseteq 1 .. n
      OBVIOUS
    <2>2. PICK i \in s : TRUE
      OBVIOUS
    <2> QED
      BY <2>1, <2>2, Zenon DEF IndexSets
  <1>3. PICK m \in U : \A u \in U : u \subseteq m => u = m
    <2> HIDE DEF U
    <2>1. HasMinimal(U)
      BY <1>2, MinimalIndices
    <2> QED
      BY <2>1 DEF HasMinimal
  <1>4. PICK i \in s : m = i .. n
    BY <1>3
  <1>5. ASSUME NEW k \in s, k > i PROVE FALSE
    <2>1. k .. n \in U /\ k .. n \subseteq i .. n /\ i \in i .. n /\ i \notin k .. n
      BY <1>5, SMT
    <2> HIDE DEF U
    <2> QED
      BY <1>3, <1>4, <2>1
  <1>6. \A k \in s : i >= k /\ k \in Int
    BY <1>5
  <1> QED
    BY <1>6, Zenon DEF Max

\* A sum that saturates at max, as FoldLeft computes it.
SaturatingFold(f, max) ==
    CHOOSE it : it = [s \in SUBSET (DOMAIN f) |->
                        IF s = {} THEN 0
                        ELSE IF it[s \ {Max(s)}] + f[Max(s)] > max THEN max
                             ELSE it[s \ {Max(s)}] + f[Max(s)]]

\* It is the exact sum, or max if that is less: saturating at every step is
\* saturating once.
LEMMA SaturatingFoldIsSum ==
    ASSUME NEW n \in Nat, NEW f \in [1 .. n -> Nat], NEW max \in Nat
    PROVE  /\ SumFunctionOnSet(f, 1 .. n) \in Nat
           /\ SaturatingFold(f, max)[1 .. n] =
                IF SumFunctionOnSet(f, 1 .. n) > max THEN max ELSE SumFunctionOnSet(f, 1 .. n)
  <1> DEFINE Exact(s) == SumFunctionOnSet(f, s)
             Cut(s) == IF Exact(s) > max THEN max ELSE Exact(s)
             Step(it) == [s \in SUBSET (1 .. n) |->
                            IF s = {} THEN 0
                            ELSE IF it[s \ {Max(s)}] + f[Max(s)] > max THEN max
                                 ELSE it[s \ {Max(s)}] + f[Max(s)]]
             g == [s \in SUBSET (1 .. n) |-> Cut(s)]
             it == SaturatingFold(f, max)
  <1>1. IsFiniteSet(1 .. n) /\ DOMAIN f = 1 .. n
    BY FS_Interval
  <1>2. ASSUME NEW s \in SUBSET (1 .. n) PROVE IsFiniteSet(s) /\ Exact(s) \in Nat
    <2>1. IsFiniteSet(s)
      BY <1>1, FS_Subset, Zenon
    <2>2. \A x \in s : f[x] \in Int /\ f[x] >= 0
      OBVIOUS
    <2>3. Exact(s) \in Int /\ Exact(s) >= 0
      BY <2>1, <2>2, SumType, Zenon
    <2> HIDE DEF Exact
    <2> QED
      BY <2>1, <2>3
  <1>3. Exact({}) = 0
    BY SumEmpty
  <1>4. ASSUME NEW s \in SUBSET (1 .. n), s # {}
        PROVE  /\ Max(s) \in s /\ f[Max(s)] \in Nat
               /\ s \ {Max(s)} \in SUBSET (1 .. n)
               /\ Exact(s) = Exact(s \ {Max(s)}) + f[Max(s)]
    <2>1. Max(s) \in s
      BY <1>4, MaxIn
    <2>2. \A x \in s : f[x] \in Int
      OBVIOUS
    <2>3. IsFiniteSet(s)
      BY <1>2
    <2>4. Exact(s) = Exact(s \ {Max(s)}) + f[Max(s)]
      BY <2>1, <2>2, <2>3, SumAdd
    <2> QED
      BY <2>1, <2>4
  <1>5. ASSUME NEW s \in SUBSET (1 .. n), s # {}
        PROVE  Cut(s) = IF Cut(s \ {Max(s)}) + f[Max(s)] > max THEN max
                        ELSE Cut(s \ {Max(s)}) + f[Max(s)]
    <2>1. PICK a \in Nat, b \in Nat : a = Exact(s \ {Max(s)}) /\ b = f[Max(s)] /\ Exact(s) = a + b
      BY <1>2, <1>4, <1>5
    <2> HIDE DEF Exact
    <2> QED
      BY <2>1
  <1>6. Cut({}) = 0
    BY <1>3
  <1> HIDE DEF Exact, Cut
  <1>7. g = Step(g)
    <2>1. \A s \in SUBSET (1 .. n) :
             Cut(s) = IF s = {} THEN 0
                      ELSE IF g[s \ {Max(s)}] + f[Max(s)] > max THEN max
                           ELSE g[s \ {Max(s)}] + f[Max(s)]
      <3> SUFFICES ASSUME NEW s \in SUBSET (1 .. n), s # {}
                   PROVE  Cut(s) = IF g[s \ {Max(s)}] + f[Max(s)] > max THEN max
                                   ELSE g[s \ {Max(s)}] + f[Max(s)]
        BY <1>6
      <3>1. g[s \ {Max(s)}] = Cut(s \ {Max(s)})
        OBVIOUS
      <3> HIDE DEF g
      <3> QED
        BY <3>1, <1>5
    <2> QED
      BY <2>1, Zenon
  <1>8. it = Step(it)
    <2>1. it = CHOOSE h : h = Step(h)
      BY <1>1, Zenon DEF SaturatingFold
    <2> HIDE DEF it, g, Step
    <2> QED
      BY <2>1, <1>7
  <1> HIDE DEF it, g
  <1>9. \A s \in SUBSET (1 .. n) : it[s] = Cut(s)
    <2> DEFINE U == {s \in SUBSET (1 .. n) : it[s] # Cut(s)}
    <2> SUFFICES ASSUME U # {} PROVE FALSE
      OBVIOUS
    <2>1. PICK m \in U : \A u \in U : u \subseteq m => u = m
      <3>1. IndexSets(U, n)
        BY DEF IndexSets
      <3> HIDE DEF U
      <3>2. HasMinimal(U)
        BY <3>1, MinimalIndices
      <3> QED
        BY <3>2 DEF HasMinimal
    <2>2. m # {}
      BY <2>1, <1>6, <1>8
    <2>3. it[m \ {Max(m)}] = Cut(m \ {Max(m)})
      <3>1. m \in SUBSET (1 .. n)
        BY <2>1
      <3>2. /\ Max(m) \in m
            /\ m \ {Max(m)} \in SUBSET (1 .. n)
        BY <3>1, <2>2, <1>4, Zenon
      <3>3. m \ {Max(m)} \notin U
        <4>1. m \ {Max(m)} \subseteq m /\ m \ {Max(m)} # m
          BY <3>2, Zenon
        <4> HIDE DEF U
        <4> QED
          BY <2>1, <4>1, Zenon
      <3> QED
        BY <3>2, <3>3, Zenon
    <2>4. it[m] = IF it[m \ {Max(m)}] + f[Max(m)] > max THEN max
                  ELSE it[m \ {Max(m)}] + f[Max(m)]
      BY <2>1, <2>2, <1>8
    <2>5. it[m] = Cut(m)
      BY <2>1, <2>2, <2>3, <2>4, <1>5
    <2> QED
      BY <2>1, <2>5
  <1>10. 1 .. n \in SUBSET (1 .. n)
    OBVIOUS
  <1> QED
    BY <1>2, <1>9, <1>10 DEF it, Cut, Exact

\* The same amount more on every summand.
LEMMA SumWithFee ==
    ASSUME NEW n \in Nat, NEW f \in [1 .. n -> Nat], NEW c \in Nat
    PROVE  SumFunctionOnSet([i \in 1 .. n |-> f[i] + c], 1 .. n) = SumFunctionOnSet(f, 1 .. n) + c * n
  <1> DEFINE g == [i \in 1 .. n |-> f[i] + c]
             Holds(s) == SumFunctionOnSet(g, s) = SumFunctionOnSet(f, s) + c * Cardinality(s)
             U == {s \in SUBSET (1 .. n) : ~Holds(s)}
  <1>1. IsFiniteSet(1 .. n) /\ Cardinality(1 .. n) = n
    BY FS_Interval
  <1>2. Holds({})
    BY SumEmpty, FS_EmptySet
  <1>3. ASSUME NEW s \in SUBSET (1 .. n), NEW i \in s, Holds(s \ {i}) PROVE Holds(s)
    <2> DEFINE r == s \ {i}
    <2>1. /\ IsFiniteSet(s) /\ IsFiniteSet(r)
          /\ \A j \in s : f[j] \in Int /\ f[j] >= 0 /\ g[j] \in Int /\ g[j] = f[j] + c
      <3>1. IsFiniteSet(s)
        BY <1>1, FS_Subset, Zenon
      <3>2. IsFiniteSet(r)
        BY <3>1, FS_RemoveElement, Zenon
      <3>3. \A j \in s : f[j] \in Int /\ f[j] >= 0 /\ g[j] \in Int /\ g[j] = f[j] + c
        OBVIOUS
      <3> QED
        BY <3>1, <3>2, <3>3, Zenon
    <2>2. SumFunctionOnSet(f, s) = SumFunctionOnSet(f, r) + f[i]
      BY <2>1, SumAdd
    <2>3. SumFunctionOnSet(g, s) = SumFunctionOnSet(g, r) + (f[i] + c)
      <3> HIDE DEF g
      <3> QED
        BY <2>1, SumAdd
    <2>4. SumFunctionOnSet(f, r) \in Int
      BY <2>1, SumType
    <2>5. Cardinality(r) = Cardinality(s) - 1 /\ Cardinality(s) \in Nat /\ Cardinality(r) \in Nat
      BY <2>1, FS_RemoveElement, FS_CardinalityType
    <2>6. c * Cardinality(s) = c * Cardinality(r) + c
      BY <2>5
    <2>7. c * Cardinality(r) \in Int /\ f[i] \in Int
      BY <2>1, <2>5
    <2>8. SumFunctionOnSet(g, r) = SumFunctionOnSet(f, r) + c * Cardinality(r)
      BY <1>3
    <2> HIDE DEF g, r
    <2> QED
      BY <2>2, <2>3, <2>4, <2>6, <2>7, <2>8
  <1> HIDE DEF Holds
  <1>4. U = {}
    <2> SUFFICES ASSUME U # {} PROVE FALSE
      OBVIOUS
    <2>1. PICK m \in U : \A u \in U : u \subseteq m => u = m
      <3>1. IndexSets(U, n)
        BY DEF IndexSets
      <3> HIDE DEF U
      <3>2. HasMinimal(U)
        BY <3>1, MinimalIndices
      <3> QED
        BY <3>2 DEF HasMinimal
    <2>2. PICK i \in m : TRUE
      BY <2>1, <1>2
    <2>3. Holds(m \ {i})
      BY <2>1, <2>2
    <2> QED
      BY <2>1, <2>2, <2>3, <1>3
  <1>5. Holds(1 .. n)
    BY <1>4
  <1> QED
    BY <1>1, <1>5 DEF Holds
============================================================================
