-------------------------- MODULE WhitelistProofs --------------------------
(***************************************************************************)
(* The manager's methods (spending-account/src/whitelist.rs) in closed     *)
(* form, as module Whitelist has them, are the loops of the source, for    *)
(* vectors of any length.  The closed form is generalised to what a loop   *)
(* has done after the elements with the indices s; one more index is one   *)
(* more run of the loop's body.                                            *)
(***************************************************************************)
EXTENDS MCWhitelist, SumLemmas, SequenceTheorems

Whitelists == [Keys -> Limits \cup {None}]

\* The arguments of a call: a whitelist and n elements.
Call(w, el, n) ==
    /\ w \in Whitelists /\ n \in Nat /\ Len(el) = n /\ DOMAIN el = 1 .. n
    /\ \A i \in 1 .. n : Key(el[i]) \in Keys /\ el[i].limit \in Limits /\ el[i].amount \in Limits

\* r and then i are indices of elements, i the largest.
OneMore(n, r, i) == r \subseteq 1 .. n /\ i \in 1 .. n /\ \A j \in r : j < i

Indices(n) == SUBSET (1 .. n)

\* Where key k stands among the elements with the indices s.
At(el, s, k) == {i \in s : Key(el[i]) = k}

Keyed(el, s) == {Key(el[i]) : i \in s}

LastIn(el, s, k) == el[Max(At(el, s, k))].limit

TotalIn(el, s, k) == SumFunctionOnSet([i \in DOMAIN el |-> el[i].amount], At(el, s, k))

-----------------------------------------------------------------------------
(* One more element *)

LEMMA IndicesFinite ==
    ASSUME NEW n \in Nat, NEW s \in Indices(n)
    PROVE  IsFiniteSet(s)
  <1>1. PICK N : N = 1 .. n
    OBVIOUS
  <1>2. IsFiniteSet(N) /\ s \in SUBSET N
    BY <1>1, FS_Interval DEF Indices
  <1> QED
    BY <1>2, FS_Subset

LEMMA AtOther ==
    ASSUME NEW el, NEW r, NEW i, NEW k, Key(el[i]) # k
    PROVE  At(el, r \cup {i}, k) = At(el, r, k)
  BY DEF At

LEMMA AtNew ==
    ASSUME NEW n, NEW r, NEW i, OneMore(n, r, i), NEW el, NEW k
    PROVE  i \notin r /\ i \notin At(el, r, k)
  BY DEF At, OneMore

LEMMA KeyedNext ==
    ASSUME NEW el, NEW r, NEW i
    PROVE  Keyed(el, r \cup {i}) = Keyed(el, r) \cup {Key(el[i])}
  BY DEF Keyed

LEMMA LastNext ==
    ASSUME NEW w, NEW el, NEW n, Call(w, el, n), NEW r, NEW i, OneMore(n, r, i), NEW k
    PROVE  LastIn(el, r \cup {i}, k) = IF Key(el[i]) = k THEN el[i].limit ELSE LastIn(el, r, k)
  <1>1. CASE Key(el[i]) # k
    <2>1. At(el, r \cup {i}, k) = At(el, r, k)
      BY <1>1, AtOther
    <2> QED
      BY <1>1, <2>1, Zenon DEF LastIn
  <1>2. CASE Key(el[i]) = k
    <2> DEFINE s == At(el, r \cup {i}, k)
    <2>1. s = At(el, r, k) \cup {i}
      BY <1>2 DEF At
    <2>2. s \in SUBSET (1 .. n) /\ s # {} /\ i \in s /\ \A j \in s : j <= i
      <3>1. r \cup {i} \subseteq 1 .. n /\ \A j \in r \cup {i} : j <= i
        BY DEF OneMore
      <3>2. s \subseteq r \cup {i}
        BY DEF At
      <3>3. i \in s
        BY <2>1
      <3> HIDE DEF s
      <3> QED
        BY <3>1, <3>2, <3>3
    <2>3. Max(s) \in s /\ \A j \in s : j <= Max(s)
      <3> HIDE DEF s
      <3>1. n \in Nat
        BY DEF Call
      <3> QED
        BY <2>2, <3>1, MaxIn
    <2>4. Max(s) = i
      <3> HIDE DEF s
      <3>1. PICK m : m = Max(s)
        OBVIOUS
      <3>2. m \in 1 .. n /\ i \in 1 .. n /\ m <= i /\ i <= m
        BY <2>2, <2>3, <3>1
      <3>3. m = i
        BY <3>2
      <3> QED
        BY <3>1, <3>3
    <2> QED
      BY <1>2, <2>4, Zenon DEF LastIn
  <1> QED
    BY <1>1, <1>2

LEMMA TotalNext ==
    ASSUME NEW w, NEW el, NEW n, Call(w, el, n), NEW r, NEW i, OneMore(n, r, i), NEW k
    PROVE  TotalIn(el, r \cup {i}, k) =
             IF Key(el[i]) = k THEN TotalIn(el, r, k) + el[i].amount ELSE TotalIn(el, r, k)
  <1>1. CASE Key(el[i]) # k
    <2>1. At(el, r \cup {i}, k) = At(el, r, k)
      BY <1>1, AtOther
    <2> QED
      BY <1>1, <2>1, Zenon DEF TotalIn
  <1>2. CASE Key(el[i]) = k
    <2>1. PICK f : f = [j \in DOMAIN el |-> el[j].amount]
      OBVIOUS
    <2>2. PICK a : a = At(el, r, k)
      OBVIOUS
    <2>3. At(el, r \cup {i}, k) = a \cup {i} /\ i \notin a
      <3>1. At(el, r \cup {i}, k) = At(el, r, k) \cup {i} /\ i \notin At(el, r, k)
        BY <1>2, AtNew DEF At
      <3> QED
        BY <2>2, <3>1, Zenon
    <2>4. \A j \in a \cup {i} : f[j] \in Int
      <3>1. a \cup {i} \subseteq 1 .. n
        BY <2>2 DEF At, OneMore
      <3>2. \A j \in 1 .. n : f[j] \in Int
        BY <2>1, U128Assumption DEF Call, Limits
      <3> QED
        BY <3>1, <3>2
    <2>5. IsFiniteSet(a)
      <3>1. a \in Indices(n)
        <4>1. a \subseteq r
          BY <2>2 DEF At
        <4>2. r \subseteq 1 .. n
          BY DEF OneMore
        <4> QED
          BY <4>1, <4>2, Zenon DEF Indices
      <3>2. n \in Nat
        BY DEF Call
      <3> QED
        BY <3>1, <3>2, IndicesFinite
    <2>6. f[i] = el[i].amount
      BY <2>1 DEF Call, OneMore
    <2>7. SumFunctionOnSet(f, a \cup {i}) = SumFunctionOnSet(f, a) + f[i]
      BY <2>3, <2>4, <2>5, SumInsert
    <2>8. TotalIn(el, r \cup {i}, k) = SumFunctionOnSet(f, a \cup {i}) /\ TotalIn(el, r, k) = SumFunctionOnSet(f, a)
      BY <2>1, <2>2, <2>3, Zenon DEF TotalIn
    <2> QED
      BY <1>2, <2>6, <2>7, <2>8, Zenon
  <1> QED
    BY <1>1, <1>2

\* A total is a natural number, zero for a key without elements.
LEMMA TotalType ==
    ASSUME NEW w, NEW el, NEW n, Call(w, el, n), NEW s \in Indices(n), NEW k
    PROVE  TotalIn(el, s, k) \in Nat /\ (k \notin Keyed(el, s) => TotalIn(el, s, k) = 0)
  <1>1. PICK f : f = [j \in DOMAIN el |-> el[j].amount]
    OBVIOUS
  <1>2. PICK a : a = At(el, s, k)
    OBVIOUS
  <1>3. \A j \in a : f[j] \in Int /\ f[j] >= 0
    <2>1. a \subseteq 1 .. n
      BY <1>2 DEF At, Indices
    <2>2. \A j \in 1 .. n : f[j] \in Int /\ f[j] >= 0
      BY <1>1, U128Assumption DEF Call, Limits
    <2> QED
      BY <2>1, <2>2
  <1>4. IsFiniteSet(a)
    <2>1. a \in Indices(n) /\ n \in Nat
      BY <1>2 DEF At, Indices, Call
    <2> QED
      BY <2>1, IndicesFinite
  <1>5. SumFunctionOnSet(f, a) \in Int /\ SumFunctionOnSet(f, a) >= 0
    BY <1>3, <1>4, SumType
  <1>6. TotalIn(el, s, k) = SumFunctionOnSet(f, a)
    BY <1>1, <1>2, Zenon DEF TotalIn
  <1>7. ASSUME k \notin Keyed(el, s) PROVE SumFunctionOnSet(f, a) = 0
    <2>1. a = {}
      BY <1>2, <1>7 DEF At, Keyed
    <2> QED
      BY <2>1, SumEmpty
  <1> QED
    BY <1>5, <1>6, <1>7

-----------------------------------------------------------------------------
(* Loops *)

\* R says what the loop of method has done after the elements with the
\* indices s: it starts with w, and does the body on the last element.
Describes(R, method, w, el, n) ==
    /\ R[{}] = w
    /\ \A r, i : OneMore(n, r, i) =>
         R[r \cup {i}] = IF R[r] = None THEN None ELSE Body(method, R[r], el[i])

\* Then R is the loop.
LEMMA LoopIs ==
    ASSUME NEW n \in Nat, n > 0, NEW el, DOMAIN el = 1 .. n, NEW w, NEW method, NEW R,
           Describes(R, method, w, el, n)
    PROVE  Loop(method, w, el) = R[1 .. n]
  <1> DEFINE Step(it) == [s \in SUBSET (DOMAIN el) |->
                            IF s = {} THEN w
                            ELSE IF it[s \ {Max(s)}] = None THEN None
                                 ELSE Body(method, it[s \ {Max(s)}], el[Max(s)])]
             it == CHOOSE h : h = Step(h)
             g == [s \in SUBSET (1 .. n) |-> R[s]]
  <1>1. ASSUME NEW s \in SUBSET (1 .. n), s # {}
        PROVE  /\ s \ {Max(s)} \in SUBSET (1 .. n) /\ s \ {Max(s)} # s
               /\ R[s] = IF R[s \ {Max(s)}] = None THEN None
                         ELSE Body(method, R[s \ {Max(s)}], el[Max(s)])
    <2>1. Max(s) \in s /\ \A i \in s : i <= Max(s)
      BY <1>1, MaxIn
    <2>2. PICK m, r : m = Max(s) /\ r = s \ {m}
      OBVIOUS
    <2>3. r \cup {m} = s /\ r # s /\ r \in SUBSET (1 .. n)
      BY <2>1, <2>2
    <2>4. OneMore(n, r, m)
      <3>1. \A j \in r : j <= m /\ j # m
        BY <2>1, <2>2
      <3>2. m \in 1 .. n
        BY <2>1, <2>2
      <3> QED
        BY <2>3, <3>1, <3>2 DEF OneMore
    <2>5. R[r \cup {m}] = IF R[r] = None THEN None ELSE Body(method, R[r], el[m])
      BY <2>4, Zenon DEF Describes
    <2> QED
      BY <2>2, <2>3, <2>5, Zenon
  <1>2. g = Step(g)
    <2>1. \A s \in SUBSET (1 .. n) :
             R[s] = IF s = {} THEN w
                    ELSE IF g[s \ {Max(s)}] = None THEN None
                         ELSE Body(method, g[s \ {Max(s)}], el[Max(s)])
      <3> SUFFICES ASSUME NEW s \in SUBSET (1 .. n)
                   PROVE  R[s] = IF s = {} THEN w
                                 ELSE IF g[s \ {Max(s)}] = None THEN None
                                      ELSE Body(method, g[s \ {Max(s)}], el[Max(s)])
        OBVIOUS
      <3>1. CASE s = {}
        BY <3>1, Zenon DEF Describes
      <3>2. CASE s # {}
        <4>1. s \ {Max(s)} \in SUBSET (1 .. n)
          BY <3>2, <1>1, Zenon
        <4>2. g[s \ {Max(s)}] = R[s \ {Max(s)}]
          BY <4>1, Zenon
        <4> HIDE DEF g
        <4> QED
          BY <3>2, <4>2, <1>1, Zenon
      <3> QED
        BY <3>1, <3>2
    <2> QED
      BY <2>1, Zenon
  <1>3. it = Step(it)
    <2> HIDE DEF g, Step
    <2> QED
      BY <1>2
  <1>4. Loop(method, w, el) = it[DOMAIN el]
    <2>1. el # << >>
      OBVIOUS
    <2>2. Loop(method, w, el)
            = FoldLeft(LAMBDA acc, e : IF acc = None THEN None ELSE Body(method, acc, e), w, el)
      BY <2>1, Zenon DEF Loop
    <2> QED
      BY <2>2, Zenon DEF FoldLeft, MapThenFoldSet
  <1> HIDE DEF it, g
  <1>5. \A s \in SUBSET (1 .. n) : it[s] = R[s]
    <2> DEFINE U == {s \in SUBSET (1 .. n) : it[s] # R[s]}
    <2> SUFFICES ASSUME U # {} PROVE FALSE
      OBVIOUS
    <2>1. PICK m \in U : \A u \in U : u \subseteq m => u = m
      <3>1. IndexSets(U, n)
        BY DEF IndexSets
      <3> HIDE DEF U
      <3>2. HasMinimal(U)
        BY <3>1, MinimalIndices
      <3> QED
        BY <3>2 DEF HasMinimal
    <2>2. ASSUME NEW s \in SUBSET (1 .. n)
          PROVE  it[s] = IF s = {} THEN w
                         ELSE IF it[s \ {Max(s)}] = None THEN None
                              ELSE Body(method, it[s \ {Max(s)}], el[Max(s)])
      BY <1>3, Zenon
    <2>3. m # {} /\ m \in SUBSET (1 .. n)
      BY <2>1, <2>2, Zenon DEF Describes
    <2>4. it[m \ {Max(m)}] = R[m \ {Max(m)}]
      BY <2>1, <2>3, <1>1
    <2>5. it[m] = R[m]
      BY <2>2, <2>3, <2>4, <1>1, Zenon
    <2> QED
      BY <2>1, <2>5, Zenon
  <1>6. 1 .. n \in SUBSET (1 .. n)
    OBVIOUS
  <1> QED
    BY <1>4, <1>5, <1>6, Zenon

\* The keys seen, one more.
LEMMA KeyedKeys ==
    ASSUME NEW w, NEW el, NEW n, Call(w, el, n), NEW s \in Indices(n)
    PROVE  Keyed(el, s) \subseteq Keys
  BY DEF Call, Indices, Keyed

LEMMA NextIndices ==
    ASSUME NEW n, NEW r, NEW i, OneMore(n, r, i)
    PROVE  r \in Indices(n) /\ r \cup {i} \in Indices(n) /\ i \notin r
  BY DEF OneMore, Indices

LEMMA ElementType ==
    ASSUME NEW w, NEW el, NEW n, Call(w, el, n), NEW r, NEW i, OneMore(n, r, i)
    PROVE  Key(el[i]) \in Keys /\ el[i].limit \in Limits /\ el[i].amount \in Limits
  BY DEF Call, OneMore

\* The last entry for a key has a limit.
LEMMA LastType ==
    ASSUME NEW w, NEW el, NEW n, Call(w, el, n), NEW s \in Indices(n), NEW k \in Keyed(el, s)
    PROVE  /\ LastIn(el, s, k) \in Limits
           /\ Max(At(el, s, k)) \in At(el, s, k)
           /\ \A j \in At(el, s, k) : j <= Max(At(el, s, k))
  <1>1. PICK a : a = At(el, s, k)
    OBVIOUS
  <1>2. a \in SUBSET (1 .. n) /\ n \in Nat
    BY <1>1 DEF At, Indices, Call
  <1>3. a # {}
    BY <1>1 DEF At, Keyed
  <1>4. Max(a) \in a /\ \A j \in a : j <= Max(a)
    BY <1>2, <1>3, MaxIn
  <1>5. PICK m : m = Max(a)
    OBVIOUS
  <1>6. m \in 1 .. n
    BY <1>2, <1>4, <1>5
  <1>7. el[m].limit \in Limits
    BY <1>6 DEF Call
  <1> QED
    BY <1>1, <1>4, <1>5, <1>7, Zenon DEF LastIn

\* A limit is not None, a whitelist neither.
LEMMA NoneApart ==
    /\ \A limit \in Limits : limit # None /\ limit \in Int
    /\ \A w \in Whitelists : w # None
  BY U128Assumption, EntryAssumption DEF Limits, Whitelists

-----------------------------------------------------------------------------
(* What the loops have done after the elements with the indices s *)

Fresh(w, el, s) == \A i \in s : w[Key(el[i])] = None

Present(w, el, s) == \A i \in s : w[Key(el[i])] # None

Foreign(el, s) == \A i \in s : el[i].account_id # Self

Distinct(el, s) == \A i, j \in s : Key(el[i]) = Key(el[j]) => i = j

Bounded(w, el, s) == \A k \in Keyed(el, s) : Limit(w, k) + TotalIn(el, s, k) <= U128_MAX

Overwritten(w, el, s) == [k \in Keys |-> IF k \in Keyed(el, s) THEN LastIn(el, s, k) ELSE w[k]]

Removed(w, el, s) == [k \in Keys |-> IF k \in Keyed(el, s) THEN None ELSE w[k]]

Raised(w, el, s) ==
    [k \in Keys |-> IF k \in Keyed(el, s) THEN Limit(w, k) + TotalIn(el, s, k) ELSE w[k]]

Floor(m, n) == IF m < n THEN 0 ELSE m - n

Lowered(w, el, s) ==
    [k \in Keys |-> IF k \in Keyed(el, s) THEN Floor(w[k], TotalIn(el, s, k)) ELSE w[k]]

\* The conditions with one more element.
LEMMA ConditionsNext ==
    ASSUME NEW w, NEW el, NEW n, Call(w, el, n), NEW r, NEW i, OneMore(n, r, i)
    PROVE  /\ Fresh(w, el, r \cup {i}) <=> Fresh(w, el, r) /\ w[Key(el[i])] = None
           /\ Present(w, el, r \cup {i}) <=> Present(w, el, r) /\ w[Key(el[i])] # None
           /\ Foreign(el, r \cup {i}) <=> Foreign(el, r) /\ el[i].account_id # Self
           /\ Distinct(el, r \cup {i}) <=> Distinct(el, r) /\ Key(el[i]) \notin Keyed(el, r)
  <1>1. i \notin r
    BY NextIndices
  <1>2. Fresh(w, el, r \cup {i}) <=> Fresh(w, el, r) /\ w[Key(el[i])] = None
    BY DEF Fresh
  <1>3. Present(w, el, r \cup {i}) <=> Present(w, el, r) /\ w[Key(el[i])] # None
    BY DEF Present
  <1>4. Foreign(el, r \cup {i}) <=> Foreign(el, r) /\ el[i].account_id # Self
    BY DEF Foreign
  <1>5. Distinct(el, r \cup {i}) <=> Distinct(el, r) /\ Key(el[i]) \notin Keyed(el, r)
    BY <1>1 DEF Distinct, Keyed
  <1> QED
    BY <1>2, <1>3, <1>4, <1>5

LEMMA OverwrittenNext ==
    ASSUME NEW w, NEW el, NEW n, Call(w, el, n), NEW r, NEW i, OneMore(n, r, i)
    PROVE  /\ Overwritten(w, el, r) \in Whitelists
           /\ Overwritten(w, el, r \cup {i}) = Put(Overwritten(w, el, r), Key(el[i]), el[i].limit)
           /\ Overwritten(w, el, r)[Key(el[i])] = None
                <=> w[Key(el[i])] = None /\ Key(el[i]) \notin Keyed(el, r)
  <1> DEFINE key == Key(el[i])
  <1>1. key \in Keys
    BY ElementType
  <1>2. ASSUME NEW k \in Keys
        PROVE  /\ Overwritten(w, el, r)[k] \in Limits \cup {None}
               /\ Overwritten(w, el, r)[k] = None <=> w[k] = None /\ k \notin Keyed(el, r)
    <2>1. CASE k \in Keyed(el, r)
      <3>1. LastIn(el, r, k) \in Limits
        BY <2>1, LastType, NextIndices
      <3>2. Overwritten(w, el, r)[k] = LastIn(el, r, k)
        BY <2>1 DEF Overwritten
      <3> QED
        BY <2>1, <3>1, <3>2, NoneApart
    <2>2. CASE k \notin Keyed(el, r)
      BY <2>2 DEF Overwritten, Call, Whitelists
    <2> QED
      BY <2>1, <2>2
  <1>3. Overwritten(w, el, r) \in Whitelists
    <2>1. Overwritten(w, el, r) = [k \in Keys |-> Overwritten(w, el, r)[k]]
      BY DEF Overwritten
    <2> QED
      BY <1>2, <2>1 DEF Whitelists
  <1>4. ASSUME NEW k \in Keys
        PROVE  Overwritten(w, el, r \cup {i})[k] =
                 IF k = key THEN el[i].limit ELSE Overwritten(w, el, r)[k]
    <2>1. k \in Keyed(el, r \cup {i}) <=> k \in Keyed(el, r) \/ k = key
      <3>1. Keyed(el, r \cup {i}) = Keyed(el, r) \cup {key}
        BY KeyedNext
      <3> QED
        BY <3>1
    <2>2. LastIn(el, r \cup {i}, k) = IF Key(el[i]) = k THEN el[i].limit ELSE LastIn(el, r, k)
      BY LastNext
    <2>3. /\ Overwritten(w, el, r \cup {i})[k]
               = IF k \in Keyed(el, r \cup {i}) THEN LastIn(el, r \cup {i}, k) ELSE w[k]
          /\ Overwritten(w, el, r)[k] = IF k \in Keyed(el, r) THEN LastIn(el, r, k) ELSE w[k]
      BY DEF Overwritten
    <2> QED
      BY <2>1, <2>2, <2>3
  <1>5. Overwritten(w, el, r \cup {i}) = Put(Overwritten(w, el, r), key, el[i].limit)
    <2>1. PICK a, b : a = Overwritten(w, el, r) /\ b = Overwritten(w, el, r \cup {i})
      OBVIOUS
    <2>2. a = [k \in Keys |-> a[k]] /\ b = [k \in Keys |-> b[k]]
      BY <2>1 DEF Overwritten
    <2>3. \A k \in Keys : b[k] = IF k = key THEN el[i].limit ELSE a[k]
      BY <1>4, <2>1
    <2> HIDE DEF key
    <2>4. b = [a EXCEPT ![key] = el[i].limit]
      BY <2>2, <2>3
    <2> QED
      BY <2>1, <2>4, Zenon DEF Put
  <1> QED
    BY <1>1, <1>2, <1>3, <1>5

LEMMA RemovedNext ==
    ASSUME NEW w, NEW el, NEW n, Call(w, el, n), NEW r, NEW i, OneMore(n, r, i)
    PROVE  /\ Removed(w, el, r) \in Whitelists
           /\ Removed(w, el, r \cup {i}) = Put(Removed(w, el, r), Key(el[i]), None)
           /\ Removed(w, el, r)[Key(el[i])] = None
                <=> w[Key(el[i])] = None \/ Key(el[i]) \in Keyed(el, r)
  <1> DEFINE key == Key(el[i])
  <1>1. key \in Keys
    BY ElementType
  <1>2. Removed(w, el, r) \in Whitelists
    BY DEF Removed, Call, Whitelists
  <1>3. Removed(w, el, r)[key] = None <=> w[key] = None \/ key \in Keyed(el, r)
    BY <1>1 DEF Removed
  <1>4. Removed(w, el, r \cup {i}) = Put(Removed(w, el, r), key, None)
    <2>1. PICK a, b : a = Removed(w, el, r) /\ b = Removed(w, el, r \cup {i})
      OBVIOUS
    <2>2. a = [k \in Keys |-> a[k]] /\ b = [k \in Keys |-> b[k]]
      BY <2>1 DEF Removed
    <2>3. ASSUME NEW k \in Keys PROVE b[k] = IF k = key THEN None ELSE a[k]
      <3>1. k \in Keyed(el, r \cup {i}) <=> k \in Keyed(el, r) \/ k = key
        <4>1. Keyed(el, r \cup {i}) = Keyed(el, r) \cup {key}
          BY KeyedNext
        <4> QED
          BY <4>1
      <3>2. /\ b[k] = IF k \in Keyed(el, r \cup {i}) THEN None ELSE w[k]
            /\ a[k] = IF k \in Keyed(el, r) THEN None ELSE w[k]
        BY <2>1 DEF Removed
      <3> HIDE DEF key
      <3> QED
        BY <3>1, <3>2
    <2> HIDE DEF key
    <2>4. b = [a EXCEPT ![key] = None]
      BY <2>2, <2>3
    <2> QED
      BY <2>1, <2>4, Zenon DEF Put
  <1> QED
    BY <1>2, <1>3, <1>4

\* What a raised limit counts for, whether the entry was there or not.
LEMMA RaisedNext ==
    ASSUME NEW w, NEW el, NEW n, Call(w, el, n), NEW r, NEW i, OneMore(n, r, i), Bounded(w, el, r)
    PROVE  /\ Raised(w, el, r) \in Whitelists
           /\ Raised(w, el, r \cup {i}) =
                Put(Raised(w, el, r), Key(el[i]), Limit(Raised(w, el, r), Key(el[i])) + el[i].amount)
           /\ Bounded(w, el, r \cup {i}) <=>
                Limit(Raised(w, el, r), Key(el[i])) + el[i].amount <= U128_MAX
  <1>1. PICK key : key = Key(el[i])
    OBVIOUS
  <1>2. key \in Keys /\ el[i].amount \in Nat
    BY <1>1, ElementType, U128Assumption DEF Limits
  <1>3. r \in Indices(n) /\ r \cup {i} \in Indices(n)
    BY NextIndices
  <1>4. ASSUME NEW k \in Keys
        PROVE  /\ Limit(w, k) \in Nat
               /\ TotalIn(el, r, k) \in Nat
               /\ k \notin Keyed(el, r) => TotalIn(el, r, k) = 0
    <2>1. w[k] \in Limits \cup {None}
      BY DEF Call, Whitelists
    <2>2. Limit(w, k) \in Nat
      BY <2>1, U128Assumption DEF Limit, Limits
    <2> QED
      BY <2>2, <1>3, TotalType
  <1>5. ASSUME NEW k \in Keys
        PROVE  /\ Raised(w, el, r)[k] \in Limits \cup {None}
               /\ Limit(Raised(w, el, r), k) = Limit(w, k) + TotalIn(el, r, k)
    <2>1. CASE k \in Keyed(el, r)
      <3>1. Raised(w, el, r)[k] = Limit(w, k) + TotalIn(el, r, k)
        BY <2>1 DEF Raised
      <3>2. Limit(w, k) + TotalIn(el, r, k) \in Limits
        <4>1. Limit(w, k) + TotalIn(el, r, k) <= U128_MAX
          BY <2>1 DEF Bounded
        <4> QED
          BY <4>1, <1>4, U128Assumption DEF Limits
      <3> QED
        BY <3>1, <3>2, NoneApart DEF Limit
    <2>2. CASE k \notin Keyed(el, r)
      <3>1. Raised(w, el, r)[k] = w[k]
        BY <2>2 DEF Raised
      <3>2. Limit(Raised(w, el, r), k) = Limit(w, k)
        BY <3>1 DEF Limit
      <3> QED
        BY <2>2, <3>1, <3>2, <1>4 DEF Call, Whitelists
    <2> QED
      BY <2>1, <2>2
  <1>6. Raised(w, el, r) \in Whitelists
    <2>1. Raised(w, el, r) = [k \in Keys |-> Raised(w, el, r)[k]]
      BY DEF Raised
    <2> QED
      BY <1>5, <2>1 DEF Whitelists
  <1>7. ASSUME NEW k \in Keys
        PROVE  /\ k \in Keyed(el, r \cup {i}) <=> k \in Keyed(el, r) \/ k = key
               /\ k = key => TotalIn(el, r \cup {i}, k) = TotalIn(el, r, k) + el[i].amount
               /\ k # key => TotalIn(el, r \cup {i}, k) = TotalIn(el, r, k)
    <2>1. Keyed(el, r \cup {i}) = Keyed(el, r) \cup {key}
      BY <1>1, KeyedNext
    <2>2. TotalIn(el, r \cup {i}, k) =
            IF Key(el[i]) = k THEN TotalIn(el, r, k) + el[i].amount ELSE TotalIn(el, r, k)
      BY TotalNext
    <2> QED
      BY <1>1, <2>1, <2>2
  <1>8. Raised(w, el, r \cup {i}) = Put(Raised(w, el, r), key, Limit(Raised(w, el, r), key) + el[i].amount)
    <2>1. PICK a, b : a = Raised(w, el, r) /\ b = Raised(w, el, r \cup {i})
      OBVIOUS
    <2>2. a = [k \in Keys |-> a[k]] /\ b = [k \in Keys |-> b[k]]
      BY <2>1 DEF Raised
    <2>3. PICK limit : limit = Limit(a, key) + el[i].amount
      OBVIOUS
    <2>4. ASSUME NEW k \in Keys PROVE b[k] = IF k = key THEN limit ELSE a[k]
      <3>1. /\ b[k] = IF k \in Keyed(el, r \cup {i}) THEN Limit(w, k) + TotalIn(el, r \cup {i}, k) ELSE w[k]
            /\ a[k] = IF k \in Keyed(el, r) THEN Limit(w, k) + TotalIn(el, r, k) ELSE w[k]
        BY <2>1 DEF Raised
      <3>2. CASE k = key
        <4>1. b[k] = Limit(w, k) + (TotalIn(el, r, k) + el[i].amount)
          BY <3>1, <3>2, <1>7
        <4>2. limit = (Limit(w, k) + TotalIn(el, r, k)) + el[i].amount
          BY <2>1, <2>3, <3>2, <1>5
        <4> QED
          BY <3>2, <4>1, <4>2, <1>2, <1>4
      <3>3. CASE k # key
        BY <3>1, <3>3, <1>7
      <3> QED
        BY <3>2, <3>3
    <2>5. b = [a EXCEPT ![key] = limit]
      BY <2>2, <2>4
    <2> QED
      BY <2>1, <2>3, <2>5, Zenon DEF Put
  <1>9. Bounded(w, el, r \cup {i}) <=> Limit(Raised(w, el, r), key) + el[i].amount <= U128_MAX
    <2>1. PICK total : total = Limit(w, key) + TotalIn(el, r, key)
      OBVIOUS
    <2>2. Limit(Raised(w, el, r), key) = total /\ total \in Nat
      BY <2>1, <1>2, <1>4, <1>5
    <2>3. /\ key \in Keyed(el, r \cup {i})
          /\ Limit(w, key) + TotalIn(el, r \cup {i}, key) = total + el[i].amount
      <3>1. TotalIn(el, r \cup {i}, key) = TotalIn(el, r, key) + el[i].amount
        BY <1>2, <1>7
      <3>2. /\ Limit(w, key) \in Nat /\ TotalIn(el, r, key) \in Nat
            /\ key \in Keyed(el, r \cup {i})
        BY <1>2, <1>4, <1>7
      <3> QED
        BY <3>1, <3>2, <2>1, <1>2
    <2>4. ASSUME Bounded(w, el, r \cup {i}) PROVE total + el[i].amount <= U128_MAX
      BY <2>3, <2>4 DEF Bounded
    <2>5. ASSUME total + el[i].amount <= U128_MAX, NEW k \in Keyed(el, r \cup {i})
          PROVE  Limit(w, k) + TotalIn(el, r \cup {i}, k) <= U128_MAX
      <3>1. k \in Keys
        BY <1>3, KeyedKeys
      <3>2. CASE k = key
        BY <3>2, <2>3, <2>5
      <3>3. CASE k # key
        <4>1. k \in Keyed(el, r) /\ TotalIn(el, r \cup {i}, k) = TotalIn(el, r, k)
          BY <3>1, <3>3, <1>7
        <4> QED
          BY <4>1 DEF Bounded
      <3> QED
        BY <3>2, <3>3
    <2> QED
      BY <2>2, <2>4, <2>5 DEF Bounded
  <1> QED
    BY <1>1, <1>6, <1>8, <1>9

LEMMA LoweredNext ==
    ASSUME NEW w, NEW el, NEW n, Call(w, el, n), NEW r, NEW i, OneMore(n, r, i), Present(w, el, r)
    PROVE  /\ Lowered(w, el, r) \in Whitelists
           /\ Lowered(w, el, r)[Key(el[i])] = None <=> w[Key(el[i])] = None
           /\ w[Key(el[i])] # None =>
                Lowered(w, el, r \cup {i}) =
                  Put(Lowered(w, el, r), Key(el[i]), Floor(Lowered(w, el, r)[Key(el[i])], el[i].amount))
  <1>1. PICK key : key = Key(el[i])
    OBVIOUS
  <1>2. key \in Keys /\ el[i].amount \in Nat
    BY <1>1, ElementType, U128Assumption DEF Limits
  <1>3. r \in Indices(n) /\ r \cup {i} \in Indices(n)
    BY NextIndices
  <1>4. ASSUME NEW k \in Keys
        PROVE  /\ w[k] \in Limits \cup {None}
               /\ w[k] # None => w[k] \in Nat
               /\ TotalIn(el, r, k) \in Nat
               /\ k \notin Keyed(el, r) => TotalIn(el, r, k) = 0
    <2>1. w[k] \in Limits \cup {None}
      BY DEF Call, Whitelists
    <2>2. w[k] # None => w[k] \in Nat
      BY <2>1, U128Assumption DEF Limits
    <2> QED
      BY <2>1, <2>2, <1>3, TotalType
  <1>5. ASSUME NEW k \in Keys
        PROVE  /\ Lowered(w, el, r)[k] \in Limits \cup {None}
               /\ Lowered(w, el, r)[k] = None <=> w[k] = None
               /\ w[k] # None => Lowered(w, el, r)[k] = Floor(w[k], TotalIn(el, r, k))
    <2>1. CASE k \in Keyed(el, r)
      <3>1. w[k] # None /\ w[k] \in Limits
        BY <2>1, <1>4 DEF Present, Keyed
      <3>2. Floor(w[k], TotalIn(el, r, k)) \in Limits
        BY <3>1, <1>4, U128Assumption DEF Limits, Floor
      <3>3. Lowered(w, el, r)[k] = Floor(w[k], TotalIn(el, r, k))
        BY <2>1 DEF Lowered
      <3> QED
        BY <3>1, <3>2, <3>3, NoneApart
    <2>2. CASE k \notin Keyed(el, r)
      <3>1. Lowered(w, el, r)[k] = w[k]
        BY <2>2 DEF Lowered
      <3>2. w[k] # None => Floor(w[k], TotalIn(el, r, k)) = w[k]
        BY <2>2, <1>4 DEF Floor
      <3> QED
        BY <3>1, <3>2, <1>4
    <2> QED
      BY <2>1, <2>2
  <1>6. Lowered(w, el, r) \in Whitelists
    <2>1. Lowered(w, el, r) = [k \in Keys |-> Lowered(w, el, r)[k]]
      BY DEF Lowered
    <2> QED
      BY <1>5, <2>1 DEF Whitelists
  <1>7. ASSUME NEW k \in Keys
        PROVE  /\ k \in Keyed(el, r \cup {i}) <=> k \in Keyed(el, r) \/ k = key
               /\ k = key => TotalIn(el, r \cup {i}, k) = TotalIn(el, r, k) + el[i].amount
               /\ k # key => TotalIn(el, r \cup {i}, k) = TotalIn(el, r, k)
    <2>1. Keyed(el, r \cup {i}) = Keyed(el, r) \cup {key}
      BY <1>1, KeyedNext
    <2>2. TotalIn(el, r \cup {i}, k) =
            IF Key(el[i]) = k THEN TotalIn(el, r, k) + el[i].amount ELSE TotalIn(el, r, k)
      BY TotalNext
    <2> QED
      BY <1>1, <2>1, <2>2
  <1>8. ASSUME w[key] # None
        PROVE  Lowered(w, el, r \cup {i}) =
                 Put(Lowered(w, el, r), key, Floor(Lowered(w, el, r)[key], el[i].amount))
    <2>1. PICK a, b : a = Lowered(w, el, r) /\ b = Lowered(w, el, r \cup {i})
      OBVIOUS
    <2>2. a = [k \in Keys |-> a[k]] /\ b = [k \in Keys |-> b[k]]
      BY <2>1 DEF Lowered
    <2>3. PICK limit : limit = Floor(a[key], el[i].amount)
      OBVIOUS
    <2>4. ASSUME NEW k \in Keys PROVE b[k] = IF k = key THEN limit ELSE a[k]
      <3>1. /\ b[k] = IF k \in Keyed(el, r \cup {i}) THEN Floor(w[k], TotalIn(el, r \cup {i}, k)) ELSE w[k]
            /\ a[k] = IF k \in Keyed(el, r) THEN Floor(w[k], TotalIn(el, r, k)) ELSE w[k]
        BY <2>1 DEF Lowered
      <3>2. CASE k = key
        <4>1. b[k] = Floor(w[k], TotalIn(el, r, k) + el[i].amount)
          BY <3>1, <3>2, <1>7
        <4>2. limit = Floor(Floor(w[k], TotalIn(el, r, k)), el[i].amount)
          BY <2>1, <2>3, <3>2, <1>5, <1>8
        <4>3. w[k] \in Nat /\ TotalIn(el, r, k) \in Nat /\ el[i].amount \in Nat
          BY <3>2, <1>2, <1>4, <1>8
        <4> QED
          BY <3>2, <4>1, <4>2, <4>3 DEF Floor
      <3>3. CASE k # key
        BY <3>1, <3>3, <1>7
      <3> QED
        BY <3>2, <3>3
    <2>5. b = [a EXCEPT ![key] = limit]
      BY <2>2, <2>4
    <2> QED
      BY <2>1, <2>3, <2>5, Zenon DEF Put
  <1> QED
    BY <1>1, <1>2, <1>5, <1>6, <1>8

-----------------------------------------------------------------------------
(* The loops in closed form *)

\* Before the first element nothing has happened.
LEMMA NothingDone ==
    ASSUME NEW w \in Whitelists, NEW el
    PROVE  /\ Fresh(w, el, {}) /\ Present(w, el, {}) /\ Foreign(el, {}) /\ Distinct(el, {})
           /\ Bounded(w, el, {})
           /\ Overwritten(w, el, {}) = w /\ Removed(w, el, {}) = w
           /\ Raised(w, el, {}) = w /\ Lowered(w, el, {}) = w
  <1>1. Keyed(el, {}) = {}
    BY DEF Keyed
  <1>2. w = [k \in Keys |-> w[k]]
    BY DEF Whitelists
  <1>3. /\ Fresh(w, el, {}) /\ Present(w, el, {}) /\ Foreign(el, {}) /\ Distinct(el, {})
        /\ Bounded(w, el, {})
    BY <1>1 DEF Fresh, Present, Foreign, Distinct, Bounded
  <1>4. Overwritten(w, el, {}) = w
    BY <1>1, <1>2 DEF Overwritten
  <1>5. Removed(w, el, {}) = w
    BY <1>1, <1>2 DEF Removed
  <1>6. Raised(w, el, {}) = w
    BY <1>1, <1>2 DEF Raised
  <1>7. Lowered(w, el, {}) = w
    BY <1>1, <1>2 DEF Lowered
  <1> QED
    BY <1>3, <1>4, <1>5, <1>6, <1>7

\* The loop of add_to_whitelist.
LEMMA AddLoop ==
    ASSUME NEW w, NEW el, NEW n, Call(w, el, n), n > 0
    PROVE  Loop("add_to_whitelist", w, el) =
             IF Foreign(el, 1 .. n) /\ Distinct(el, 1 .. n) /\ Fresh(w, el, 1 .. n) THEN Overwritten(w, el, 1 .. n) ELSE None
  <1> DEFINE OK(s) == Foreign(el, s) /\ Distinct(el, s) /\ Fresh(w, el, s)
             Done(s) == IF OK(s) THEN Overwritten(w, el, s) ELSE None
  <1>1. PICK R : R = [s \in Indices(n) |-> Done(s)]
    OBVIOUS
  <1>2. R[{}] = w
    <2>1. {} \in Indices(n)
      BY DEF Indices
    <2>2. OK({}) /\ Overwritten(w, el, {}) = w
      BY NothingDone DEF Call
    <2>3. R[{}] = Done({})
      BY <1>1, <2>1
    <2> HIDE DEF OK
    <2> QED
      BY <2>2, <2>3
  <1>3. ASSUME NEW r, NEW i, OneMore(n, r, i)
        PROVE  R[r \cup {i}] = IF R[r] = None THEN None ELSE Body("add_to_whitelist", R[r], el[i])
    <2>1. PICK a, b, e : a = Overwritten(w, el, r) /\ b = Overwritten(w, el, r \cup {i}) /\ e = el[i]
      OBVIOUS
    <2>2. R[r] = (IF OK(r) THEN a ELSE None) /\ R[r \cup {i}] = IF OK(r \cup {i}) THEN b ELSE None
      <3>1. r \in Indices(n) /\ r \cup {i} \in Indices(n)
        BY <1>3, NextIndices
      <3>2. R[r] = Done(r) /\ R[r \cup {i}] = Done(r \cup {i})
        <4> HIDE DEF Done
        <4> QED
          BY <1>1, <3>1
      <3> HIDE DEF OK
      <3> QED
        BY <2>1, <3>2
    <2>3. OK(r \cup {i}) => OK(r)
      BY <1>3, ConditionsNext
    <2>4. ASSUME OK(r)
          PROVE  /\ a # None
                 /\ add_one(a, e) = IF OK(r \cup {i}) THEN b ELSE None
      <3>1. /\ a \in Whitelists
            /\ b = Put(a, Key(e), e.limit)
            /\ a[Key(e)] = None <=> w[Key(e)] = None /\ Key(e) \notin Keyed(el, r)
        BY <2>1, <1>3, OverwrittenNext
      <3>2. OK(r \cup {i}) <=> e.account_id # Self /\ a[Key(e)] = None
        BY <3>1, <2>1, <2>4, <1>3, ConditionsNext
      <3>3. a # None
        BY <3>1, NoneApart
      <3> HIDE DEF OK
      <3> QED
        BY <3>1, <3>2, <3>3 DEF add_one
    <2>5. Body("add_to_whitelist", a, e) = add_one(a, e)
      BY DEF Body
    <2> HIDE DEF OK
    <2> QED
      BY <2>1, <2>2, <2>3, <2>4, <2>5
  <1>4. Loop("add_to_whitelist", w, el) = R[1 .. n]
    <2>1. Describes(R, "add_to_whitelist", w, el, n)
      BY <1>2, <1>3, Zenon DEF Describes
    <2>2. n \in Nat /\ DOMAIN el = 1 .. n
      BY DEF Call
    <2> QED
      BY <2>1, <2>2, LoopIs
  <1>5. R[1 .. n] = Done(1 .. n)
    <2>1. 1 .. n \in Indices(n)
      BY DEF Indices
    <2> HIDE DEF Done
    <2> QED
      BY <1>1, <2>1
  <1> QED
    BY <1>4, <1>5

\* The loop of remove_from_whitelist.
LEMMA RemoveLoop ==
    ASSUME NEW w, NEW el, NEW n, Call(w, el, n), n > 0
    PROVE  Loop("remove_from_whitelist", w, el) =
             IF Distinct(el, 1 .. n) /\ Present(w, el, 1 .. n) THEN Removed(w, el, 1 .. n) ELSE None
  <1> DEFINE OK(s) == Distinct(el, s) /\ Present(w, el, s)
             Done(s) == IF OK(s) THEN Removed(w, el, s) ELSE None
  <1>1. PICK R : R = [s \in Indices(n) |-> Done(s)]
    OBVIOUS
  <1>2. R[{}] = w
    <2>1. {} \in Indices(n)
      BY DEF Indices
    <2>2. OK({}) /\ Removed(w, el, {}) = w
      BY NothingDone DEF Call
    <2>3. R[{}] = Done({})
      BY <1>1, <2>1
    <2> HIDE DEF OK
    <2> QED
      BY <2>2, <2>3
  <1>3. ASSUME NEW r, NEW i, OneMore(n, r, i)
        PROVE  R[r \cup {i}] = IF R[r] = None THEN None ELSE Body("remove_from_whitelist", R[r], el[i])
    <2>1. PICK a, b, e : a = Removed(w, el, r) /\ b = Removed(w, el, r \cup {i}) /\ e = el[i]
      OBVIOUS
    <2>2. R[r] = (IF OK(r) THEN a ELSE None) /\ R[r \cup {i}] = IF OK(r \cup {i}) THEN b ELSE None
      <3>1. r \in Indices(n) /\ r \cup {i} \in Indices(n)
        BY <1>3, NextIndices
      <3>2. R[r] = Done(r) /\ R[r \cup {i}] = Done(r \cup {i})
        <4> HIDE DEF Done
        <4> QED
          BY <1>1, <3>1
      <3> HIDE DEF OK
      <3> QED
        BY <2>1, <3>2
    <2>3. OK(r \cup {i}) => OK(r)
      BY <1>3, ConditionsNext
    <2>4. ASSUME OK(r)
          PROVE  /\ a # None
                 /\ remove_one(a, e) = IF OK(r \cup {i}) THEN b ELSE None
      <3>1. /\ a \in Whitelists
            /\ b = Put(a, Key(e), None)
            /\ a[Key(e)] = None <=> w[Key(e)] = None \/ Key(e) \in Keyed(el, r)
        BY <2>1, <1>3, RemovedNext
      <3>2. OK(r \cup {i}) <=> a[Key(e)] # None
        BY <3>1, <2>1, <2>4, <1>3, ConditionsNext
      <3>3. a # None
        BY <3>1, NoneApart
      <3> HIDE DEF OK
      <3> QED
        BY <3>1, <3>2, <3>3 DEF remove_one
    <2>5. Body("remove_from_whitelist", a, e) = remove_one(a, e)
      BY DEF Body
    <2> HIDE DEF OK
    <2> QED
      BY <2>1, <2>2, <2>3, <2>4, <2>5
  <1>4. Loop("remove_from_whitelist", w, el) = R[1 .. n]
    <2>1. Describes(R, "remove_from_whitelist", w, el, n)
      BY <1>2, <1>3, Zenon DEF Describes
    <2>2. n \in Nat /\ DOMAIN el = 1 .. n
      BY DEF Call
    <2> QED
      BY <2>1, <2>2, LoopIs
  <1>5. R[1 .. n] = Done(1 .. n)
    <2>1. 1 .. n \in Indices(n)
      BY DEF Indices
    <2> HIDE DEF Done
    <2> QED
      BY <1>1, <2>1
  <1> QED
    BY <1>4, <1>5

\* The loop of set_limit.
LEMMA SetLoop ==
    ASSUME NEW w, NEW el, NEW n, Call(w, el, n), n > 0
    PROVE  Loop("set_limit", w, el) =
             IF Present(w, el, 1 .. n) THEN Overwritten(w, el, 1 .. n) ELSE None
  <1> DEFINE OK(s) == Present(w, el, s)
             Done(s) == IF OK(s) THEN Overwritten(w, el, s) ELSE None
  <1>1. PICK R : R = [s \in Indices(n) |-> Done(s)]
    OBVIOUS
  <1>2. R[{}] = w
    <2>1. {} \in Indices(n)
      BY DEF Indices
    <2>2. OK({}) /\ Overwritten(w, el, {}) = w
      BY NothingDone DEF Call
    <2>3. R[{}] = Done({})
      BY <1>1, <2>1
    <2> HIDE DEF OK
    <2> QED
      BY <2>2, <2>3
  <1>3. ASSUME NEW r, NEW i, OneMore(n, r, i)
        PROVE  R[r \cup {i}] = IF R[r] = None THEN None ELSE Body("set_limit", R[r], el[i])
    <2>1. PICK a, b, e : a = Overwritten(w, el, r) /\ b = Overwritten(w, el, r \cup {i}) /\ e = el[i]
      OBVIOUS
    <2>2. R[r] = (IF OK(r) THEN a ELSE None) /\ R[r \cup {i}] = IF OK(r \cup {i}) THEN b ELSE None
      <3>1. r \in Indices(n) /\ r \cup {i} \in Indices(n)
        BY <1>3, NextIndices
      <3>2. R[r] = Done(r) /\ R[r \cup {i}] = Done(r \cup {i})
        <4> HIDE DEF Done
        <4> QED
          BY <1>1, <3>1
      <3> HIDE DEF OK
      <3> QED
        BY <2>1, <3>2
    <2>3. OK(r \cup {i}) => OK(r)
      BY <1>3, ConditionsNext
    <2>4. ASSUME OK(r)
          PROVE  /\ a # None
                 /\ set_one(a, e) = IF OK(r \cup {i}) THEN b ELSE None
      <3>1. /\ a \in Whitelists
            /\ b = Put(a, Key(e), e.limit)
            /\ a[Key(e)] = None <=> w[Key(e)] = None /\ Key(e) \notin Keyed(el, r)
        BY <2>1, <1>3, OverwrittenNext
      <3>4. Key(e) \in Keyed(el, r) => w[Key(e)] # None
        BY <2>4 DEF Keyed, Present
      <3>2. OK(r \cup {i}) <=> a[Key(e)] # None
        BY <3>1, <3>4, <2>1, <2>4, <1>3, ConditionsNext
      <3>3. a # None
        BY <3>1, NoneApart
      <3> HIDE DEF OK
      <3> QED
        BY <3>1, <3>2, <3>3 DEF set_one
    <2>5. Body("set_limit", a, e) = set_one(a, e)
      BY DEF Body
    <2> HIDE DEF OK
    <2> QED
      BY <2>1, <2>2, <2>3, <2>4, <2>5
  <1>4. Loop("set_limit", w, el) = R[1 .. n]
    <2>1. Describes(R, "set_limit", w, el, n)
      BY <1>2, <1>3, Zenon DEF Describes
    <2>2. n \in Nat /\ DOMAIN el = 1 .. n
      BY DEF Call
    <2> QED
      BY <2>1, <2>2, LoopIs
  <1>5. R[1 .. n] = Done(1 .. n)
    <2>1. 1 .. n \in Indices(n)
      BY DEF Indices
    <2> HIDE DEF Done
    <2> QED
      BY <1>1, <2>1
  <1> QED
    BY <1>4, <1>5

\* A total only grows.
LEMMA BoundedBefore ==
    ASSUME NEW w, NEW el, NEW n, Call(w, el, n), NEW r, NEW i, OneMore(n, r, i),
           Bounded(w, el, r \cup {i})
    PROVE  Bounded(w, el, r)
  <1> SUFFICES ASSUME NEW k \in Keyed(el, r) PROVE Limit(w, k) + TotalIn(el, r, k) <= U128_MAX
    BY DEF Bounded
  <1>1. Limit(w, k) + TotalIn(el, r \cup {i}, k) <= U128_MAX
    <2>1. k \in Keyed(el, r \cup {i})
      BY DEF Keyed
    <2> QED
      BY <2>1 DEF Bounded
  <1>2. r \in Indices(n) /\ el[i].amount \in Nat
    <2>1. r \in Indices(n)
      BY NextIndices, Zenon
    <2>2. el[i].amount \in 0 .. U128_MAX
      BY ElementType, Zenon DEF Limits
    <2> QED
      BY <2>1, <2>2, U128Assumption
  <1>3. Limit(w, k) \in Nat
    <2>1. k \in Keys
      BY <1>2, KeyedKeys
    <2>2. w[k] \in Limits \cup {None}
      BY <2>1 DEF Call, Whitelists
    <2> QED
      BY <2>2, U128Assumption DEF Limit, Limits
  <1>4. TotalIn(el, r, k) \in Nat
    BY <1>2, TotalType
  <1>5. TotalIn(el, r \cup {i}, k) =
          IF Key(el[i]) = k THEN TotalIn(el, r, k) + el[i].amount ELSE TotalIn(el, r, k)
    BY TotalNext
  <1>6. TotalIn(el, r \cup {i}, k) >= TotalIn(el, r, k) /\ TotalIn(el, r \cup {i}, k) \in Nat
    BY <1>2, <1>4, <1>5
  <1> QED
    BY <1>1, <1>3, <1>4, <1>6, U128Assumption

\* The loop of increase_limit.
LEMMA IncreaseLoop ==
    ASSUME NEW w, NEW el, NEW n, Call(w, el, n), n > 0
    PROVE  Loop("increase_limit", w, el) =
             IF Foreign(el, 1 .. n) /\ Bounded(w, el, 1 .. n) THEN Raised(w, el, 1 .. n) ELSE None
  <1> DEFINE OK(s) == Foreign(el, s) /\ Bounded(w, el, s)
             Done(s) == IF OK(s) THEN Raised(w, el, s) ELSE None
  <1>1. PICK R : R = [s \in Indices(n) |-> Done(s)]
    OBVIOUS
  <1>2. R[{}] = w
    <2>1. {} \in Indices(n)
      BY DEF Indices
    <2>2. OK({}) /\ Raised(w, el, {}) = w
      BY NothingDone DEF Call
    <2>3. R[{}] = Done({})
      BY <1>1, <2>1
    <2> HIDE DEF OK
    <2> QED
      BY <2>2, <2>3
  <1>3. ASSUME NEW r, NEW i, OneMore(n, r, i)
        PROVE  R[r \cup {i}] = IF R[r] = None THEN None ELSE Body("increase_limit", R[r], el[i])
    <2>1. PICK a, b, e : a = Raised(w, el, r) /\ b = Raised(w, el, r \cup {i}) /\ e = el[i]
      OBVIOUS
    <2>2. R[r] = (IF OK(r) THEN a ELSE None) /\ R[r \cup {i}] = IF OK(r \cup {i}) THEN b ELSE None
      <3>1. r \in Indices(n) /\ r \cup {i} \in Indices(n)
        BY <1>3, NextIndices
      <3>2. R[r] = Done(r) /\ R[r \cup {i}] = Done(r \cup {i})
        <4> HIDE DEF Done
        <4> QED
          BY <1>1, <3>1
      <3> HIDE DEF OK
      <3> QED
        BY <2>1, <3>2
    <2>3. OK(r \cup {i}) => OK(r)
      <3> SUFFICES ASSUME Foreign(el, r \cup {i}), Bounded(w, el, r \cup {i}) PROVE OK(r)
        OBVIOUS
      <3>1. Foreign(el, r)
        BY <1>3, ConditionsNext
      <3>2. Bounded(w, el, r)
        BY <1>3, BoundedBefore
      <3> QED
        BY <3>1, <3>2
    <2>4. ASSUME OK(r)
          PROVE  /\ a # None
                 /\ increase_one(a, e) = IF OK(r \cup {i}) THEN b ELSE None
      <3>1. /\ a \in Whitelists
            /\ b = Put(a, Key(e), Limit(a, Key(e)) + e.amount)
            /\ Bounded(w, el, r \cup {i}) <=> Limit(a, Key(e)) + e.amount <= U128_MAX
        BY <2>1, <2>4, <1>3, RaisedNext
      <3>2. OK(r \cup {i}) <=> e.account_id # Self /\ Limit(a, Key(e)) + e.amount <= U128_MAX
        BY <3>1, <2>1, <2>4, <1>3, ConditionsNext
      <3>3. a # None
        BY <3>1, NoneApart
      <3>4. PICK limit \in Int : limit = Limit(a, Key(e)) + e.amount
        <4>1. Key(e) \in Keys /\ e.amount \in Int
          BY <2>1, <1>3, ElementType, NoneApart
        <4>2. Limit(a, Key(e)) \in Int
          BY <3>1, <4>1, NoneApart DEF Limit, Whitelists
        <4> QED
          BY <4>1, <4>2
      <3> HIDE DEF OK
      <3>5. increase_one(a, e) =
              IF e.account_id = Self \/ limit > U128_MAX THEN None ELSE Put(a, Key(e), limit)
        BY <3>4, Zenon DEF increase_one
      <3>6. limit > U128_MAX <=> ~(limit <= U128_MAX)
        BY U128Assumption
      <3> QED
        BY <3>1, <3>2, <3>3, <3>4, <3>5, <3>6
    <2>5. Body("increase_limit", a, e) = increase_one(a, e)
      BY DEF Body
    <2> HIDE DEF OK
    <2> QED
      BY <2>1, <2>2, <2>3, <2>4, <2>5
  <1>4. Loop("increase_limit", w, el) = R[1 .. n]
    <2>1. Describes(R, "increase_limit", w, el, n)
      BY <1>2, <1>3, Zenon DEF Describes
    <2>2. n \in Nat /\ DOMAIN el = 1 .. n
      BY DEF Call
    <2> QED
      BY <2>1, <2>2, LoopIs
  <1>5. R[1 .. n] = Done(1 .. n)
    <2>1. 1 .. n \in Indices(n)
      BY DEF Indices
    <2> HIDE DEF Done
    <2> QED
      BY <1>1, <2>1
  <1> QED
    BY <1>4, <1>5

\* The loop of decrease_limit.
LEMMA DecreaseLoop ==
    ASSUME NEW w, NEW el, NEW n, Call(w, el, n), n > 0
    PROVE  Loop("decrease_limit", w, el) =
             IF Present(w, el, 1 .. n) THEN Lowered(w, el, 1 .. n) ELSE None
  <1> DEFINE OK(s) == Present(w, el, s)
             Done(s) == IF OK(s) THEN Lowered(w, el, s) ELSE None
  <1>1. PICK R : R = [s \in Indices(n) |-> Done(s)]
    OBVIOUS
  <1>2. R[{}] = w
    <2>1. {} \in Indices(n)
      BY DEF Indices
    <2>2. OK({}) /\ Lowered(w, el, {}) = w
      BY NothingDone DEF Call
    <2>3. R[{}] = Done({})
      BY <1>1, <2>1
    <2> HIDE DEF OK
    <2> QED
      BY <2>2, <2>3
  <1>3. ASSUME NEW r, NEW i, OneMore(n, r, i)
        PROVE  R[r \cup {i}] = IF R[r] = None THEN None ELSE Body("decrease_limit", R[r], el[i])
    <2>1. PICK a, b, e : a = Lowered(w, el, r) /\ b = Lowered(w, el, r \cup {i}) /\ e = el[i]
      OBVIOUS
    <2>2. R[r] = (IF OK(r) THEN a ELSE None) /\ R[r \cup {i}] = IF OK(r \cup {i}) THEN b ELSE None
      <3>1. r \in Indices(n) /\ r \cup {i} \in Indices(n)
        BY <1>3, NextIndices
      <3>2. R[r] = Done(r) /\ R[r \cup {i}] = Done(r \cup {i})
        <4> HIDE DEF Done
        <4> QED
          BY <1>1, <3>1
      <3> HIDE DEF OK
      <3> QED
        BY <2>1, <3>2
    <2>3. OK(r \cup {i}) => OK(r)
      BY <1>3, ConditionsNext
    <2>4. ASSUME OK(r)
          PROVE  /\ a # None
                 /\ decrease_one(a, e) = IF OK(r \cup {i}) THEN b ELSE None
      <3>1. /\ a \in Whitelists
            /\ a[Key(e)] = None <=> w[Key(e)] = None
            /\ w[Key(e)] # None => b = Put(a, Key(e), Floor(a[Key(e)], e.amount))
        BY <2>1, <2>4, <1>3, LoweredNext
      <3>2. OK(r \cup {i}) <=> a[Key(e)] # None
        BY <3>1, <2>1, <2>4, <1>3, ConditionsNext
      <3>3. a # None
        BY <3>1, NoneApart
      <3> HIDE DEF OK
      <3> QED
        BY <3>1, <3>2, <3>3 DEF decrease_one, Floor
    <2>5. Body("decrease_limit", a, e) = decrease_one(a, e)
      BY DEF Body
    <2> HIDE DEF OK
    <2> QED
      BY <2>1, <2>2, <2>3, <2>4, <2>5
  <1>4. Loop("decrease_limit", w, el) = R[1 .. n]
    <2>1. Describes(R, "decrease_limit", w, el, n)
      BY <1>2, <1>3, Zenon DEF Describes
    <2>2. n \in Nat /\ DOMAIN el = 1 .. n
      BY DEF Call
    <2> QED
      BY <2>1, <2>2, LoopIs
  <1>5. R[1 .. n] = Done(1 .. n)
    <2>1. 1 .. n \in Indices(n)
      BY DEF Indices
    <2> HIDE DEF Done
    <2> QED
      BY <1>1, <2>1
  <1> QED
    BY <1>4, <1>5

-----------------------------------------------------------------------------
(* The closed forms of module Whitelist *)

\* The last of the entries for a key, as LastLimit chooses it.
LEMMA LastLimitIs ==
    ASSUME NEW w, NEW el, NEW n, Call(w, el, n), NEW k \in Keyed(el, 1 .. n)
    PROVE  LastLimit(el, k) = LastIn(el, 1 .. n, k)
  <1> DEFINE IsLast(i) == Key(el[i]) = k /\ \A j \in i + 1 .. Len(el) : Key(el[j]) # k
  <1>1. PICK m : m = Max(At(el, 1 .. n, k))
    OBVIOUS
  <1>2. m \in At(el, 1 .. n, k) /\ \A j \in At(el, 1 .. n, k) : j <= m
    <2>1. 1 .. n \in Indices(n)
      BY DEF Indices
    <2> QED
      BY <1>1, <2>1, LastType
  <1>3. m \in 1 .. n /\ Key(el[m]) = k /\ \A j \in 1 .. n : Key(el[j]) = k => j <= m
    BY <1>2 DEF At
  <1>4. Len(el) = n /\ n \in Nat /\ DOMAIN el = 1 .. n
    BY DEF Call
  <1>5. IsLast(m)
    <2>1. \A j \in m + 1 .. n : j \in 1 .. n /\ j > m
      BY <1>3, <1>4
    <2>2. \A j \in m + 1 .. n : Key(el[j]) # k
      BY <1>3, <2>1
    <2> QED
      BY <1>3, <1>4, <2>2
  <1>6. ASSUME NEW i \in 1 .. n, IsLast(i) PROVE i = m
    <2>1. i <= m
      BY <1>3, <1>6
    <2>2. m \notin i + 1 .. n
      BY <1>3, <1>4, <1>6
    <2> QED
      BY <2>1, <2>2, <1>3, <1>4
  <1>7. (CHOOSE i \in DOMAIN el : IsLast(i)) = m
    <2>1. m \in DOMAIN el
      BY <1>3, <1>4
    <2>2. \A i \in DOMAIN el : IsLast(i) => i = m
      BY <1>4, <1>6
    <2> HIDE DEF IsLast
    <2> QED
      BY <1>5, <2>1, <2>2
  <1>8. LastLimit(el, k) = el[m].limit
    BY <1>7, Zenon DEF LastLimit
  <1> QED
    BY <1>1, <1>8, Zenon DEF LastIn

\* The conditions and the keys of a call.
LEMMA CallConditions ==
    ASSUME NEW w, NEW el, NEW n, Call(w, el, n)
    PROVE  /\ KeysOf(el) = Keyed(el, 1 .. n) /\ DOMAIN w = Keys
           /\ NotSelf(Self, el) <=> Foreign(el, 1 .. n)
           /\ NoDuplicates(el) <=> Distinct(el, 1 .. n)
           /\ AllPresent(w, el) <=> Present(w, el, 1 .. n)
           /\ (\A k \in KeysOf(el) : w[k] = None) <=> Fresh(w, el, 1 .. n)
           /\ \A k : TotalChange(el, k) = TotalIn(el, 1 .. n, k)
  <1>1. DOMAIN el = 1 .. n /\ DOMAIN w = Keys
    BY DEF Call, Whitelists
  <1>2. KeysOf(el) = Keyed(el, 1 .. n)
    BY <1>1, Zenon DEF KeysOf, Keyed
  <1>3. NotSelf(Self, el) <=> Foreign(el, 1 .. n)
    BY <1>1, Zenon DEF NotSelf, Foreign
  <1>4. NoDuplicates(el) <=> Distinct(el, 1 .. n)
    BY <1>1, Zenon DEF NoDuplicates, Distinct
  <1>5. AllPresent(w, el) <=> Present(w, el, 1 .. n)
    BY <1>1 DEF AllPresent, Present, KeysOf
  <1>6. (\A k \in KeysOf(el) : w[k] = None) <=> Fresh(w, el, 1 .. n)
    BY <1>1 DEF Fresh, KeysOf
  <1>7. ASSUME NEW k PROVE TotalChange(el, k) = TotalIn(el, 1 .. n, k)
    BY <1>1, Zenon DEF TotalChange, TotalIn, At
  <1> QED
    BY <1>1, <1>2, <1>3, <1>4, <1>5, <1>6, <1>7

\* A call with at least one element.
LEMMA CallIsLoop ==
    ASSUME NEW w, NEW el, NEW n, Call(w, el, n), n > 0
    PROVE  /\ add_to_whitelist(Self, w, el) = Loop("add_to_whitelist", w, el)
           /\ remove_from_whitelist(w, el) = Loop("remove_from_whitelist", w, el)
           /\ set_limit(w, el) = Loop("set_limit", w, el)
           /\ increase_limit(Self, w, el) = Loop("increase_limit", w, el)
           /\ decrease_limit(w, el) = Loop("decrease_limit", w, el)
  <1>1. PICK s : s = 1 .. n
    OBVIOUS
  <1>2. /\ KeysOf(el) = Keyed(el, s) /\ DOMAIN w = Keys
        /\ NotSelf(Self, el) <=> Foreign(el, s)
        /\ NoDuplicates(el) <=> Distinct(el, s)
        /\ AllPresent(w, el) <=> Present(w, el, s)
        /\ (\A k \in KeysOf(el) : w[k] = None) <=> Fresh(w, el, s)
        /\ \A k : TotalChange(el, k) = TotalIn(el, s, k)
    BY <1>1, CallConditions
  <1>3. \A k \in Keyed(el, s) : LastLimit(el, k) = LastIn(el, s, k)
    BY <1>1, LastLimitIs
  <1>4. el # << >>
    BY DEF Call
  <1>5. [k \in DOMAIN w |-> IF k \in KeysOf(el) THEN LastLimit(el, k) ELSE w[k]] = Overwritten(w, el, s)
    BY <1>2, <1>3 DEF Overwritten
  <1>6. add_to_whitelist(Self, w, el) =
          IF Foreign(el, s) /\ Distinct(el, s) /\ Fresh(w, el, s) THEN Overwritten(w, el, s) ELSE None
    <2>1. add_to_whitelist(Self, w, el) =
            IF /\ el # << >>
               /\ NotSelf(Self, el) /\ NoDuplicates(el) /\ \A k \in KeysOf(el) : w[k] = None
            THEN [k \in DOMAIN w |-> IF k \in KeysOf(el) THEN LastLimit(el, k) ELSE w[k]]
            ELSE None
      BY Zenon DEF add_to_whitelist, Update
    <2> QED
      BY <2>1, <1>2, <1>4, <1>5, Zenon
  <1>7. remove_from_whitelist(w, el) =
          IF Distinct(el, s) /\ Present(w, el, s) THEN Removed(w, el, s) ELSE None
    <2>1. remove_from_whitelist(w, el) =
            IF el # << >> /\ NoDuplicates(el) /\ AllPresent(w, el)
            THEN [k \in DOMAIN w |-> IF k \in KeysOf(el) THEN None ELSE w[k]]
            ELSE None
      BY Zenon DEF remove_from_whitelist, Update
    <2>2. [k \in DOMAIN w |-> IF k \in KeysOf(el) THEN None ELSE w[k]] = Removed(w, el, s)
      BY <1>2 DEF Removed
    <2> QED
      BY <2>1, <2>2, <1>2, <1>4, Zenon
  <1>8. set_limit(w, el) = IF Present(w, el, s) THEN Overwritten(w, el, s) ELSE None
    <2>1. set_limit(w, el) =
            IF el # << >> /\ AllPresent(w, el)
            THEN [k \in DOMAIN w |-> IF k \in KeysOf(el) THEN LastLimit(el, k) ELSE w[k]]
            ELSE None
      BY Zenon DEF set_limit, Update
    <2> QED
      BY <2>1, <1>2, <1>4, <1>5, Zenon
  <1>9. increase_limit(Self, w, el) =
          IF Foreign(el, s) /\ Bounded(w, el, s) THEN Raised(w, el, s) ELSE None
    <2>1. increase_limit(Self, w, el) =
            IF /\ el # << >>
               /\ NotSelf(Self, el)
               /\ \A k \in KeysOf(el) : Limit(w, k) + TotalChange(el, k) <= U128_MAX
            THEN [k \in DOMAIN w |-> IF k \in KeysOf(el) THEN Limit(w, k) + TotalChange(el, k) ELSE w[k]]
            ELSE None
      BY Zenon DEF increase_limit, Update
    <2>2. [k \in DOMAIN w |-> IF k \in KeysOf(el) THEN Limit(w, k) + TotalChange(el, k) ELSE w[k]]
            = Raised(w, el, s)
      BY <1>2 DEF Raised
    <2>3. (\A k \in KeysOf(el) : Limit(w, k) + TotalChange(el, k) <= U128_MAX) <=> Bounded(w, el, s)
      BY <1>2 DEF Bounded
    <2> QED
      BY <2>1, <2>2, <2>3, <1>2, <1>4, Zenon
  <1>10. decrease_limit(w, el) = IF Present(w, el, s) THEN Lowered(w, el, s) ELSE None
    <2>1. decrease_limit(w, el) =
            IF el # << >> /\ AllPresent(w, el)
            THEN [k \in DOMAIN w |-> IF k \in KeysOf(el)
                                     THEN IF w[k] < TotalChange(el, k) THEN 0
                                          ELSE w[k] - TotalChange(el, k)
                                     ELSE w[k]]
            ELSE None
      BY Zenon DEF decrease_limit, Update
    <2>2. [k \in DOMAIN w |-> IF k \in KeysOf(el)
                              THEN IF w[k] < TotalChange(el, k) THEN 0 ELSE w[k] - TotalChange(el, k)
                              ELSE w[k]] = Lowered(w, el, s)
      BY <1>2 DEF Lowered, Floor
    <2> QED
      BY <2>1, <2>2, <1>2, <1>4, Zenon
  <1>11. add_to_whitelist(Self, w, el) = Loop("add_to_whitelist", w, el)
    BY <1>1, <1>6, AddLoop
  <1>12. remove_from_whitelist(w, el) = Loop("remove_from_whitelist", w, el)
    BY <1>1, <1>7, RemoveLoop
  <1>13. set_limit(w, el) = Loop("set_limit", w, el)
    BY <1>1, <1>8, SetLoop
  <1>14. increase_limit(Self, w, el) = Loop("increase_limit", w, el)
    BY <1>1, <1>9, IncreaseLoop
  <1>15. decrease_limit(w, el) = Loop("decrease_limit", w, el)
    BY <1>1, <1>10, DecreaseLoop
  <1> QED
    BY <1>11, <1>12, <1>13, <1>14, <1>15

\* A call without elements panics.
LEMMA EmptyCall ==
    ASSUME NEW w
    PROVE  /\ add_to_whitelist(Self, w, << >>) = Loop("add_to_whitelist", w, << >>)
           /\ remove_from_whitelist(w, << >>) = Loop("remove_from_whitelist", w, << >>)
           /\ set_limit(w, << >>) = Loop("set_limit", w, << >>)
           /\ increase_limit(Self, w, << >>) = Loop("increase_limit", w, << >>)
           /\ decrease_limit(w, << >>) = Loop("decrease_limit", w, << >>)
  <1>1. \A method : Loop(method, w, << >>) = None
    BY Zenon DEF Loop
  <1>2. add_to_whitelist(Self, w, << >>) = None
    BY Zenon DEF add_to_whitelist, Update
  <1>3. remove_from_whitelist(w, << >>) = None
    BY Zenon DEF remove_from_whitelist, Update
  <1>4. set_limit(w, << >>) = None
    BY Zenon DEF set_limit, Update
  <1>5. increase_limit(Self, w, << >>) = None
    BY Zenon DEF increase_limit, Update
  <1>6. decrease_limit(w, << >>) = None
    BY Zenon DEF decrease_limit, Update
  <1> QED
    BY <1>1, <1>2, <1>3, <1>4, <1>5, <1>6, Zenon

-----------------------------------------------------------------------------

Elements == {Element(k, n) : k \in Keys, n \in Limits}

\* The arguments of a call, as Init and Next make them.
WhitelistInv == whitelist \in Whitelists /\ elements \in Seq(Elements)

LEMMA WhitelistInvariant == Spec => []WhitelistInv
  <1>1. Init => WhitelistInv
    <2>1. << >> \in Seq(Elements)
      OBVIOUS
    <2> QED
      BY <2>1 DEF Init, WhitelistInv, Whitelists
  <1>2. WhitelistInv /\ [Next]_<<whitelist, elements>> => WhitelistInv'
    <2> SUFFICES ASSUME WhitelistInv, [Next]_<<whitelist, elements>> PROVE WhitelistInv'
      OBVIOUS
    <2>1. CASE UNCHANGED <<whitelist, elements>>
      BY <2>1 DEF WhitelistInv
    <2>2. CASE Next
      <3>1. PICK k \in Keys, n \in Limits : elements' = Append(elements, Element(k, n))
        BY <2>2 DEF Next
      <3>2. Element(k, n) \in Elements
        BY DEF Elements
      <3>3. Append(elements, Element(k, n)) \in Seq(Elements)
        BY <3>2 DEF WhitelistInv
      <3> QED
        BY <3>1, <3>3, <2>2 DEF WhitelistInv, Next
    <2> QED
      BY <2>1, <2>2
  <1> QED
    BY <1>1, <1>2, PTL DEF Spec

\* Every call of a manager's method, with a vector of any length, does what
\* the loop of whitelist.rs does, element by element, or panics with it and
\* changes nothing.
THEOREM BatchesAreAtomicLoopsHolds == Spec => []BatchesAreAtomicLoops
  <1>1. WhitelistInv => BatchesAreAtomicLoops
    <2> SUFFICES ASSUME WhitelistInv PROVE BatchesAreAtomicLoops
      OBVIOUS
    <2>1. CASE elements = << >>
      BY <2>1, EmptyCall DEF BatchesAreAtomicLoops
    <2>2. CASE elements # << >>
      <3>1. PICK n \in Nat : n = Len(elements) /\ DOMAIN elements = 1 .. n
        BY DEF WhitelistInv
      <3>2. n > 0
        BY <2>2, <3>1 DEF WhitelistInv
      <3>3. ASSUME NEW e \in Elements
            PROVE  Key(e) \in Keys /\ e.limit \in Limits /\ e.amount \in Limits
        <4>1. PICK k \in Keys, m \in Limits : e = Element(k, m)
          BY DEF Elements
        <4>2. k = <<k[1], k[2]>>
          BY DEF Keys
        <4> QED
          BY <4>1, <4>2 DEF Element, Key
      <3>4. \A i \in 1 .. n : elements[i] \in Elements
        BY <3>1 DEF WhitelistInv
      <3>5. Call(whitelist, elements, n)
        BY <3>1, <3>3, <3>4, Zenon DEF Call, WhitelistInv
      <3> QED
        BY <3>2, <3>5, CallIsLoop DEF BatchesAreAtomicLoops
    <2> QED
      BY <2>1, <2>2
  <1> QED
    BY <1>1, WhitelistInvariant, PTL
============================================================================
