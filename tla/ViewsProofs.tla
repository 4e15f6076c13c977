---------------------------- MODULE ViewsProofs ----------------------------
(***************************************************************************)
(* Theorems about Views, for any number of entries, any page sizes and any *)
(* number of changes between two pages.                                    *)
(***************************************************************************)
EXTENDS Views, FiniteSetTheorems, SequenceTheorems, TLAPS

-----------------------------------------------------------------------------
(* The operators of the model *)

\* The i-th key is removed, the last one is moved there and nothing else moves.
IsSwapped(E, s, i, t) ==
    /\ t \in Seq(E) /\ Len(t) = Len(s) - 1
    /\ \A p \in 1 .. Len(s) - 1 : t[p] = IF p = i THEN s[Len(s)] ELSE s[p]

\* What SwapRemove does to the keys.
LEMMA SwapRemoveIs ==
    ASSUME NEW E, NEW s \in Seq(E), NEW i \in 1 .. Len(s), NEW t, t = SwapRemove(s, i)
    PROVE  IsSwapped(E, s, i, t)
  <1>1. Len(s) \in Nat /\ DOMAIN s = 1 .. Len(s) /\ s[Len(s)] \in E
    BY LenProperties, ElementOfSeq
  <1>2. PICK r : r = IF i = Len(s) THEN s ELSE [s EXCEPT ![i] = s[Len(s)]]
    OBVIOUS
  <1>3. r \in Seq(E) /\ Len(r) = Len(s)
    BY <1>1, <1>2, ExceptSeq
  <1>4. \A p \in 1 .. Len(s) - 1 : r[p] = IF p = i THEN s[Len(s)] ELSE s[p]
    BY <1>1, <1>2
  <1>5. t = SubSeq(r, 1, Len(s) - 1)
    BY <1>2, <1>3 DEF SwapRemove, Front, Last
  <1>6. t \in Seq(E) /\ Len(t) = Len(s) - 1 /\ \A p \in 1 .. Len(s) - 1 : t[p] = r[p]
    BY <1>1, <1>3, <1>5, SubSeqProperties
  <1> QED
    BY <1>4, <1>6 DEF IsSwapped

\* A page is cut out of the keys: at most m of them, those behind the first f,
\* and fewer than m only where the keys end.
IsPage(E, s, f, m, t) ==
    /\ t \in Seq(E)
    /\ Len(t) <= m /\ f + Len(t) <= Len(s) /\ (Len(t) = m \/ f + Len(t) = Len(s))
    /\ \A q \in 1 .. Len(t) : t[q] = s[f + q]

\* skip and take cut out a page.
LEMMA PageIs ==
    ASSUME NEW E, NEW s \in Seq(E), NEW f \in 0 .. Len(s), NEW m \in Nat,
           NEW t, t = take(skip(s, f), m)
    PROVE  IsPage(E, s, f, m, t)
  <1>1. Len(s) \in Nat /\ f \in Nat
    BY LenProperties
  <1>2. PICK r : r = SubSeq(s, f + 1, Len(s))
    OBVIOUS
  <1>3. r \in Seq(E) /\ Len(r) = Len(s) - f /\ \A q \in 1 .. Len(r) : r[q] = s[f + q]
    <2>1. CASE f = Len(s)
      <3>1. r = << >>
        BY <1>1, <1>2, <2>1, SubSeqEmpty
      <3> QED
        BY <1>1, <2>1, <3>1, EmptySeq
    <2>2. CASE f < Len(s)
      BY <1>1, <1>2, <2>2, SubSeqProperties
    <2> QED
      BY <1>1, <2>1, <2>2
  <1>4. PICK n : n = Min({m, Len(r)})
    OBVIOUS
  <1>5. n \in Nat /\ n <= m /\ n <= Len(r) /\ (n = m \/ n = Len(r))
    <2>1. m \in Nat /\ Len(r) \in Nat
      BY <1>1, <1>3
    <2>2. \E x \in {m, Len(r)} : \A y \in {m, Len(r)} : x <= y
      BY <2>1
    <2>3. n \in {m, Len(r)} /\ \A y \in {m, Len(r)} : n <= y
      BY <1>4, <2>2 DEF Min
    <2> QED
      BY <2>1, <2>3
  <1>6. t = SubSeq(r, 1, n)
    BY <1>2, <1>4 DEF take, skip
  <1>7. t \in Seq(E) /\ Len(t) = n /\ \A q \in 1 .. n : t[q] = r[q]
    <2>1. CASE n = 0
      <3>1. t = << >>
        BY <1>3, <1>6, <2>1, SubSeqEmpty
      <3> QED
        BY <2>1, <3>1, EmptySeq
    <2>2. CASE n > 0
      BY <1>3, <1>5, <1>6, <2>2, SubSeqProperties
    <2> QED
      BY <1>5, <2>1, <2>2
  <1>8. Len(t) <= m /\ f + Len(t) <= Len(s) /\ (Len(t) = m \/ f + Len(t) = Len(s))
    <2>1. Len(t) = n /\ Len(r) = Len(s) - f
      BY <1>3, <1>7
    <2> QED
      BY <1>1, <1>5, <2>1
  <1>9. ASSUME NEW q \in 1 .. Len(t)
        PROVE  t[q] = s[f + q]
    <2>1. q \in 1 .. n
      BY <1>7
    <2>2. q \in 1 .. Len(r)
      BY <1>3, <1>5, <2>1
    <2> QED
      BY <1>3, <1>7, <2>1, <2>2
  <1> QED
    BY <1>7, <1>8, <1>9 DEF IsPage

-----------------------------------------------------------------------------
(* The inductive invariant *)

\* The stable keys that the reader has passed by without seeing them.
Missed(s, f, l, st) == {k \in st : k \notin ToSet(l) /\ \E p \in 1 .. Len(s) : s[p] = k /\ p <= f}

ViewsType ==
    /\ keys \in Seq(Entries) /\ listed \in Seq(Entries)
    /\ from_index \in Nat /\ removals \in Nat
    /\ limit \in PageSizes \cup {None}
    /\ view \in {"get_requests", "get_whitelist_entries"}

\* No key has two places in the vector.
KeysDistinct == \A p, q \in 1 .. Len(keys) : keys[p] = keys[q] => p = q

StableInMap == IsFiniteSet(stable) /\ \A k \in stable : \E p \in 1 .. Len(keys) : keys[p] = k

ListedKnown == \A i \in 1 .. Len(listed) :
    listed[i] \in gone \/ \E p \in 1 .. Len(keys) : keys[p] = listed[i]

\* What the reader has still ahead of it and has seen already came back.
AheadIsNew ==
    \A p \in 1 .. Len(keys), i \in 1 .. Len(listed) :
        p > from_index /\ keys[p] = listed[i] => keys[p] \in returned

RequestsNeverReturn == view = "get_requests" => returned = {}

MissedBound == Cardinality(Missed(keys, from_index, listed, stable)) <= removals

ViewsInv ==
    /\ ViewsType /\ KeysDistinct /\ StableInMap /\ ListedKnown
    /\ AheadIsNew /\ RequestsNeverReturn /\ MissedBound /\ ListedTwiceOnlyIfReturned

\* The members of a sequence.
LEMMA ToSetIs ==
    ASSUME NEW E, NEW s \in Seq(E), NEW x
    PROVE  x \in ToSet(s) <=> \E p \in 1 .. Len(s) : s[p] = x
  BY LenProperties DEF ToSet

\* A map has finitely many keys.
LEMMA ToSetFinite ==
    ASSUME NEW E, NEW s \in Seq(E)
    PROVE  IsFiniteSet(ToSet(s))
  <1>1. Len(s) \in Nat /\ s \in [1 .. Len(s) -> E]
    BY LenProperties
  <1>2. PICK D : D = 1 .. Len(s)
    OBVIOUS
  <1>3. IsFiniteSet(D)
    BY <1>1, <1>2, FS_Interval
  <1>4. PICK T : T = ToSet(s)
    OBVIOUS
  <1>5. \A x : x \in T <=> \E p \in D : s[p] = x
    BY <1>2, <1>4, ToSetIs
  <1>6. s \in Surjection(D, T)
    BY <1>1, <1>2, <1>5 DEF Surjection
  <1> QED
    BY <1>3, <1>4, <1>6, FS_Surjection

\* The page that a reader gets at from_index.
LEMMA PageOfView ==
    ASSUME PageAssumption, ViewsType, NEW f \in 0 .. Len(keys), NEW m \in PageSizes,
           NEW from, from = f \/ (from = None /\ f = 0),
           NEW t, t = Page(from, m)
    PROVE  IsPage(Entries, keys, f, m, t)
  <1>1. m \in Nat /\ m # None /\ keys \in Seq(Entries) /\ f \in Nat
    BY LenProperties DEF PageAssumption, ViewsType
  <1>2. unwrap_or(from, 0) = f /\ unwrap_or(m, U32_MAX) = m
    BY <1>1 DEF unwrap_or, PageAssumption
  <1>3. t = take(skip(keys, f), m)
    BY <1>2 DEF Page, get_requests, get_whitelist_entries
  <1> QED
    BY <1>1, <1>3, PageIs

\* Only what changes the three sets can make more entries missed.
LEMMA MissedShrinks ==
    ASSUME NEW A, NEW B, IsFiniteSet(B), A \subseteq B
    PROVE  IsFiniteSet(A) /\ Cardinality(A) <= Cardinality(B) /\ Cardinality(A) \in Nat
  BY FS_Subset, FS_CardinalityType

\* Before anything is inserted or read.
LEMMA InitViewsInv ==
    ASSUME Init
    PROVE  ViewsInv
  <1>1. keys = << >> /\ listed = << >> /\ Len(keys) = 0 /\ Len(listed) = 0 /\ DOMAIN listed = {}
    BY EmptySeq DEF Init
  <1>2. keys \in Seq(Entries) /\ listed \in Seq(Entries)
    BY <1>1, EmptySeq
  <1>3. ViewsType
    BY <1>2 DEF Init, ViewsType
  <1>4. KeysDistinct /\ ListedKnown /\ AheadIsNew /\ RequestsNeverReturn
    BY <1>1 DEF Init, KeysDistinct, ListedKnown, AheadIsNew, RequestsNeverReturn
  <1>5. StableInMap
    BY FS_EmptySet DEF Init, StableInMap
  <1>6. Missed(keys, from_index, listed, stable) = {}
    BY DEF Init, Missed
  <1>7. MissedBound
    BY <1>6, FS_EmptySet DEF Init, MissedBound
  <1>8. ListedTwiceOnlyIfReturned
    BY <1>1 DEF ListedTwiceOnlyIfReturned
  <1> QED
    BY <1>3, <1>4, <1>5, <1>7, <1>8 DEF ViewsInv

-----------------------------------------------------------------------------
(* The map changes *)

\* A new key is appended: behind the reader's place nothing moves, and a key
\* that the reader has seen is new only if it was removed.
LEMMA InsertViewsInv ==
    ASSUME ViewsInv, NEW k \in Entries, Insert(k)
    PROVE  ViewsInv'
  <1> USE DEF ViewsInv
  <1>1. /\ keys \in Seq(Entries) /\ keys' \in Seq(Entries) /\ Len(keys) \in Nat
        /\ Len(keys') = Len(keys) + 1
        /\ keys'[Len(keys) + 1] = k
        /\ \A p \in 1 .. Len(keys) : keys'[p] = keys[p]
    BY AppendProperties, LenProperties DEF Insert, ViewsType
  <1>2. \A p \in 1 .. Len(keys) : keys[p] # k
    BY <1>1, ToSetIs DEF Insert
  <1>3. UNCHANGED <<view, gone, limit, from_index, listed, stable, removals>>
    BY DEF Insert
  <1>4. ViewsType'
    BY <1>1, <1>3 DEF ViewsType
  <1>5. KeysDistinct'
    BY <1>1, <1>2 DEF KeysDistinct
  <1>6. \A p \in 1 .. Len(keys) : p \in 1 .. Len(keys')
    BY <1>1
  <1>7. StableInMap'
    BY <1>1, <1>3, <1>6 DEF StableInMap
  <1>8. ListedKnown'
    BY <1>1, <1>3, <1>6 DEF ListedKnown
  <1>9. returned' = returned \cup ({k} \cap gone)
    BY DEF Insert
  <1>10. AheadIsNew'
    <2> SUFFICES ASSUME NEW p \in 1 .. Len(keys'), NEW i \in 1 .. Len(listed),
                        p > from_index, keys'[p] = listed[i]
                 PROVE  keys'[p] \in returned'
      BY <1>3 DEF AheadIsNew
    <2>1. CASE p \in 1 .. Len(keys)
      BY <1>1, <1>9, <2>1 DEF AheadIsNew
    <2>2. CASE p = Len(keys) + 1
      <3>1. listed[i] = k
        BY <1>1, <2>2
      <3>2. k \in gone
        BY <1>2, <3>1 DEF ListedKnown
      <3> QED
        BY <1>9, <3>1, <3>2
    <2> QED
      BY <1>1, <2>1, <2>2
  <1>11. RequestsNeverReturn'
    BY <1>9 DEF RequestsNeverReturn, Insert
  <1>12. Missed(keys, from_index, listed, stable)' = Missed(keys, from_index, listed, stable)
    <2>1. \A x \in stable : x # k
      BY <1>1, <1>2 DEF StableInMap
    <2> QED
      BY <1>1, <1>3, <1>6, <2>1 DEF Missed
  <1>13. MissedBound'
    BY <1>3, <1>12 DEF MissedBound
  <1>14. ListedTwiceOnlyIfReturned'
    BY <1>3, <1>9 DEF ListedTwiceOnlyIfReturned
  <1> QED
    BY <1>4, <1>5, <1>7, <1>8, <1>10, <1>11, <1>13, <1>14

\* The last key takes the place of the removed one: of the keys that were ahead
\* of the reader it alone may come behind it.
LEMMA DeleteViewsInv ==
    ASSUME ViewsInv, NEW i \in DOMAIN keys, Delete(i)
    PROVE  ViewsInv'
  <1> USE DEF ViewsInv
  <1>1. keys \in Seq(Entries) /\ Len(keys) \in Nat /\ i \in 1 .. Len(keys)
    BY LenProperties DEF ViewsType
  <1>2. PICK n \in Nat : n = Len(keys)
    BY <1>1
  <1>3. keys' = SwapRemove(keys, i)
    BY DEF Delete
  <1>4. /\ keys' \in Seq(Entries) /\ Len(keys') = n - 1
        /\ \A p \in 1 .. n - 1 : keys'[p] = IF p = i THEN keys[n] ELSE keys[p]
    <2>1. IsSwapped(Entries, keys, i, keys')
      BY <1>1, <1>3, SwapRemoveIs
    <2> QED
      BY <1>2, <2>1 DEF IsSwapped
  <1>5. i \in 1 .. n /\ n \in 1 .. n
    BY <1>1, <1>2
  <1>6. /\ gone' = gone \cup {keys[i]} /\ stable' = stable \ {keys[i]} /\ removals' = removals + 1
        /\ UNCHANGED <<view, limit, from_index, listed, returned>>
    BY DEF Delete
  \* Where the keys that stay are to be found.
  <1>7. ASSUME NEW p \in 1 .. n, keys[p] # keys[i]
        PROVE  \E q \in 1 .. n - 1 : keys'[q] = keys[p]
    <2>1. CASE p = n
      <3>1. i # n
        BY <1>7, <2>1
      <3>2. i \in 1 .. n - 1 /\ keys'[i] = keys[n]
        BY <1>4, <1>5, <3>1
      <3> QED
        BY <2>1, <3>2
    <2>2. CASE p # n
      <3>1. p \in 1 .. n - 1 /\ p # i
        BY <1>7, <2>2
      <3> QED
        BY <1>4, <3>1
    <2> QED
      BY <2>1, <2>2
  \* Where a key that stays was before.
  <1>8. ASSUME NEW q \in 1 .. n - 1
        PROVE  \E p \in 1 .. n : /\ keys'[q] = keys[p] /\ p >= q /\ (p = q \/ p = n)
                                 /\ p # i /\ (p = n <=> q = i)
    <2>1. CASE q = i
      <3>1. keys'[q] = keys[n]
        BY <1>4, <2>1
      <3> QED
        BY <1>5, <2>1, <3>1
    <2>2. CASE q # i
      <3>1. keys'[q] = keys[q] /\ q \in 1 .. n
        BY <1>4, <2>2
      <3> QED
        BY <2>2, <3>1
    <2> QED
      BY <2>1, <2>2
  <1>9. ViewsType'
    BY <1>4, <1>6 DEF ViewsType
  <1>10. KeysDistinct'
    <2> SUFFICES ASSUME NEW p \in 1 .. n - 1, NEW q \in 1 .. n - 1, keys'[p] = keys'[q]
                 PROVE  p = q
      BY <1>4 DEF KeysDistinct
    <2>1. PICK x \in 1 .. n : keys'[p] = keys[x] /\ (x = p \/ x = n) /\ (x = n <=> p = i)
      BY <1>8
    <2>2. PICK y \in 1 .. n : keys'[q] = keys[y] /\ (y = q \/ y = n) /\ (y = n <=> q = i)
      BY <1>8
    <2>3. x = y
      BY <1>2, <2>1, <2>2 DEF KeysDistinct
    <2> QED
      BY <2>1, <2>2, <2>3
  <1>11. StableInMap'
    <2>1. IsFiniteSet(stable')
      BY <1>6, FS_Subset DEF StableInMap
    <2>2. ASSUME NEW k \in stable'
          PROVE  \E q \in 1 .. n - 1 : keys'[q] = k
      <3>1. k \in stable /\ k # keys[i]
        BY <1>6
      <3>2. PICK p \in 1 .. n : keys[p] = k
        BY <1>2, <3>1 DEF StableInMap
      <3> QED
        BY <1>7, <3>1, <3>2
    <2> QED
      BY <1>4, <2>1, <2>2 DEF StableInMap
  <1>12. ListedKnown'
    <2> SUFFICES ASSUME NEW j \in 1 .. Len(listed), listed[j] \notin gone'
                 PROVE  \E q \in 1 .. n - 1 : keys'[q] = listed[j]
      BY <1>4, <1>6 DEF ListedKnown
    <2>1. listed[j] \notin gone /\ listed[j] # keys[i]
      BY <1>6
    <2>2. PICK p \in 1 .. n : keys[p] = listed[j]
      BY <1>2, <2>1 DEF ListedKnown
    <2> QED
      BY <1>7, <2>1, <2>2
  <1>13. AheadIsNew'
    <2> SUFFICES ASSUME NEW q \in 1 .. n - 1, NEW j \in 1 .. Len(listed),
                        q > from_index, keys'[q] = listed[j]
                 PROVE  keys'[q] \in returned
      BY <1>4, <1>6 DEF AheadIsNew
    <2>1. PICK p \in 1 .. n : keys'[q] = keys[p] /\ p >= q
      BY <1>8
    <2>2. p > from_index
      BY <2>1 DEF ViewsType
    <2> QED
      BY <1>2, <2>1, <2>2 DEF AheadIsNew
  <1>14. RequestsNeverReturn'
    BY <1>6 DEF RequestsNeverReturn
  <1>15. MissedBound'
    <2>1. PICK M : M = Missed(keys, from_index, listed, stable)
      OBVIOUS
    <2>2. PICK L : L = M \cup {keys[n]}
      OBVIOUS
    <2>3. IsFiniteSet(M) /\ Cardinality(M) <= removals /\ Cardinality(M) \in Nat
      BY <2>1, FS_Subset, FS_CardinalityType DEF Missed, MissedBound, StableInMap
    <2>4. IsFiniteSet(L) /\ Cardinality(L) <= Cardinality(M) + 1 /\ Cardinality(L) \in Nat
      <3>1. /\ IsFiniteSet(M \cup {keys[n]})
            /\ Cardinality(M \cup {keys[n]})
                 = IF keys[n] \in M THEN Cardinality(M) ELSE Cardinality(M) + 1
        BY <2>3, FS_AddElement, Zenon
      <3>2. Cardinality(L) = Cardinality(M) \/ Cardinality(L) = Cardinality(M) + 1
        BY <2>2, <3>1
      <3> QED
        BY <2>2, <2>3, <3>1, <3>2
    <2>5. PICK N : N = Missed(keys, from_index, listed, stable)'
      OBVIOUS
    <2>6. ASSUME NEW k \in N
          PROVE  k \in L
      <3>1. k \in stable /\ k \notin ToSet(listed) /\ \E q \in 1 .. n - 1 : keys'[q] = k /\ q <= from_index
        BY <1>4, <1>6, <2>5 DEF Missed
      <3>2. PICK q \in 1 .. n - 1 : keys'[q] = k /\ q <= from_index
        BY <3>1
      <3>3. PICK p \in 1 .. n : keys'[q] = keys[p] /\ (p = q \/ p = n)
        BY <1>8
      <3>4. CASE p = n
        BY <2>2, <3>2, <3>3, <3>4
      <3>5. CASE p = q
        BY <1>2, <2>1, <2>2, <3>1, <3>2, <3>3, <3>5 DEF Missed
      <3> QED
        BY <3>3, <3>4, <3>5
    <2>7. Cardinality(N) <= Cardinality(L) /\ Cardinality(N) \in Nat
      BY <2>4, <2>6, MissedShrinks
    <2>8. Cardinality(N) <= removals'
      BY <1>6, <2>3, <2>4, <2>7 DEF ViewsType
    <2> QED
      BY <2>5, <2>8 DEF MissedBound
  <1>16. ListedTwiceOnlyIfReturned'
    BY <1>6 DEF ListedTwiceOnlyIfReturned
  <1> QED
    BY <1>9, <1>10, <1>11, <1>12, <1>13, <1>14, <1>15, <1>16

-----------------------------------------------------------------------------
(* The reader *)

\* The first page shows all that is passed by.
LEMMA StartViewsInv ==
    ASSUME PageAssumption, ViewsInv, NEW max \in PageSizes, Start(max)
    PROVE  ViewsInv'
  <1> USE DEF ViewsInv
  <1>1. /\ keys \in Seq(Entries) /\ Len(keys) \in Nat /\ max \in Nat
        /\ UNCHANGED <<view, keys, gone>> /\ limit' = max /\ from_index' = max
        /\ stable' = ToSet(keys) /\ removals' = 0 /\ returned' = {}
    BY LenProperties DEF ViewsType, PageAssumption, Start, map
  <1>2. IsPage(Entries, keys, 0, max, listed')
    <2>1. 0 \in 0 .. Len(keys) /\ listed' = Page(None, max)
      BY <1>1 DEF Start
    <2> QED
      BY <2>1, PageOfView
  <1>3. /\ listed' \in Seq(Entries) /\ Len(listed') \in Nat /\ Len(listed') <= Len(keys)
        /\ Len(listed') <= max /\ (Len(listed') = max \/ Len(listed') = Len(keys))
        /\ \A q \in 1 .. Len(listed') : listed'[q] = keys[q]
    <2>1. listed' \in Seq(Entries) /\ Len(listed') \in Nat
      BY <1>2, LenProperties DEF IsPage
    <2> QED
      BY <1>1, <1>2, <2>1 DEF IsPage
  <1>4. \A q \in 1 .. Len(listed') : q \in 1 .. Len(keys)
    BY <1>1, <1>3
  <1>5. ViewsType'
    BY <1>1, <1>3 DEF ViewsType
  <1>6. KeysDistinct' /\ RequestsNeverReturn'
    BY <1>1 DEF KeysDistinct, RequestsNeverReturn
  <1>7. StableInMap'
    <2>1. IsFiniteSet(stable')
      BY <1>1, ToSetFinite
    <2> QED
      BY <1>1, <2>1, ToSetIs DEF StableInMap
  <1>8. ListedKnown'
    BY <1>1, <1>3, <1>4 DEF ListedKnown
  <1>9. AheadIsNew'
    <2> SUFFICES ASSUME NEW p \in 1 .. Len(keys), NEW i \in 1 .. Len(listed'),
                        p > max, keys[p] = listed'[i]
                 PROVE  FALSE
      BY <1>1 DEF AheadIsNew
    <2>1. p = i
      BY <1>3, <1>4 DEF KeysDistinct
    <2> QED
      BY <1>1, <1>3, <2>1
  <1>10. MissedBound'
    <2>1. ASSUME NEW k \in Missed(keys, from_index, listed, stable)'
          PROVE  FALSE
      <3>1. k \notin ToSet(listed') /\ \E p \in 1 .. Len(keys) : keys[p] = k /\ p <= max
        BY <1>1, <2>1 DEF Missed
      <3>2. PICK p \in 1 .. Len(keys) : keys[p] = k /\ p <= max
        BY <3>1
      <3>3. p \in 1 .. Len(listed')
        BY <1>1, <1>3, <3>2
      <3>4. listed'[p] = k
        BY <1>3, <3>2, <3>3
      <3> QED
        BY <1>3, <3>1, <3>3, <3>4, ToSetIs
    <2>2. Missed(keys, from_index, listed, stable)' = {}
      BY <2>1
    <2> QED
      BY <1>1, <2>2, FS_EmptySet DEF MissedBound
  <1>11. ListedTwiceOnlyIfReturned'
    <2> SUFFICES ASSUME NEW i \in 1 .. Len(listed'), NEW j \in 1 .. Len(listed'),
                        listed'[i] = listed'[j], i # j
                 PROVE  FALSE
      BY <1>3, LenProperties DEF ListedTwiceOnlyIfReturned
    <2> QED
      BY <1>3, <1>4 DEF KeysDistinct
  <1> QED
    BY <1>5, <1>6, <1>7, <1>8, <1>9, <1>10, <1>11

\* The next page shows the rest of what is passed by, and nothing that the
\* reader has seen but what came back.
LEMMA ContinueViewsInv ==
    ASSUME PageAssumption, ViewsInv, Continue
    PROVE  ViewsInv'
  <1> USE DEF ViewsInv
  <1>1. /\ keys \in Seq(Entries) /\ Len(keys) \in Nat /\ from_index \in Nat /\ limit \in PageSizes
        /\ limit \in Nat /\ from_index \in 0 .. Len(keys)
        /\ listed \in Seq(Entries) /\ Len(listed) \in Nat
        /\ UNCHANGED <<view, keys, gone, limit, stable, removals, returned>>
        /\ from_index' = from_index + limit
    <2>1. keys \in Seq(Entries) /\ from_index \in Nat /\ limit \in PageSizes /\ limit \in Nat
      BY DEF ViewsType, Continue, PageAssumption
    <2>2. Len(keys) \in Nat /\ from_index < Len(keys) /\ listed \in Seq(Entries) /\ Len(listed) \in Nat
      BY LenProperties DEF ViewsType, Continue, get_num
    <2> QED
      BY <2>1, <2>2 DEF Continue, map
  <1>2. PICK page : page = Page(from_index, limit)
    OBVIOUS
  <1>3. IsPage(Entries, keys, from_index, limit, page)
    BY <1>1, <1>2, PageOfView
  <1>4. /\ page \in Seq(Entries) /\ Len(page) \in Nat /\ from_index + Len(page) <= Len(keys)
        /\ Len(page) <= limit /\ (Len(page) = limit \/ from_index + Len(page) = Len(keys))
        /\ \A q \in 1 .. Len(page) : page[q] = keys[from_index + q]
    BY <1>3, LenProperties DEF IsPage
  <1>5. listed' = listed \o page
    BY <1>2 DEF Continue
  <1>6. /\ listed' \in Seq(Entries) /\ Len(listed') = Len(listed) + Len(page)
        /\ \A i \in 1 .. Len(listed) : listed'[i] = listed[i]
        /\ \A q \in 1 .. Len(page) : listed'[Len(listed) + q] = page[q]
    <2>1. /\ listed \o page \in Seq(Entries) /\ Len(listed \o page) = Len(listed) + Len(page)
          /\ \A i \in 1 .. Len(listed) + Len(page) :
               (listed \o page)[i] = IF i <= Len(listed) THEN listed[i] ELSE page[i - Len(listed)]
      BY <1>1, <1>4, ConcatProperties
    <2>2. \A i \in 1 .. Len(listed) : (listed \o page)[i] = listed[i]
      BY <1>1, <1>4, <2>1
    <2>3. \A q \in 1 .. Len(page) : (listed \o page)[Len(listed) + q] = page[q]
      BY <1>1, <1>4, <2>1
    <2> QED
      BY <1>5, <2>1, <2>2, <2>3
  \* An entry listed is one of the earlier pages or of the new one.
  <1>7. ASSUME NEW i \in 1 .. Len(listed')
        PROVE  \/ i \in 1 .. Len(listed) /\ listed'[i] = listed[i]
               \/ \E q \in 1 .. Len(page) : /\ i = Len(listed) + q /\ listed'[i] = keys[from_index + q]
                                            /\ from_index + q \in 1 .. Len(keys)
    <2>1. CASE i <= Len(listed)
      BY <1>1, <1>6, <2>1
    <2>2. CASE i > Len(listed)
      <3>1. PICK q \in 1 .. Len(page) : i = Len(listed) + q
        <4>1. i - Len(listed) \in 1 .. Len(page) /\ i = Len(listed) + (i - Len(listed))
          BY <1>1, <1>4, <1>6, <2>2
        <4> QED
          BY <4>1
      <3>2. listed'[i] = keys[from_index + q] /\ from_index + q \in 1 .. Len(keys)
        BY <1>1, <1>4, <1>6, <3>1
      <3> QED
        BY <3>1, <3>2
    <2> QED
      BY <1>1, <1>6, <2>1, <2>2
  <1>8. ViewsType'
    BY <1>1, <1>6 DEF ViewsType
  <1>9. KeysDistinct' /\ RequestsNeverReturn' /\ StableInMap'
    BY <1>1 DEF KeysDistinct, RequestsNeverReturn, StableInMap
  <1>10. ListedKnown'
    <2> SUFFICES ASSUME NEW i \in 1 .. Len(listed')
                 PROVE  listed'[i] \in gone \/ \E p \in 1 .. Len(keys) : keys[p] = listed'[i]
      BY <1>1 DEF ListedKnown
    <2> QED
      BY <1>7 DEF ListedKnown
  <1>11. AheadIsNew'
    <2> SUFFICES ASSUME NEW p \in 1 .. Len(keys), NEW i \in 1 .. Len(listed'),
                        p > from_index + limit, keys[p] = listed'[i]
                 PROVE  keys[p] \in returned
      BY <1>1 DEF AheadIsNew
    <2>1. CASE i \in 1 .. Len(listed) /\ listed'[i] = listed[i]
      <3>1. p > from_index
        BY <1>1
      <3> QED
        BY <2>1, <3>1 DEF AheadIsNew
    <2>2. ASSUME NEW q \in 1 .. Len(page), listed'[i] = keys[from_index + q],
                 from_index + q \in 1 .. Len(keys)
          PROVE  FALSE
      <3>1. p = from_index + q
        BY <2>2 DEF KeysDistinct
      <3> QED
        BY <1>1, <1>4, <3>1
    <2> QED
      BY <1>7, <2>1, <2>2
  <1>12. MissedBound'
    <2>1. PICK M : M = Missed(keys, from_index, listed, stable)
      OBVIOUS
    <2>2. IsFiniteSet(M) /\ Cardinality(M) <= removals /\ Cardinality(M) \in Nat
      BY <2>1, FS_Subset, FS_CardinalityType DEF Missed, MissedBound, StableInMap
    <2>3. PICK N : N = Missed(keys, from_index, listed, stable)'
      OBVIOUS
    <2>4. ASSUME NEW k \in N
          PROVE  k \in M
      <3>1. k \in stable /\ k \notin ToSet(listed')
            /\ \E p \in 1 .. Len(keys) : keys[p] = k /\ p <= from_index + limit
        BY <1>1, <2>3 DEF Missed
      <3>2. PICK p \in 1 .. Len(keys) : keys[p] = k /\ p <= from_index + limit
        BY <3>1
      <3>3. ASSUME k \in ToSet(listed)
            PROVE  FALSE
        <4>1. PICK i \in 1 .. Len(listed) : listed[i] = k
          BY <1>1, <3>3, ToSetIs
        <4>2. i \in 1 .. Len(listed') /\ listed'[i] = k
          BY <1>1, <1>4, <1>6, <4>1
        <4> QED
          BY <1>6, <3>1, <4>2, ToSetIs
      <3>4. p <= from_index
        <4> SUFFICES ASSUME p > from_index
                     PROVE  FALSE
          BY <1>1
        <4>1. PICK q \in 1 .. Len(page) : p = from_index + q
          <5>1. p - from_index \in 1 .. Len(page) /\ p = from_index + (p - from_index)
            BY <1>1, <1>4, <3>2
          <5> QED
            BY <5>1
        <4>2. Len(listed) + q \in 1 .. Len(listed') /\ listed'[Len(listed) + q] = k
          <5>1. Len(listed) + q \in 1 .. Len(listed')
            BY <1>1, <1>6, <4>1
          <5>2. listed'[Len(listed) + q] = keys[from_index + q]
            BY <1>1, <1>4, <1>6, <4>1
          <5> QED
            BY <5>1, <5>2, <3>2, <4>1
        <4> QED
          BY <1>6, <3>1, <4>2, ToSetIs
      <3> QED
        BY <2>1, <3>1, <3>2, <3>3, <3>4 DEF Missed
    <2>5. Cardinality(N) <= Cardinality(M) /\ Cardinality(N) \in Nat
      BY <2>2, <2>4, MissedShrinks
    <2>6. Cardinality(N) <= removals'
      BY <1>1, <2>2, <2>5 DEF ViewsType
    <2> QED
      BY <2>3, <2>6 DEF MissedBound
  <1>13. ListedTwiceOnlyIfReturned'
    <2> SUFFICES ASSUME NEW i \in 1 .. Len(listed'), NEW j \in 1 .. Len(listed'),
                        listed'[i] = listed'[j], i < j
                 PROVE  listed'[i] \in returned
      <3>1. DOMAIN listed' = 1 .. Len(listed')
        BY <1>6, LenProperties
      <3>2. ASSUME NEW i \in 1 .. Len(listed'), NEW j \in 1 .. Len(listed'),
                   listed'[i] = listed'[j], i # j
            PROVE  view # "get_requests" /\ listed'[i] \in returned
        <4>1. i < j \/ j < i
          BY <3>2
        <4>2. listed'[i] \in returned
          BY <3>2, <4>1
        <4> QED
          BY <4>2 DEF RequestsNeverReturn
      <3> QED
        BY <1>1, <3>1, <3>2 DEF ListedTwiceOnlyIfReturned
    <2>1. CASE j \in 1 .. Len(listed) /\ listed'[j] = listed[j]
      <3>1. i \in 1 .. Len(listed) /\ listed'[i] = listed[i]
        BY <1>1, <1>6, <2>1
      <3>2. DOMAIN listed = 1 .. Len(listed)
        BY <1>1, LenProperties
      <3> QED
        BY <2>1, <3>1, <3>2 DEF ListedTwiceOnlyIfReturned
    <2>2. ASSUME NEW q \in 1 .. Len(page), j = Len(listed) + q,
                 listed'[j] = keys[from_index + q], from_index + q \in 1 .. Len(keys)
          PROVE  listed'[i] \in returned
      <3>1. CASE i \in 1 .. Len(listed) /\ listed'[i] = listed[i]
        <4>1. from_index + q > from_index
          BY <1>1
        <4> QED
          BY <2>2, <3>1, <4>1 DEF AheadIsNew
      <3>2. ASSUME NEW r \in 1 .. Len(page), i = Len(listed) + r,
                   listed'[i] = keys[from_index + r], from_index + r \in 1 .. Len(keys)
            PROVE  FALSE
        <4>1. from_index + q = from_index + r
          BY <2>2, <3>2 DEF KeysDistinct
        <4> QED
          BY <1>1, <2>2, <3>2, <4>1
      <3> QED
        BY <1>7, <3>1, <3>2
    <2> QED
      BY <1>7, <2>1, <2>2
  <1> QED
    BY <1>8, <1>9, <1>10, <1>11, <1>12, <1>13

\* Every call keeps the invariant.
LEMMA StepViewsInv ==
    ASSUME PageAssumption, ViewsInv, [Next]_<<map, scan>>
    PROVE  ViewsInv'
  <1>1. ASSUME NEW k \in Entries, Insert(k)
        PROVE  ViewsInv'
    BY <1>1, InsertViewsInv
  <1>2. ASSUME NEW i \in DOMAIN keys, Delete(i)
        PROVE  ViewsInv'
    BY <1>2, DeleteViewsInv
  <1>3. ASSUME NEW max \in PageSizes, Start(max)
        PROVE  ViewsInv'
    BY <1>3, StartViewsInv
  <1>4. CASE Continue
    BY <1>4, ContinueViewsInv
  <1>5. CASE Stop \/ UNCHANGED <<map, scan>>
    <2>1. limit' \in PageSizes \cup {None}
          /\ UNCHANGED <<view, keys, gone, from_index, listed, stable, removals, returned>>
      BY <1>5 DEF Stop, map, scan, ViewsInv, ViewsType
    <2> QED
      BY <2>1 DEF ViewsInv, ViewsType, KeysDistinct, StableInMap, ListedKnown, AheadIsNew,
                  RequestsNeverReturn, MissedBound, Missed, ListedTwiceOnlyIfReturned
  <1> QED
    BY <1>1, <1>2, <1>3, <1>4, <1>5 DEF Next

-----------------------------------------------------------------------------

\* The inductive invariant holds in every reachable state, whatever calls of
\* schedule, execute, cancel, add_to_whitelist and remove_from_whitelist run
\* between two pages.
THEOREM ViewsInvariance == Spec => []ViewsInv
  <1>1. Init => ViewsInv
    BY InitViewsInv
  <1>2. ViewsInv /\ [Next]_<<map, scan>> => ViewsInv'
    BY PageAssumption, StepViewsInv
  <1> QED
    BY <1>1, <1>2, PTL DEF Spec

\* Pages of get_requests and get_whitelist_entries list nothing twice but for
\* what was removed and whitelisted again between them.
THEOREM ListedTwiceOnlyIfReturnedHolds == Spec => []ListedTwiceOnlyIfReturned
  <1>1. ViewsInv => ListedTwiceOnlyIfReturned
    BY DEF ViewsInv
  <1> QED
    BY <1>1, ViewsInvariance, PTL

\* A reader of all pages of get_requests or get_whitelist_entries misses, of
\* what was there all the time, at most one entry for each one removed meanwhile.
THEOREM MissedOnlyByRemovalHolds == Spec => []MissedOnlyByRemoval
  <1>1. ASSUME ViewsInv, Complete
        PROVE  Cardinality(stable \ ToSet(listed)) <= removals
    <2>1. Len(keys) \in Nat /\ from_index \in Nat /\ from_index >= Len(keys)
      BY <1>1, LenProperties DEF ViewsInv, ViewsType, Complete, get_num
    <2>2. stable \ ToSet(listed) = Missed(keys, from_index, listed, stable)
      BY <1>1, <2>1 DEF ViewsInv, StableInMap, Missed
    <2> QED
      BY <1>1, <2>2 DEF ViewsInv, MissedBound
  <1>2. ViewsInv => MissedOnlyByRemoval
    BY <1>1 DEF MissedOnlyByRemoval
  <1> QED
    BY <1>2, ViewsInvariance, PTL
============================================================================
