----------------------- MODULE SpendingAccountProofs -----------------------
(***************************************************************************)
(* Theorems about SpendingAccount, for every value of its constants: a     *)
(* limit stays within u128, the contract never whitelists itself, no       *)
(* allowance and no funds are made or lost by paying, the events tell what *)
(* was paid, and the contract implements the abstract ledger.              *)
(***************************************************************************)
EXTENDS SpendingAccount, SumLemmas, SequenceTheorems

Whitelists == [Keys -> (0 .. U128_MAX) \cup {None}]

-----------------------------------------------------------------------------
(* The manager's methods *)

\* A finite set that R orders has a last element.
LEMMA LastElement ==
    ASSUME NEW I, IsFiniteSet(I), I # {}, NEW R,
           \A i, j \in I : <<i, j>> \in R \/ <<j, i>> \in R,
           \A i, j, k \in I : <<i, j>> \in R /\ <<j, k>> \in R => <<i, k>> \in R
    PROVE  \E i \in I : \A j \in I : <<j, i>> \in R
  <1> DEFINE From(i) == {j \in I : <<i, j>> \in R}
             U == {From(i) : i \in I}
  <1>1. U \subseteq SUBSET I /\ U # {}
    OBVIOUS
  <1>2. \E m \in U : \A u \in U : u \subseteq m => u = m
    <2> HIDE DEF U
    <2> QED
      BY <1>1, MinimalSubset
  <1>3. PICK i \in I : \A u \in U : u \subseteq From(i) => u = From(i)
    BY <1>2
  <1>4. ASSUME NEW k \in I PROVE <<k, i>> \in R
    <2>1. CASE <<i, k>> \in R
      <3>1. From(k) \subseteq From(i) /\ From(k) \in U
        BY <2>1
      <3>2. From(k) = From(i) /\ i \in From(i)
        BY <3>1, <1>3
      <3> QED
        BY <3>2
    <2> QED
      BY <2>1
  <1> QED
    BY <1>4

\* A set of positions has a last one.
LEMMA LastPosition ==
    ASSUME NEW n \in Nat, NEW I, I \subseteq 1 .. n, I # {}
    PROVE  \E i \in I : \A j \in I : j <= i
  <1> DEFINE R == {p \in I \X I : p[1] <= p[2]}
  <1>1. IsFiniteSet(I)
    <2>1. IsFiniteSet(1 .. n)
      BY FS_Interval
    <2> QED
      BY <2>1, FS_Subset
  <1>2. \A i, j \in I : <<i, j>> \in R <=> i <= j
    OBVIOUS
  <1>3. ASSUME NEW i \in I, NEW j \in I PROVE <<i, j>> \in R \/ <<j, i>> \in R
    <2>1. i <= j \/ j <= i
      OBVIOUS
    <2> HIDE DEF R
    <2> QED
      BY <2>1, <1>2
  <1>4. \A i, j, k \in I : <<i, j>> \in R /\ <<j, k>> \in R => <<i, k>> \in R
    BY <1>2
  <1> HIDE DEF R
  <1>5. \E i \in I : \A j \in I : <<j, i>> \in R
    BY <1>1, <1>3, <1>4, LastElement
  <1> QED
    BY <1>2, <1>5

\* The limit that the last entry for a key gives it.
LEMMA LastLimitType ==
    ASSUME NEW entries \in EntryLists, NEW k \in KeysOf(entries)
    PROVE  LastLimit(entries, k) \in 0 .. U128_MAX
  <1> DEFINE E == [account_id : Recipients, token_id : Assets, limit : 0 .. U128_MAX]
             I == {i \in DOMAIN entries : Key(entries[i]) = k}
             Last(i) == /\ Key(entries[i]) = k
                        /\ \A j \in i + 1 .. Len(entries) : Key(entries[j]) # k
  <1>1. entries \in Seq(E)
    BY AmountAssumption
  <1>2. Len(entries) \in Nat /\ DOMAIN entries = 1 .. Len(entries)
    BY <1>1, LenProperties
  <1>3. I # {} /\ I \subseteq 1 .. Len(entries)
    BY <1>2 DEF KeysOf
  <1>4. PICK i \in I : \A j \in I : j <= i
    BY <1>2, <1>3, LastPosition
  <1>5. i \in DOMAIN entries /\ Last(i)
    <2> SUFFICES ASSUME NEW j \in i + 1 .. Len(entries), Key(entries[j]) = k PROVE FALSE
      OBVIOUS
    <2>1. j \in DOMAIN entries /\ ~(j <= i)
      BY <1>2, <1>4
    <2> QED
      BY <2>1, <1>4
  <1> DEFINE c == CHOOSE x \in DOMAIN entries : Last(x)
  <1>6. c \in DOMAIN entries
    BY <1>5
  <1>7. LastLimit(entries, k) = entries[c].limit
    BY DEF LastLimit
  <1>8. entries[c] \in E
    <2> HIDE DEF E, c
    <2> QED
      BY <1>1, <1>6, ElementOfSeq, <1>2
  <1> HIDE DEF c
  <1> QED
    BY <1>7, <1>8

\* The changes for a key add up to a natural number.
LEMMA TotalChangeType ==
    ASSUME NEW changes \in ChangeLists, NEW k
    PROVE  TotalChange(changes, k) \in Nat
  <1> DEFINE C == [account_id : Recipients, token_id : Assets, amount : 0 .. U128_MAX]
             f == [i \in DOMAIN changes |-> changes[i].amount]
             I == {i \in DOMAIN changes : Key(changes[i]) = k}
  <1>1. changes \in Seq(C)
    BY AmountAssumption
  <1>2. Len(changes) \in Nat /\ DOMAIN changes = 1 .. Len(changes)
    BY <1>1, LenProperties
  <1>3. IsFiniteSet(I)
    <2>1. IsFiniteSet(1 .. Len(changes))
      BY <1>2, FS_Interval
    <2> QED
      BY <2>1, <1>2, FS_Subset
  <1>4. \A i \in DOMAIN changes : changes[i] \in C
    <2> HIDE DEF C
    <2> QED
      BY <1>1, <1>2, ElementOfSeq
  <1>5. \A i \in I : f[i] \in Int /\ f[i] >= 0
    BY <1>4, U128Assumption
  <1>6. TotalChange(changes, k) = SumFunctionOnSet(f, I)
    BY DEF TotalChange
  <1> HIDE DEF f, I
  <1> QED
    BY <1>3, <1>5, <1>6, SumType

\* What a call of the manager may make of whitelist w of account a: limits are
\* limits, and the account itself gets none.
Managed(a, w, v) ==
    /\ v \in Whitelists
    /\ \A k \in Keys : k[1] = a /\ w[k] = None => v[k] = None

\* add_to_whitelist gives the entries their limits and refuses the contract itself.
LEMMA AddManaged ==
    ASSUME NEW a, NEW w \in Whitelists, NEW entries \in EntryLists,
           NEW v, v = add_to_whitelist(a, w, entries), v # None
    PROVE  Managed(a, w, v)
  <1>1. /\ NotSelf(a, entries)
        /\ v = [k \in DOMAIN w |-> IF k \in KeysOf(entries) THEN LastLimit(entries, k) ELSE w[k]]
    BY DEF add_to_whitelist, Update
  <1>2. v \in Whitelists
    BY <1>1, LastLimitType DEF Whitelists
  <1>3. ASSUME NEW k \in Keys, k[1] = a PROVE v[k] = w[k]
    <2>1. k \notin KeysOf(entries)
      BY <1>1, <1>3 DEF KeysOf, Key, NotSelf
    <2> QED
      BY <2>1, <1>1 DEF Whitelists
  <1> QED
    BY <1>2, <1>3 DEF Managed

\* remove_from_whitelist takes entries away.
LEMMA RemoveManaged ==
    ASSUME NEW a, NEW w \in Whitelists, NEW keys,
           NEW v, v = remove_from_whitelist(w, keys), v # None
    PROVE  Managed(a, w, v)
  <1>1. v = [k \in DOMAIN w |-> IF k \in KeysOf(keys) THEN None ELSE w[k]]
    BY DEF remove_from_whitelist, Update
  <1> QED
    BY <1>1 DEF Managed, Whitelists

\* set_limit replaces the limits of existing entries.
LEMMA SetManaged ==
    ASSUME NEW a, NEW w \in Whitelists, NEW entries \in EntryLists,
           NEW v, v = set_limit(w, entries), v # None
    PROVE  Managed(a, w, v)
  <1>1. /\ AllPresent(w, entries)
        /\ v = [k \in DOMAIN w |-> IF k \in KeysOf(entries) THEN LastLimit(entries, k) ELSE w[k]]
    BY DEF set_limit, Update
  <1>2. v \in Whitelists
    BY <1>1, LastLimitType DEF Whitelists
  <1>3. \A k \in Keys : w[k] = None => v[k] = None
    BY <1>1 DEF AllPresent, Whitelists
  <1> QED
    BY <1>2, <1>3 DEF Managed

\* increase_limit stays within u128 and refuses the contract itself.
LEMMA IncreaseManaged ==
    ASSUME NEW a, NEW w \in Whitelists, NEW changes \in ChangeLists,
           NEW v, v = increase_limit(a, w, changes), v # None
    PROVE  Managed(a, w, v)
  <1>1. /\ NotSelf(a, changes)
        /\ \A k \in KeysOf(changes) : Limit(w, k) + TotalChange(changes, k) <= U128_MAX
        /\ v = [k \in DOMAIN w |-> IF k \in KeysOf(changes) THEN Limit(w, k) + TotalChange(changes, k)
                                   ELSE w[k]]
    BY DEF increase_limit, Update
  <1>2. ASSUME NEW k \in Keys PROVE v[k] \in (0 .. U128_MAX) \cup {None}
    <2>1. Limit(w, k) \in Nat /\ TotalChange(changes, k) \in Nat /\ U128_MAX \in Nat
      BY U128Assumption, TotalChangeType DEF Limit, Whitelists
    <2>2. v[k] = IF k \in KeysOf(changes) THEN Limit(w, k) + TotalChange(changes, k) ELSE w[k]
      BY <1>1 DEF Whitelists
    <2> QED
      BY <2>1, <2>2, <1>1 DEF Whitelists
  <1>3. v \in Whitelists
    BY <1>1, <1>2 DEF Whitelists
  <1>4. ASSUME NEW k \in Keys, k[1] = a PROVE v[k] = w[k]
    <2>1. k \notin KeysOf(changes)
      BY <1>1, <1>4 DEF KeysOf, Key, NotSelf
    <2> QED
      BY <2>1, <1>1 DEF Whitelists
  <1> QED
    BY <1>3, <1>4 DEF Managed

\* decrease_limit stops at zero and creates nothing.
LEMMA DecreaseManaged ==
    ASSUME NEW a, NEW w \in Whitelists, NEW changes \in ChangeLists,
           NEW v, v = decrease_limit(w, changes), v # None
    PROVE  Managed(a, w, v)
  <1>1. /\ AllPresent(w, changes)
        /\ v = [k \in DOMAIN w |-> IF k \in KeysOf(changes)
                                   THEN IF w[k] < TotalChange(changes, k) THEN 0
                                        ELSE w[k] - TotalChange(changes, k)
                                   ELSE w[k]]
    BY DEF decrease_limit, Update
  <1>2. ASSUME NEW k \in Keys PROVE v[k] \in (0 .. U128_MAX) \cup {None}
    <2>1. TotalChange(changes, k) \in Nat /\ U128_MAX \in Nat
      BY U128Assumption, TotalChangeType
    <2>2. k \in KeysOf(changes) => w[k] \in 0 .. U128_MAX
      BY <1>1 DEF AllPresent, Whitelists
    <2>3. v[k] = IF k \in KeysOf(changes)
                 THEN IF w[k] < TotalChange(changes, k) THEN 0 ELSE w[k] - TotalChange(changes, k)
                 ELSE w[k]
      BY <1>1 DEF Whitelists
    <2> QED
      BY <2>1, <2>2, <2>3 DEF Whitelists
  <1>3. v \in Whitelists
    BY <1>1, <1>2 DEF Whitelists
  <1>4. \A k \in Keys : w[k] = None => v[k] = None
    BY <1>1 DEF AllPresent, Whitelists
  <1> QED
    BY <1>3, <1>4 DEF Managed

-----------------------------------------------------------------------------
(* Sums over transfers *)

\* The sum over those elements of T that are in P, and a summand of it.
SumIn(f, T, P) == SumFunctionOnSet(f, T \cap P)
If(P, z, n) == IF z \in P THEN n ELSE 0

\* Sums of natural numbers over finite sets are natural numbers.
LEMMA SumInType ==
    ASSUME NEW f, NEW T, IsFiniteSet(T), NEW P, \A y \in T : f[y] \in Int
    PROVE  SumIn(f, T, P) \in Int
  <1> DEFINE S == T \cap P
  <1>1. IsFiniteSet(S) /\ \A y \in S : f[y] \in Int
    BY FS_Subset
  <1> HIDE DEF S
  <1>2. SumFunctionOnSet(f, S) \in Int
    BY <1>1, SumType
  <1> QED
    BY <1>2 DEF S, SumIn

\* An element is added.
LEMMA SumInsertIn ==
    ASSUME NEW f, NEW T, IsFiniteSet(T), NEW P, NEW z, z \notin T,
           \A y \in T : f[y] \in Int, f[z] \in Int,
           NEW V, V = T \cup {z}
    PROVE  SumIn(f, V, P) = SumIn(f, T, P) + If(P, z, f[z])
  <1> DEFINE S == T \cap P
             S2 == V \cap P
  <1>1. IsFiniteSet(S) /\ \A y \in S : f[y] \in Int
    BY FS_Subset
  <1>2. SumFunctionOnSet(f, S) \in Int
    <2> HIDE DEF S
    <2> QED
      BY <1>1, SumType
  <1>3. z \in P => S2 = S \cup {z} /\ z \notin S
    OBVIOUS
  <1>4. z \notin P => S2 = S
    OBVIOUS
  <1> SUFFICES SumFunctionOnSet(f, S2) = SumFunctionOnSet(f, S) + If(P, z, f[z])
    BY DEF SumIn
  <1> HIDE DEF S, S2
  <1>5. CASE z \in P
    <2>1. SumFunctionOnSet(f, S \cup {z}) = SumFunctionOnSet(f, S) + f[z]
      BY <1>1, <1>3, <1>5, SumInsert
    <2> QED
      BY <2>1, <1>3, <1>5 DEF If
  <1>6. CASE z \notin P
    BY <1>2, <1>4, <1>6 DEF If
  <1> QED
    BY <1>5, <1>6

\* An element is removed.
LEMMA SumRemoveIn ==
    ASSUME NEW f, NEW T, IsFiniteSet(T), NEW P, NEW x \in T, \A y \in T : f[y] \in Int,
           NEW V, V = T \ {x}
    PROVE  SumIn(f, V, P) = SumIn(f, T, P) - If(P, x, f[x])
  <1>1. IsFiniteSet(V) /\ x \notin V /\ T = V \cup {x} /\ \A y \in V : f[y] \in Int
    BY FS_Subset
  <1>2. f[x] \in Int /\ If(P, x, f[x]) \in Int
    BY DEF If
  <1>3. SumIn(f, T, P) = SumIn(f, V, P) + If(P, x, f[x])
    BY <1>1, <1>2, SumInsertIn
  <1>4. SumIn(f, V, P) \in Int
    BY <1>1, SumInType
  <1> QED
    BY <1>2, <1>3, <1>4

\* An element is replaced by another one.
LEMMA SumReplaceIn ==
    ASSUME NEW f, NEW T, IsFiniteSet(T), NEW P, NEW x \in T, NEW z, z \notin T,
           \A y \in T : f[y] \in Int, f[z] \in Int,
           NEW V, V = (T \ {x}) \cup {z}
    PROVE  SumIn(f, V, P) = SumIn(f, T, P) - If(P, x, f[x]) + If(P, z, f[z])
  <1>1. PICK R : R = T \ {x}
    OBVIOUS
  <1>2. SumIn(f, R, P) = SumIn(f, T, P) - If(P, x, f[x])
    BY <1>1, SumRemoveIn
  <1>3. IsFiniteSet(R) /\ z \notin R /\ V = R \cup {z} /\ \A y \in R : f[y] \in Int
    BY <1>1, FS_Subset
  <1>4. SumIn(f, V, P) = SumIn(f, R, P) + If(P, z, f[z])
    BY <1>3, SumInsertIn
  <1> QED
    BY <1>2, <1>4

Renamed(h, T) == {h[x] : x \in T}

\* The elements are renamed one to one, and each stays in P or out of it.
LEMMA SumImageIn ==
    ASSUME NEW f, NEW T, IsFiniteSet(T), NEW P, NEW h,
           \A x, y \in T : h[x] = h[y] => x = y,
           \A x \in T : f[x] \in Int /\ f[h[x]] = f[x] /\ (h[x] \in P <=> x \in P),
           NEW V, V = Renamed(h, T)
    PROVE  SumIn(f, V, P) = SumIn(f, T, P) /\ IsFiniteSet(V)
  <1>1. PICK S : S = T \cap P
    OBVIOUS
  <1>2. IsFiniteSet(S) /\ S \subseteq T
    BY <1>1, FS_Subset
  <1>3. V \cap P = {h[x] : x \in S}
    BY <1>1 DEF Renamed
  <1>4. SumFunctionOnSet(f, {h[x] : x \in S}) = SumFunctionOnSet(f, S)
    BY <1>2, SumImage
  <1>5. IsFiniteSet(V) /\ SumFunctionOnSet(f, {h[x] : x \in T}) = SumFunctionOnSet(f, T)
    BY SumImage DEF Renamed
  <1> QED
    BY <1>1, <1>3, <1>4, <1>5 DEF SumIn

Amount == [x \in Transfer |-> x.amount]
Attachment == [x \in Transfer |-> Attached(x.token_id, x.amount)]

\* Transfers that hold allowance of a for k, and that hold NEAR of a.
Holding(a, k) == {x \in Transfer : x.from = a /\ KeyOf(x) = k /\ x.result # "ok"}
Leaving(a) == {x \in Transfer : x.from = a /\ x.result = None}

Held(T, a, k) == SumIn(Amount, T, Holding(a, k))
NearOut(T, a) == SumIn(Attachment, T, Leaving(a))

\* What is summed over transfers are natural numbers.
LEMMA SummandTypes ==
    ASSUME NEW x \in Transfer
    PROVE  /\ Amount[x] = x.amount /\ Amount[x] \in Nat
           /\ Attachment[x] = Attached(x.token_id, x.amount) /\ Attachment[x] \in Nat
  BY U128Assumption DEF Amount, Attachment, Attached, ONE_YOCTO, Transfer

\* The sums of the model are these.
LEMMA HeldIs ==
    ASSUME NEW T \in SUBSET Transfer, IsFiniteSet(T), NEW a, NEW k,
           NEW R, R = {x \in T : x.from = a /\ KeyOf(x) = k /\ x.result # "ok"}
    PROVE  SumFunctionOnSet([x \in R |-> x.amount], R) = Held(T, a, k) /\ Held(T, a, k) \in Nat
  <1> DEFINE f == [x \in R |-> x.amount]
  <1>1. R = T \cap Holding(a, k) /\ R \subseteq Transfer
    BY DEF Holding
  <1>2. IsFiniteSet(R)
    BY <1>1, FS_Subset
  <1>3. \A x \in R : f[x] = Amount[x] /\ Amount[x] \in Int /\ Amount[x] >= 0
    BY <1>1, SummandTypes
  <1> HIDE DEF f
  <1>4. SumFunctionOnSet(f, R) = SumFunctionOnSet(Amount, R)
    BY <1>2, <1>3, SumEqual
  <1>5. SumFunctionOnSet(Amount, R) \in Nat
    BY <1>2, <1>3, SumType
  <1> QED
    BY <1>1, <1>4, <1>5 DEF f, Held, SumIn

\* NearUnderWay as a sum over all transfers.
LEMMA NearOutIs ==
    ASSUME NEW T \in SUBSET Transfer, IsFiniteSet(T), NEW a,
           NEW R, R = {x \in T : x.from = a /\ x.result = None}
    PROVE  /\ SumFunctionOnSet([x \in R |-> Attached(x.token_id, x.amount)], R) = NearOut(T, a)
           /\ NearOut(T, a) \in Nat
  <1> DEFINE f == [x \in R |-> Attached(x.token_id, x.amount)]
  <1>1. R = T \cap Leaving(a) /\ R \subseteq Transfer
    BY DEF Leaving
  <1>2. IsFiniteSet(R)
    BY <1>1, FS_Subset
  <1>3. \A x \in R : f[x] = Attachment[x] /\ Attachment[x] \in Int /\ Attachment[x] >= 0
    BY <1>1, SummandTypes
  <1> HIDE DEF f
  <1>4. SumFunctionOnSet(f, R) = SumFunctionOnSet(Attachment, R)
    BY <1>2, <1>3, SumEqual
  <1>5. SumFunctionOnSet(Attachment, R) \in Nat
    BY <1>2, <1>3, SumType
  <1> QED
    BY <1>1, <1>4, <1>5 DEF f, NearOut, SumIn

\* What one transfer holds.
HeldBy(z, a, k) == IF z.from = a /\ KeyOf(z) = k /\ z.result # "ok" THEN z.amount ELSE 0
NearBy(z, a) == IF z.from = a /\ z.result = None THEN Attached(z.token_id, z.amount) ELSE 0

\* What a single transfer adds to the sums.
LEMMA HeldByIs ==
    ASSUME NEW z \in Transfer, NEW a, NEW k
    PROVE  /\ HeldBy(z, a, k) = If(Holding(a, k), z, Amount[z]) /\ HeldBy(z, a, k) \in Nat
           /\ NearBy(z, a) = If(Leaving(a), z, Attachment[z]) /\ NearBy(z, a) \in Nat
  BY SummandTypes DEF HeldBy, NearBy, If, Holding, Leaving

\* The summands are integers.
LEMMA SetTypes ==
    ASSUME NEW T \in SUBSET Transfer
    PROVE  \A y \in T : Amount[y] \in Int /\ Attachment[y] \in Int
  BY SummandTypes

\* A transfer sent adds its summand.
LEMMA TransferAdded ==
    ASSUME NEW T \in SUBSET Transfer, IsFiniteSet(T), NEW z \in Transfer, z \notin T,
           NEW V, V = T \cup {z}, NEW a, NEW k
    PROVE  /\ Held(V, a, k) = Held(T, a, k) + HeldBy(z, a, k)
           /\ NearOut(V, a) = NearOut(T, a) + NearBy(z, a)
  <1>1. Amount[z] \in Int /\ Attachment[z] \in Int
    BY SummandTypes
  <1>2. SumIn(Amount, V, Holding(a, k)) = SumIn(Amount, T, Holding(a, k)) + If(Holding(a, k), z, Amount[z])
    BY <1>1, SetTypes, SumInsertIn
  <1>3. SumIn(Attachment, V, Leaving(a)) = SumIn(Attachment, T, Leaving(a)) + If(Leaving(a), z, Attachment[z])
    BY <1>1, SetTypes, SumInsertIn
  <1> QED
    BY <1>2, <1>3, HeldByIs DEF Held, NearOut

\* A transfer settled takes its summand away.
LEMMA TransferRemoved ==
    ASSUME NEW T \in SUBSET Transfer, IsFiniteSet(T), NEW x \in T,
           NEW V, V = T \ {x}, NEW a, NEW k
    PROVE  /\ Held(V, a, k) = Held(T, a, k) - HeldBy(x, a, k)
           /\ NearOut(V, a) = NearOut(T, a) - NearBy(x, a)
  <1>1. x \in Transfer
    OBVIOUS
  <1>2. SumIn(Amount, V, Holding(a, k)) = SumIn(Amount, T, Holding(a, k)) - If(Holding(a, k), x, Amount[x])
    BY SetTypes, SumRemoveIn
  <1>3. SumIn(Attachment, V, Leaving(a)) = SumIn(Attachment, T, Leaving(a)) - If(Leaving(a), x, Attachment[x])
    BY SetTypes, SumRemoveIn
  <1> QED
    BY <1>1, <1>2, <1>3, HeldByIs DEF Held, NearOut

\* A transfer with another result has another summand.
LEMMA TransferReplaced ==
    ASSUME NEW T \in SUBSET Transfer, IsFiniteSet(T), NEW x \in T, NEW z \in Transfer, z \notin T,
           NEW V, V = (T \ {x}) \cup {z}, NEW a, NEW k
    PROVE  /\ Held(V, a, k) = Held(T, a, k) - HeldBy(x, a, k) + HeldBy(z, a, k)
           /\ NearOut(V, a) = NearOut(T, a) - NearBy(x, a) + NearBy(z, a)
  <1>1. x \in Transfer /\ Amount[z] \in Int /\ Attachment[z] \in Int
    BY SummandTypes
  <1>2. SumIn(Amount, V, Holding(a, k))
          = SumIn(Amount, T, Holding(a, k)) - If(Holding(a, k), x, Amount[x]) + If(Holding(a, k), z, Amount[z])
    BY <1>1, SetTypes, SumReplaceIn
  <1>3. SumIn(Attachment, V, Leaving(a))
          = SumIn(Attachment, T, Leaving(a)) - If(Leaving(a), x, Attachment[x]) + If(Leaving(a), z, Attachment[z])
    BY <1>1, SetTypes, SumReplaceIn
  <1> QED
    BY <1>1, <1>2, <1>3, HeldByIs DEF Held, NearOut

\* z is x but for its orphan mark.
Marked(z, x) ==
    /\ z \in Transfer
    /\ z.nonce = x.nonce /\ z.from = x.from /\ z.receiver_id = x.receiver_id
    /\ z.token_id = x.token_id /\ z.amount = x.amount /\ z.result = x.result

\* A call of the manager marks orphans and nothing else.
LEMMA TransfersMarked ==
    ASSUME NEW T \in SUBSET Transfer, IsFiniteSet(T), \A x, y \in T : x.nonce = y.nonce => x = y,
           NEW h, \A x \in T : Marked(h[x], x), NEW V, V = Renamed(h, T), NEW a, NEW k
    PROVE  IsFiniteSet(V) /\ Held(V, a, k) = Held(T, a, k) /\ NearOut(V, a) = NearOut(T, a)
  <1>1. \A x, y \in T : h[x] = h[y] => x = y
    BY DEF Marked
  <1>2. ASSUME NEW x \in T
        PROVE  /\ Amount[x] \in Int /\ Amount[h[x]] = Amount[x]
               /\ Attachment[x] \in Int /\ Attachment[h[x]] = Attachment[x]
               /\ h[x] \in Holding(a, k) <=> x \in Holding(a, k)
               /\ h[x] \in Leaving(a) <=> x \in Leaving(a)
    <2>1. x \in Transfer /\ h[x] \in Transfer
      BY DEF Marked
    <2>2. Amount[h[x]] = Amount[x] /\ Attachment[h[x]] = Attachment[x]
      BY <2>1, SummandTypes DEF Marked
    <2>3. KeyOf(h[x]) = KeyOf(x)
      BY DEF KeyOf, Marked
    <2> QED
      BY <2>1, <2>2, <2>3, SummandTypes DEF Holding, Leaving, Marked
  <1>3. \A x \in T : /\ Amount[x] \in Int /\ Amount[h[x]] = Amount[x]
                      /\ (h[x] \in Holding(a, k) <=> x \in Holding(a, k))
    BY <1>2
  <1>4. \A x \in T : /\ Attachment[x] \in Int /\ Attachment[h[x]] = Attachment[x]
                      /\ (h[x] \in Leaving(a) <=> x \in Leaving(a))
    BY <1>2
  <1>5. SumIn(Amount, V, Holding(a, k)) = SumIn(Amount, T, Holding(a, k)) /\ IsFiniteSet(V)
    <2>1. PICK P : P = Holding(a, k)
      OBVIOUS
    <2>2. \A x \in T : Amount[x] \in Int /\ Amount[h[x]] = Amount[x] /\ (h[x] \in P <=> x \in P)
      BY <1>3, <2>1
    <2>3. SumIn(Amount, V, P) = SumIn(Amount, T, P)
      BY <1>1, <2>2, SumImageIn
    <2>4. IsFiniteSet(V)
      BY <1>1, <2>2, SumImageIn
    <2> QED
      BY <2>1, <2>3, <2>4
  <1>6. SumIn(Attachment, V, Leaving(a)) = SumIn(Attachment, T, Leaving(a))
    BY <1>1, <1>4, SumImageIn
  <1> QED
    BY <1>5, <1>6 DEF Held, NearOut

-----------------------------------------------------------------------------
(* What each step does to the transfers *)

\* A transfer is known by its nonce, and nonces are not used again.
Registered ==
    /\ IsFiniteSet(transfers)
    /\ \A x \in transfers : x.nonce < sent
    /\ \A x, y \in transfers : x.nonce = y.nonce => x = y

\* The sums of the model, before a step and after it.
LEMMA Sums ==
    ASSUME TypeOK, Registered, NEW a, NEW k
    PROVE  /\ InFlight(a, k) = Held(transfers, a, k) /\ InFlight(a, k) \in Nat
           /\ NearUnderWay(a) = NearOut(transfers, a) /\ NearUnderWay(a) \in Nat
  <1>1. transfers \in SUBSET Transfer /\ IsFiniteSet(transfers)
    BY DEF TypeOK, Registered
  <1>2. PICK R : R = {x \in transfers : x.from = a /\ KeyOf(x) = k /\ x.result # "ok"}
    OBVIOUS
  <1>3. SumFunctionOnSet([x \in R |-> x.amount], R) = Held(transfers, a, k) /\ Held(transfers, a, k) \in Nat
    BY <1>1, <1>2, HeldIs
  <1>4. InFlight(a, k) = SumFunctionOnSet([x \in R |-> x.amount], R)
    BY <1>2 DEF InFlight, Reserving
  <1>5. PICK U : U = {x \in transfers : x.from = a /\ x.result = None}
    OBVIOUS
  <1>6. /\ SumFunctionOnSet([x \in U |-> Attached(x.token_id, x.amount)], U) = NearOut(transfers, a)
        /\ NearOut(transfers, a) \in Nat
    BY <1>1, <1>5, NearOutIs
  <1>7. NearUnderWay(a) = SumFunctionOnSet([x \in U |-> Attached(x.token_id, x.amount)], U)
    BY <1>5 DEF NearUnderWay, UnderWay
  <1> QED
    BY <1>3, <1>4, <1>6, <1>7

\* The sums after a step, from the transfers after it.
LEMMA SumsNext ==
    ASSUME transfers' \subseteq Transfer, IsFiniteSet(transfers'), NEW CONSTANT a, NEW CONSTANT k
    PROVE  /\ InFlight(a, k)' = Held(transfers', a, k) /\ InFlight(a, k)' \in Nat
           /\ NearUnderWay(a)' = NearOut(transfers', a) /\ NearUnderWay(a)' \in Nat
  <1>1. transfers' \in SUBSET Transfer
    OBVIOUS
  <1>2. PICK R : R = {x \in transfers' : x.from = a /\ KeyOf(x) = k /\ x.result # "ok"}
    OBVIOUS
  <1>3. SumFunctionOnSet([x \in R |-> x.amount], R) = Held(transfers', a, k) /\ Held(transfers', a, k) \in Nat
    BY <1>1, <1>2, HeldIs
  <1>4. InFlight(a, k)' = SumFunctionOnSet([x \in R |-> x.amount], R)
    BY <1>2 DEF InFlight, Reserving
  <1>5. PICK U : U = {x \in transfers' : x.from = a /\ x.result = None}
    OBVIOUS
  <1>6. /\ SumFunctionOnSet([x \in U |-> Attached(x.token_id, x.amount)], U) = NearOut(transfers', a)
        /\ NearOut(transfers', a) \in Nat
    BY <1>1, <1>5, NearOutIs
  <1>7. NearUnderWay(a)' = SumFunctionOnSet([x \in U |-> Attached(x.token_id, x.amount)], U)
    BY <1>5 DEF NearUnderWay, UnderWay
  <1> QED
    BY <1>3, <1>4, <1>6, <1>7

\* The receipt and the callback of a transfer change its result at most.
LEMMA ReplaceEffect ==
    ASSUME TypeOK, Registered, NEW x \in transfers, NEW z \in Transfer,
           z.nonce = x.nonce, z.from = x.from, z.receiver_id = x.receiver_id, z.token_id = x.token_id,
           z.amount = x.amount, x.result = None, z.result # None,
           transfers' = (transfers \ {x}) \cup {z}, sent' = sent
    PROVE  /\ transfers' \subseteq Transfer /\ Registered'
           /\ \A b, k : InFlight(b, k)' = InFlight(b, k) - HeldBy(x, b, k) + HeldBy(z, b, k)
           /\ \A b : NearUnderWay(b)' = NearUnderWay(b) - NearBy(x, b)
  <1>1. transfers \in SUBSET Transfer /\ IsFiniteSet(transfers) /\ x \in Transfer
    BY DEF TypeOK, Registered
  <1>2. z \notin transfers
    BY DEF Registered
  <1>3. transfers' \subseteq Transfer
    BY <1>1
  <1>4. IsFiniteSet(transfers')
    <2>1. IsFiniteSet(transfers \ {x})
      BY <1>1, FS_Subset
    <2> QED
      BY <2>1, FS_AddElement
  <1>5. Registered'
    BY <1>4 DEF Registered
  <1>6. ASSUME NEW CONSTANT b, NEW CONSTANT k
        PROVE  /\ InFlight(b, k)' = InFlight(b, k) - HeldBy(x, b, k) + HeldBy(z, b, k)
               /\ NearUnderWay(b)' = NearUnderWay(b) - NearBy(x, b)
    <2>1. /\ Held(transfers', b, k) = Held(transfers, b, k) - HeldBy(x, b, k) + HeldBy(z, b, k)
          /\ NearOut(transfers', b) = NearOut(transfers, b) - NearBy(x, b) + NearBy(z, b)
      BY <1>1, <1>2, TransferReplaced
    <2>2. NearBy(z, b) = 0
      BY DEF NearBy
    <2>3. /\ InFlight(b, k) = Held(transfers, b, k)
          /\ NearUnderWay(b) = NearOut(transfers, b) /\ NearUnderWay(b) \in Nat
      BY Sums
    <2>4. /\ InFlight(b, k)' = Held(transfers', b, k)
          /\ NearUnderWay(b)' = NearOut(transfers', b)
      BY <1>3, <1>4, SumsNext
    <2>5. NearBy(x, b) \in Nat
      BY <1>1, HeldByIs
    <2> QED
      BY <2>1, <2>2, <2>3, <2>4, <2>5
  <1> QED
    BY <1>3, <1>5, <1>6

\* What the success of a receipt does to the variables.
LEMMA SucceedsEffect ==
    ASSUME TypeOK, Registered, NEW x \in transfers, Succeeds(x)
    PROVE  /\ transfers' \subseteq Transfer /\ Registered'
           /\ \A b, k : InFlight(b, k)' = InFlight(b, k) - HeldBy(x, b, k)
           /\ \A b : NearUnderWay(b)' = NearUnderWay(b) - NearBy(x, b)
  <1>1. PICK z : z = [x EXCEPT !.result = "ok"]
    OBVIOUS
  <1>2. x \in Transfer
    BY DEF TypeOK
  <1>3. /\ z \in Transfer /\ z.nonce = x.nonce /\ z.from = x.from /\ z.receiver_id = x.receiver_id
        /\ z.token_id = x.token_id /\ z.amount = x.amount /\ z.result = "ok"
    BY <1>1, <1>2 DEF Transfer
  <1>4. /\ x.result = None /\ z.result # None
        /\ transfers' = (transfers \ {x}) \cup {z} /\ sent' = sent
    <2>1. None # "ok"
      BY ResultAssumption
    <2> QED
      BY <1>1, <1>3, <2>1 DEF Succeeds
  <1>5. /\ transfers' \subseteq Transfer /\ Registered'
        /\ \A b, k : InFlight(b, k)' = InFlight(b, k) - HeldBy(x, b, k) + HeldBy(z, b, k)
        /\ \A b : NearUnderWay(b)' = NearUnderWay(b) - NearBy(x, b)
    BY <1>3, <1>4, ReplaceEffect
  <1>6. ASSUME NEW b, NEW k PROVE InFlight(b, k)' = InFlight(b, k) - HeldBy(x, b, k)
    <2>1. HeldBy(z, b, k) = 0
      BY <1>3 DEF HeldBy
    <2>2. InFlight(b, k) \in Nat /\ HeldBy(x, b, k) \in Nat
      BY <1>2, Sums, HeldByIs
    <2> QED
      BY <1>5, <2>1, <2>2
  <1> QED
    BY <1>5, <1>6

\* What the failure of a receipt does to the variables.
LEMMA FailsEffect ==
    ASSUME TypeOK, Registered, NEW x \in transfers, Fails(x)
    PROVE  /\ transfers' \subseteq Transfer /\ Registered'
           /\ \A b, k : InFlight(b, k)' = InFlight(b, k)
           /\ \A b : NearUnderWay(b)' = NearUnderWay(b) - NearBy(x, b)
  <1>1. PICK z : z = [x EXCEPT !.result = "failed"]
    OBVIOUS
  <1>2. x \in Transfer
    BY DEF TypeOK
  <1>3. /\ z \in Transfer /\ z.nonce = x.nonce /\ z.from = x.from /\ z.receiver_id = x.receiver_id
        /\ z.token_id = x.token_id /\ z.amount = x.amount /\ z.result = "failed"
    BY <1>1, <1>2 DEF Transfer
  <1>4. /\ x.result = None /\ z.result # None
        /\ transfers' = (transfers \ {x}) \cup {z} /\ sent' = sent
    <2>1. None # "failed"
      BY ResultAssumption
    <2> QED
      BY <1>1, <1>3, <2>1 DEF Fails
  <1>5. /\ transfers' \subseteq Transfer /\ Registered'
        /\ \A b, k : InFlight(b, k)' = InFlight(b, k) - HeldBy(x, b, k) + HeldBy(z, b, k)
        /\ \A b : NearUnderWay(b)' = NearUnderWay(b) - NearBy(x, b)
    BY <1>3, <1>4, ReplaceEffect
  <1>6. ASSUME NEW b, NEW k PROVE InFlight(b, k)' = InFlight(b, k)
    <2>1. KeyOf(z) = KeyOf(x) /\ "ok" # "failed" /\ None # "ok"
      BY <1>3, ResultAssumption DEF KeyOf
    <2>2. HeldBy(z, b, k) = HeldBy(x, b, k)
      BY <1>3, <1>4, <2>1 DEF HeldBy
    <2>3. InFlight(b, k) \in Nat /\ HeldBy(x, b, k) \in Nat
      BY <1>2, Sums, HeldByIs
    <2> QED
      BY <1>5, <2>2, <2>3
  <1> QED
    BY <1>5, <1>6

\* What on_transfer and on_transfer_ft do to the variables.
LEMMA OnTransferEffect ==
    ASSUME TypeOK, Registered, NEW x \in transfers, OnTransfer(x)
    PROVE  /\ transfers' \subseteq Transfer /\ Registered'
           /\ \A b, k : InFlight(b, k)' = InFlight(b, k) - HeldBy(x, b, k)
           /\ \A b : NearUnderWay(b)' = NearUnderWay(b)
  <1>1. transfers \in SUBSET Transfer /\ IsFiniteSet(transfers) /\ x \in Transfer
    BY DEF TypeOK, Registered
  <1>2. x.result # None /\ transfers' = transfers \ {x} /\ sent' = sent
    BY DEF OnTransfer
  <1>3. transfers' \subseteq Transfer
    BY <1>1, <1>2
  <1>4. IsFiniteSet(transfers')
    BY <1>1, <1>2, FS_Subset
  <1>5. Registered'
    BY <1>2, <1>4 DEF Registered
  <1>6. ASSUME NEW CONSTANT b, NEW CONSTANT k
        PROVE  /\ InFlight(b, k)' = InFlight(b, k) - HeldBy(x, b, k)
               /\ NearUnderWay(b)' = NearUnderWay(b)
    <2>1. /\ Held(transfers', b, k) = Held(transfers, b, k) - HeldBy(x, b, k)
          /\ NearOut(transfers', b) = NearOut(transfers, b) - NearBy(x, b)
      BY <1>1, <1>2, TransferRemoved
    <2>2. NearBy(x, b) = 0
      BY <1>2 DEF NearBy
    <2>3. /\ InFlight(b, k) = Held(transfers, b, k)
          /\ NearUnderWay(b) = NearOut(transfers, b) /\ NearUnderWay(b) \in Nat
      BY Sums
    <2>4. /\ InFlight(b, k)' = Held(transfers', b, k)
          /\ NearUnderWay(b)' = NearOut(transfers', b)
      BY <1>3, <1>4, SumsNext
    <2> QED
      BY <2>1, <2>2, <2>3, <2>4
  <1> QED
    BY <1>3, <1>5, <1>6

\* What transfer and transfer_ft do to the variables.
LEMMA SendEffect ==
    ASSUME TypeOK, Registered, NEW a \in SpendingAccounts, NEW caller, NEW r \in Recipients,
           NEW t \in Assets, NEW n \in Amounts, Send(a, caller, r, t, n)
    PROVE  /\ transfers' \subseteq Transfer /\ Registered'
           /\ \A b, k : InFlight(b, k)' = InFlight(b, k) + IF a = b /\ <<r, t>> = k THEN n ELSE 0
           /\ \A b : NearUnderWay(b)' = NearUnderWay(b) + IF a = b THEN Attached(t, n) ELSE 0
  <1>1. PICK z : z = [nonce |-> sent, from |-> a, receiver_id |-> r, token_id |-> t,
                      amount |-> n, result |-> None, orphan |-> FALSE]
    OBVIOUS
  <1>2. transfers' = transfers \cup {z} /\ sent' = sent + 1 /\ n > 0
    BY <1>1 DEF Send, AmountSent
  <1>3. /\ z \in Transfer /\ z.nonce = sent /\ z.from = a /\ z.receiver_id = r /\ z.token_id = t
        /\ z.amount = n /\ z.result = None
    <2>1. sent \in Nat /\ n \in 1 .. U128_MAX
      BY <1>2, AmountAssumption, U128Assumption DEF TypeOK
    <2> QED
      BY <1>1, <2>1 DEF Transfer
  <1>4. transfers \in SUBSET Transfer /\ IsFiniteSet(transfers) /\ sent \in Nat
    BY DEF TypeOK, Registered
  <1>5. z \notin transfers
    BY <1>3, <1>4 DEF Registered
  <1>6. transfers' \subseteq Transfer
    BY <1>2, <1>3, <1>4
  <1>7. IsFiniteSet(transfers')
    BY <1>2, <1>4, FS_AddElement
  <1>8. Registered'
    <2>1. \A x \in transfers : x.nonce \in Nat
      BY <1>4 DEF Transfer
    <2>2. \A x \in transfers' : x.nonce < sent'
      BY <1>2, <1>3, <1>4, <2>1 DEF Registered
    <2>3. \A x, y \in transfers' : x.nonce = y.nonce => x = y
      BY <1>2, <1>3, <1>4, <2>1 DEF Registered
    <2> QED
      BY <1>7, <2>2, <2>3 DEF Registered
  <1>9. ASSUME NEW CONSTANT b, NEW CONSTANT k
        PROVE  /\ InFlight(b, k)' = InFlight(b, k) + IF a = b /\ <<r, t>> = k THEN n ELSE 0
               /\ NearUnderWay(b)' = NearUnderWay(b) + IF a = b THEN Attached(t, n) ELSE 0
    <2>1. /\ Held(transfers', b, k) = Held(transfers, b, k) + HeldBy(z, b, k)
          /\ NearOut(transfers', b) = NearOut(transfers, b) + NearBy(z, b)
      BY <1>2, <1>3, <1>4, <1>5, TransferAdded
    <2>2. HeldBy(z, b, k) = IF a = b /\ <<r, t>> = k THEN n ELSE 0
      <3>1. KeyOf(z) = <<r, t>> /\ z.result # "ok"
        BY <1>3, ResultAssumption DEF KeyOf
      <3> QED
        BY <1>3, <3>1 DEF HeldBy
    <2>3. NearBy(z, b) = IF a = b THEN Attached(t, n) ELSE 0
      BY <1>3 DEF NearBy
    <2>4. /\ InFlight(b, k) = Held(transfers, b, k)
          /\ NearUnderWay(b) = NearOut(transfers, b)
      BY Sums
    <2>5. /\ InFlight(b, k)' = Held(transfers', b, k)
          /\ NearUnderWay(b)' = NearOut(transfers', b)
      BY <1>6, <1>7, SumsNext
    <2> QED
      BY <2>1, <2>2, <2>3, <2>4, <2>5
  <1> QED
    BY <1>6, <1>8, <1>9

\* What the manager's methods do to the variables.
LEMMA ManageEffect ==
    ASSUME TypeOK, Registered, NEW a, NEW caller, NEW w, Manage(a, caller, w)
    PROVE  /\ transfers' \subseteq Transfer /\ Registered'
           /\ \A b, k : InFlight(b, k)' = InFlight(b, k)
           /\ \A b : NearUnderWay(b)' = NearUnderWay(b)
  <1> DEFINE Mark(x) == [x EXCEPT !.orphan = @ \/ (x.from = a /\ w[KeyOf(x)] = None)]
  <1>1. PICK h : h = [x \in transfers |-> Mark(x)]
    OBVIOUS
  <1>2. transfers \in SUBSET Transfer /\ IsFiniteSet(transfers)
    BY DEF TypeOK, Registered
  <1>3. transfers' = {h[x] : x \in transfers} /\ sent' = sent
    BY <1>1 DEF Manage
  <1>4. ASSUME NEW x \in transfers
        PROVE  Marked(h[x], x)
    <2>1. x \in Transfer
      BY <1>2
    <2>2. h[x] = [x EXCEPT !.orphan = x.orphan \/ (x.from = a /\ w[KeyOf(x)] = None)]
      BY <1>1, <2>1 DEF Transfer
    <2>3. (x.orphan \/ (x.from = a /\ w[KeyOf(x)] = None)) \in BOOLEAN
      OBVIOUS
    <2> QED
      BY <2>1, <2>2, <2>3 DEF Transfer, Marked
  <1>5. \A x \in transfers : Marked(h[x], x)
    BY <1>4
  <1>6. transfers' \subseteq Transfer
    BY <1>3, <1>5 DEF Marked
  <1>7. ASSUME NEW b, NEW k
        PROVE  /\ IsFiniteSet(transfers') /\ Held(transfers', b, k) = Held(transfers, b, k)
               /\ NearOut(transfers', b) = NearOut(transfers, b)
    <2>1. \A x, y \in transfers : x.nonce = y.nonce => x = y
      BY DEF Registered
    <2>2. PICK V : V = transfers'
      OBVIOUS
    <2>3. V = Renamed(h, transfers)
      BY <1>3, <2>2 DEF Renamed
    <2>4. /\ IsFiniteSet(V) /\ Held(V, b, k) = Held(transfers, b, k)
          /\ NearOut(V, b) = NearOut(transfers, b)
      BY <1>2, <1>5, <2>1, <2>3, TransfersMarked
    <2> QED
      BY <2>2, <2>4
  <1>8. Registered'
    <2>1. \A x \in transfers' : x.nonce < sent'
      BY <1>3, <1>5 DEF Registered, Marked
    <2>2. \A x, y \in transfers' : x.nonce = y.nonce => x = y
      BY <1>3, <1>5 DEF Registered, Marked
    <2> QED
      BY <1>7, <2>1, <2>2 DEF Registered
  <1>9. ASSUME NEW CONSTANT b, NEW CONSTANT k
        PROVE  InFlight(b, k)' = InFlight(b, k) /\ NearUnderWay(b)' = NearUnderWay(b)
    <2>1. InFlight(b, k) = Held(transfers, b, k) /\ NearUnderWay(b) = NearOut(transfers, b)
      BY Sums
    <2>2. InFlight(b, k)' = Held(transfers', b, k) /\ NearUnderWay(b)' = NearOut(transfers', b)
      BY <1>6, <1>7, SumsNext
    <2> QED
      BY <1>7, <2>1, <2>2
  <1> QED
    BY <1>6, <1>8, <1>9

-----------------------------------------------------------------------------
(* The inductive invariant *)

SpendingInv ==
    /\ TypeOK
    /\ Registered
    /\ SelfNotWhitelisted
    /\ AllowanceConserved
    /\ EventsTellPayments
    /\ FundsAccounted

\* The sums of payments depend on nothing but paid.
LEMMA PaymentsUnchanged ==
    ASSUME paid' = paid
    PROVE  \A b, c : PaidOut(b, c)' = PaidOut(b, c) /\ PaidTo(b, c)' = PaidTo(b, c)
  BY DEF PaidOut, PaidTo

\* Sums of payments are natural numbers.
LEMMA PaymentTypes ==
    ASSUME TypeOK, NEW b \in SpendingAccounts, NEW r, NEW c \in Assets
    PROVE  /\ IsFiniteSet(Keys) /\ PaidOut(b, c) \in Nat
           /\ r \in Recipients => PaidTo(r, c) \in Nat
  <1>1. IsFiniteSet(Assets)
    <2>1. IsFiniteSet(Tokens)
      BY FiniteAssumption
    <2> QED
      BY <2>1, FS_AddElement DEF Assets
  <1>2. IsFiniteSet(Keys)
    BY <1>1, FiniteAssumption, FS_Product DEF Keys
  <1>3. paid \in [SpendingAccounts -> [Keys -> Nat]]
    BY DEF TypeOK
  <1>4. PaidOut(b, c) \in Nat
    <2>1. PICK S : S = {k \in Keys : k[2] = c}
      OBVIOUS
    <2>2. IsFiniteSet(S) /\ S \subseteq Keys
      BY <1>2, <2>1, FS_Subset
    <2>3. PICK f : f = paid[b]
      OBVIOUS
    <2>4. \A k \in S : f[k] \in Int /\ f[k] >= 0
      BY <1>3, <2>2, <2>3
    <2>5. SumFunctionOnSet(f, S) \in Nat
      BY <2>2, <2>4, SumType
    <2> QED
      BY <2>1, <2>3, <2>5 DEF PaidOut
  <1>5. ASSUME r \in Recipients PROVE PaidTo(r, c) \in Nat
    <2>1. PICK f : f = [a \in SpendingAccounts |-> paid[a][<<r, c>>]]
      OBVIOUS
    <2>2. <<r, c>> \in Keys
      BY <1>5 DEF Keys
    <2>3. \A a \in SpendingAccounts : f[a] \in Int /\ f[a] >= 0
      BY <1>3, <2>1, <2>2
    <2>4. SumFunctionOnSet(f, SpendingAccounts) \in Nat
      BY <2>3, FiniteAssumption, SumType
    <2> QED
      BY <2>1, <2>4 DEF PaidTo
  <1> QED
    BY <1>2, <1>4, <1>5

\* A payment of n by s to r in asset t.
Pays(s, r, t, n) == paid' = [paid EXCEPT ![s][<<r, t>>] = @ + n]

\* A payment adds its amount to the sums of its asset and of its receiver.
LEMMA PaymentMade ==
    ASSUME TypeOK, NEW s \in SpendingAccounts, NEW r \in Recipients, NEW t \in Assets, NEW n \in Nat,
           Pays(s, r, t, n)
    PROVE  \A b \in SpendingAccounts, c \in Assets :
             /\ PaidOut(b, c)' = PaidOut(b, c) + IF b = s /\ c = t THEN n ELSE 0
             /\ b \in Recipients => PaidTo(b, c)' = PaidTo(b, c) + IF b = r /\ c = t THEN n ELSE 0
  <1> TAKE b \in SpendingAccounts, c \in Assets
  <1>1. paid \in [SpendingAccounts -> [Keys -> Nat]] /\ <<r, t>> \in Keys
    BY DEF TypeOK, Keys
  <1>2. \A a \in SpendingAccounts, k \in Keys :
           /\ paid[a][k] \in Nat
           /\ paid'[a][k] = IF a = s /\ k = <<r, t>> THEN paid[a][k] + n ELSE paid[a][k]
    BY <1>1 DEF Pays
  <1>3. IsFiniteSet(Keys) /\ PaidOut(b, c) \in Nat /\ (b \in Recipients => PaidTo(b, c) \in Nat)
    BY PaymentTypes
  <1>4. PaidOut(b, c)' = PaidOut(b, c) + IF b = s /\ c = t THEN n ELSE 0
    <2>1. PICK S : S = {k \in Keys : k[2] = c}
      OBVIOUS
    <2>2. IsFiniteSet(S) /\ S \subseteq Keys
      BY <1>3, <2>1, FS_Subset
    <2>3. PICK f : f = paid[b]
      OBVIOUS
    <2>4. PICK g : g = paid'[b]
      OBVIOUS
    <2>5. PaidOut(b, c) = SumFunctionOnSet(f, S) /\ PaidOut(b, c)' = SumFunctionOnSet(g, S)
      BY <2>1, <2>3, <2>4 DEF PaidOut
    <2>6. \A k \in S : f[k] \in Int /\ g[k] \in Int
      BY <1>2, <2>2, <2>3, <2>4
    <2>7. CASE b = s /\ c = t
      <3>1. <<r, t>> \in S
        BY <1>1, <2>1, <2>7
      <3>2. \A k \in S \ {<<r, t>>} : g[k] = f[k]
        BY <1>2, <2>2, <2>3, <2>4
      <3>3. PICK p : p = <<r, t>>
        OBVIOUS
      <3>4. SumFunctionOnSet(g, S) = SumFunctionOnSet(f, S) - f[p] + g[p]
        BY <2>2, <2>6, <3>1, <3>2, <3>3, SumChange
      <3>5. g[p] = f[p] + n /\ f[p] \in Nat
        BY <1>1, <1>2, <2>3, <2>4, <2>7, <3>3
      <3> QED
        BY <1>3, <2>5, <2>7, <3>4, <3>5
    <2>8. CASE ~(b = s /\ c = t)
      <3>1. \A k \in S : g[k] = f[k]
        BY <1>2, <2>1, <2>2, <2>3, <2>4, <2>8
      <3>2. SumFunctionOnSet(g, S) = SumFunctionOnSet(f, S)
        BY <2>2, <3>1, SumEqual
      <3> QED
        BY <1>3, <2>5, <2>8, <3>2
    <2> QED
      BY <2>7, <2>8
  <1>5. ASSUME b \in Recipients
        PROVE  PaidTo(b, c)' = PaidTo(b, c) + IF b = r /\ c = t THEN n ELSE 0
    <2>1. PICK f : f = [a \in SpendingAccounts |-> paid[a][<<b, c>>]]
      OBVIOUS
    <2>2. PICK g : g = [a \in SpendingAccounts |-> paid'[a][<<b, c>>]]
      OBVIOUS
    <2>3. <<b, c>> \in Keys /\ IsFiniteSet(SpendingAccounts)
      BY <1>5, FiniteAssumption DEF Keys
    <2>4. /\ PaidTo(b, c) = SumFunctionOnSet(f, SpendingAccounts)
          /\ PaidTo(b, c)' = SumFunctionOnSet(g, SpendingAccounts)
      BY <2>1, <2>2 DEF PaidTo
    <2>5. \A a \in SpendingAccounts : f[a] \in Int /\ g[a] \in Int
      BY <1>2, <2>1, <2>2, <2>3
    <2>6. CASE b = r /\ c = t
      <3>1. \A a \in SpendingAccounts \ {s} : g[a] = f[a]
        BY <1>2, <2>1, <2>2, <2>3
      <3>2. SumFunctionOnSet(g, SpendingAccounts) = SumFunctionOnSet(f, SpendingAccounts) - f[s] + g[s]
        BY <2>3, <2>5, <3>1, SumChange
      <3>3. g[s] = f[s] + n /\ f[s] \in Nat
        BY <1>2, <2>1, <2>2, <2>3, <2>6
      <3> QED
        BY <1>3, <1>5, <2>4, <2>6, <3>2, <3>3
    <2>7. CASE ~(b = r /\ c = t)
      <3>1. <<b, c>> # <<r, t>>
        BY <2>7
      <3>2. \A a \in SpendingAccounts : g[a] = f[a]
        BY <1>2, <2>1, <2>2, <2>3, <3>1
      <3>3. SumFunctionOnSet(g, SpendingAccounts) = SumFunctionOnSet(f, SpendingAccounts)
        BY <2>3, <3>2, SumEqual
      <3> QED
        BY <1>3, <1>5, <2>4, <2>7, <3>3
    <2> QED
      BY <2>6, <2>7
  <1> QED
    BY <1>4, <1>5

\* Limits are natural numbers.
LEMMA LimitType ==
    ASSUME NEW w \in Whitelists, NEW k \in Keys
    PROVE  Limit(w, k) \in 0 .. U128_MAX
  BY U128Assumption DEF Limit, Whitelists

\* The manager's methods keep the invariant.
LEMMA ManageInv ==
    ASSUME SpendingInv, NEW a \in SpendingAccounts, NEW caller, NEW w,
           Manage(a, caller, w), Managed(a, whitelist[a], w)
    PROVE  SpendingInv'
  <1>1. TypeOK /\ Registered
    BY DEF SpendingInv
  <1>2. /\ transfers' \subseteq Transfer /\ Registered'
        /\ \A b, k : InFlight(b, k)' = InFlight(b, k)
        /\ \A b : NearUnderWay(b)' = NearUnderWay(b)
    BY <1>1, ManageEffect
  <1>3. /\ whitelist \in [SpendingAccounts -> Whitelists] /\ w \in Whitelists
        /\ whitelist' = [whitelist EXCEPT ![a] = w]
    BY <1>1 DEF TypeOK, Whitelists, Manage, Managed
  <1>4. /\ granted \in [SpendingAccounts -> [Keys -> Nat]]
        /\ revoked \in [SpendingAccounts -> [Keys -> Nat]]
        /\ paid \in [SpendingAccounts -> [Keys -> Nat]]
    BY <1>1 DEF TypeOK
  <1>5. ASSUME NEW k \in Keys
        PROVE  /\ Excess(Limit(w, k), Limit(whitelist[a], k)) \in Nat
               /\ Excess(Limit(whitelist[a], k), Limit(w, k)) \in Nat
               /\ Excess(Limit(w, k), Limit(whitelist[a], k)) + Limit(whitelist[a], k)
                    = Excess(Limit(whitelist[a], k), Limit(w, k)) + Limit(w, k)
    <2>1. Limit(w, k) \in Nat /\ Limit(whitelist[a], k) \in Nat
      BY <1>3, LimitType, U128Assumption
    <2> QED
      BY <2>1 DEF Excess
  <1>6. /\ granted' = [granted EXCEPT ![a] =
              [k \in Keys |-> granted[a][k] + Excess(Limit(w, k), Limit(whitelist[a], k))]]
        /\ revoked' = [revoked EXCEPT ![a] =
              [k \in Keys |-> revoked[a][k] + Excess(Limit(whitelist[a], k), Limit(w, k))]]
    BY <1>4 DEF Manage
  <1>7. /\ granted' \in [SpendingAccounts -> [Keys -> Nat]]
        /\ revoked' \in [SpendingAccounts -> [Keys -> Nat]]
    BY <1>4, <1>5, <1>6
  <1>8. TypeOK'
    <2>1. whitelist' \in [SpendingAccounts -> [Keys -> (0 .. U128_MAX) \cup {None}]]
      BY <1>3 DEF Whitelists
    <2>2. edits' \in 0 .. MaxEdits
      BY <1>1, FiniteAssumption DEF Manage, TypeOK
    <2>3. UNCHANGED <<spender_id, manager_id, admin_id, funds, sent, paid, charged, rolled_back, fees>>
      BY DEF Manage, roles, events
    <2> QED
      BY <1>1, <1>2, <1>7, <2>1, <2>2, <2>3 DEF TypeOK
  <1>9. SelfNotWhitelisted'
    <2> SUFFICES ASSUME NEW b \in SpendingAccounts, NEW k \in Keys, k[1] = b PROVE whitelist'[b][k] = None
      BY DEF SelfNotWhitelisted
    <2>1. whitelist[b][k] = None
      BY DEF SpendingInv, SelfNotWhitelisted
    <2> QED
      BY <1>3, <2>1 DEF Managed
  <1>10. AllowanceConserved'
    <2> SUFFICES ASSUME NEW b \in SpendingAccounts, NEW k \in Keys
                 PROVE  granted'[b][k] = Limit(whitelist'[b], k) + InFlight(b, k)' + paid'[b][k] + revoked'[b][k]
      BY DEF AllowanceConserved
    <2>1. granted[b][k] = Limit(whitelist[b], k) + InFlight(b, k) + paid[b][k] + revoked[b][k]
      BY DEF SpendingInv, AllowanceConserved
    <2>2. InFlight(b, k)' = InFlight(b, k) /\ paid' = paid
      BY <1>2 DEF Manage
    <2>3. /\ InFlight(b, k) \in Nat /\ paid[b][k] \in Nat /\ granted[b][k] \in Nat /\ revoked[b][k] \in Nat
          /\ Limit(whitelist[b], k) \in Nat /\ Limit(w, k) \in Nat
      <3>1. Limit(whitelist[b], k) \in Nat /\ Limit(w, k) \in Nat
        BY <1>3, LimitType, U128Assumption
      <3>2. InFlight(b, k) \in Nat
        BY <1>1, Sums
      <3> QED
        BY <1>4, <3>1, <3>2
    <2>4. CASE b = a
      <3>1. /\ granted'[b][k] = granted[b][k] + Excess(Limit(w, k), Limit(whitelist[a], k))
            /\ revoked'[b][k] = revoked[b][k] + Excess(Limit(whitelist[a], k), Limit(w, k))
            /\ whitelist'[b] = w
        BY <1>3, <1>4, <1>6, <2>4
      <3> QED
        BY <1>5, <2>1, <2>2, <2>3, <2>4, <3>1
    <2>5. CASE b # a
      <3>1. granted'[b] = granted[b] /\ revoked'[b] = revoked[b] /\ whitelist'[b] = whitelist[b]
        BY <1>3, <1>4, <1>6, <2>5
      <3> QED
        BY <2>1, <2>2, <3>1
    <2> QED
      BY <2>4, <2>5
  <1>11. EventsTellPayments'
    <2>1. charged' = charged /\ paid' = paid /\ rolled_back' = rolled_back
      BY DEF Manage, events
    <2> QED
      BY <1>2, <2>1 DEF SpendingInv, EventsTellPayments
  <1>12. FundsAccounted'
    <2>1. paid' = paid /\ funds' = funds /\ fees' = fees
      BY DEF Manage
    <2>2. \A b, c : PaidOut(b, c)' = PaidOut(b, c) /\ PaidTo(b, c)' = PaidTo(b, c)
      BY <2>1, PaymentsUnchanged
    <2> QED
      BY <1>2, <2>1, <2>2 DEF SpendingInv, FundsAccounted
  <1> QED
    BY <1>2, <1>8, <1>9, <1>10, <1>11, <1>12 DEF SpendingInv

\* A change of a role leaves everything else as it is.
LEMMA RolesInv ==
    ASSUME SpendingInv, NEW a \in SpendingAccounts, NEW caller, NEW id \in Holders,
           set_spender(a, caller, id) \/ set_manager(a, caller, id) \/ set_admin(a, caller, id)
    PROVE  SpendingInv'
  <1>1. /\ edits' = edits + 1 /\ edits < MaxEdits
        /\ whitelist' = whitelist /\ funds' = funds /\ transfers' = transfers /\ sent' = sent
        /\ granted' = granted /\ revoked' = revoked /\ paid' = paid /\ charged' = charged
        /\ rolled_back' = rolled_back /\ fees' = fees
    BY DEF set_spender, set_manager, set_admin, history, events
  <1>2. TypeOK'
    <2>1. /\ spender_id' \in [SpendingAccounts -> Holders] /\ manager_id' \in [SpendingAccounts -> Holders]
          /\ admin_id' \in [SpendingAccounts -> Holders]
      BY DEF set_spender, set_manager, set_admin, SpendingInv, TypeOK
    <2>2. edits' \in 0 .. MaxEdits
      BY <1>1, FiniteAssumption DEF SpendingInv, TypeOK
    <2> QED
      BY <1>1, <2>1, <2>2 DEF SpendingInv, TypeOK
  <1>3. Registered' /\ SelfNotWhitelisted'
    BY <1>1 DEF SpendingInv, Registered, SelfNotWhitelisted
  <1>4. /\ \A b, k : InFlight(b, k)' = InFlight(b, k)
        /\ \A b : NearUnderWay(b)' = NearUnderWay(b)
    BY <1>1 DEF InFlight, Reserving, NearUnderWay, UnderWay
  <1>5. AllowanceConserved' /\ EventsTellPayments'
    BY <1>1, <1>4 DEF SpendingInv, AllowanceConserved, EventsTellPayments
  <1>6. \A b, c : PaidOut(b, c)' = PaidOut(b, c) /\ PaidTo(b, c)' = PaidTo(b, c)
    BY <1>1, PaymentsUnchanged
  <1>7. FundsAccounted'
    BY <1>1, <1>4, <1>6 DEF SpendingInv, FundsAccounted
  <1> QED
    BY <1>2, <1>3, <1>5, <1>7 DEF SpendingInv

\* transfer and transfer_ft keep the invariant.
LEMMA SendInv ==
    ASSUME SpendingInv, NEW a \in SpendingAccounts, NEW caller, NEW r \in Recipients,
           NEW t \in Assets, NEW n \in Amounts, Send(a, caller, r, t, n)
    PROVE  SpendingInv'
  <1>1. TypeOK /\ Registered
    BY DEF SpendingInv
  <1>2. /\ transfers' \subseteq Transfer /\ Registered'
        /\ \A b, k : InFlight(b, k)' = InFlight(b, k) + IF a = b /\ <<r, t>> = k THEN n ELSE 0
        /\ \A b : NearUnderWay(b)' = NearUnderWay(b) + IF a = b THEN Attached(t, n) ELSE 0
    BY <1>1, SendEffect
  <1>3. PICK key \in Keys : key = <<r, t>>
    <2>1. <<r, t>> \in Keys
      BY DEF Keys
    <2> QED
      BY <2>1
  <1>4. /\ whitelist \in [SpendingAccounts -> Whitelists]
        /\ charged \in [SpendingAccounts -> [Keys -> Nat]]
        /\ funds \in [SpendingAccounts -> [Assets -> Nat]] /\ None \in Assets
    BY <1>1 DEF TypeOK, Whitelists, Assets
  <1>5. n \in Nat /\ Attached(t, n) \in Nat
    BY AmountAssumption, U128Assumption DEF Attached, ONE_YOCTO
  <1>6. /\ whitelist[a][key] # None /\ n <= whitelist[a][key] /\ Attached(t, n) <= funds[a][None]
        /\ whitelist' = [whitelist EXCEPT ![a][key] = whitelist[a][key] - n]
        /\ funds' = [funds EXCEPT ![a][None] = funds[a][None] - Attached(t, n)]
        /\ charged' = [charged EXCEPT ![a][key] = charged[a][key] + n]
        /\ sent' = sent + 1 /\ sent < MaxTransfers
        /\ UNCHANGED <<spender_id, manager_id, admin_id, edits, granted, revoked, paid, rolled_back, fees>>
    <2>1. funds[a][None] >= Attached(t, n)
      BY DEF Send
    <2>2. Attached(t, n) <= funds[a][None]
      BY <1>4, <1>5, <2>1
    <2> QED
      BY <1>3, <1>4, <2>2 DEF Send, AllowanceKey, roles, Whitelists
  <1>7. whitelist[a][key] \in 0 .. U128_MAX /\ whitelist[a][key] - n \in 0 .. U128_MAX
    BY <1>3, <1>4, <1>5, <1>6, U128Assumption DEF Whitelists
  <1>8. ASSUME NEW b \in SpendingAccounts, NEW k \in Keys
        PROVE  /\ whitelist'[b][k] = IF a = b /\ key = k THEN whitelist[a][key] - n ELSE whitelist[b][k]
               /\ charged'[b][k] = IF a = b /\ key = k THEN charged[b][k] + n ELSE charged[b][k]
    BY <1>3, <1>4, <1>6 DEF Whitelists
  <1>9. ASSUME NEW b \in SpendingAccounts, NEW c \in Assets
        PROVE  funds'[b][c] = IF a = b /\ c = None THEN funds[b][c] - Attached(t, n) ELSE funds[b][c]
    BY <1>4, <1>6
  <1>10. TypeOK'
    <2>1. whitelist' \in [SpendingAccounts -> [Keys -> (0 .. U128_MAX) \cup {None}]]
      BY <1>3, <1>4, <1>6, <1>7 DEF Whitelists
    <2>2. funds' \in [SpendingAccounts -> [Assets -> Nat]]
      BY <1>4, <1>5, <1>6
    <2>3. charged' \in [SpendingAccounts -> [Keys -> Nat]]
      BY <1>3, <1>4, <1>5, <1>6
    <2>4. sent' \in 0 .. MaxTransfers
      BY <1>1, <1>6, FiniteAssumption DEF TypeOK
    <2> QED
      BY <1>1, <1>2, <1>6, <2>1, <2>2, <2>3, <2>4 DEF TypeOK
  <1>11. SelfNotWhitelisted'
    <2> SUFFICES ASSUME NEW b \in SpendingAccounts, NEW k \in Keys, k[1] = b PROVE whitelist'[b][k] = None
      BY DEF SelfNotWhitelisted
    <2>1. whitelist[b][k] = None
      BY DEF SpendingInv, SelfNotWhitelisted
    <2> QED
      BY <1>6, <1>8, <2>1
  <1>12. AllowanceConserved'
    <2> SUFFICES ASSUME NEW b \in SpendingAccounts, NEW k \in Keys
                 PROVE  granted'[b][k] = Limit(whitelist'[b], k) + InFlight(b, k)' + paid'[b][k] + revoked'[b][k]
      BY DEF AllowanceConserved
    <2>1. granted[b][k] = Limit(whitelist[b], k) + InFlight(b, k) + paid[b][k] + revoked[b][k]
      BY DEF SpendingInv, AllowanceConserved
    <2>2. Limit(whitelist'[b], k) = Limit(whitelist[b], k) - IF a = b /\ key = k THEN n ELSE 0
      <3>1. Limit(whitelist[b], k) \in Nat
        BY <1>4, LimitType, U128Assumption
      <3>2. CASE a = b /\ key = k
        <4>1. Limit(whitelist[b], k) = whitelist[a][key] /\ Limit(whitelist'[b], k) = whitelist[a][key] - n
          BY <1>6, <1>7, <1>8, <3>2, NoneAssumption DEF Limit
        <4> QED
          BY <3>2, <4>1
      <3>3. CASE ~(a = b /\ key = k)
        BY <1>8, <3>1, <3>3 DEF Limit
      <3> QED
        BY <3>2, <3>3
    <2>3. InFlight(b, k)' = InFlight(b, k) + IF a = b /\ key = k THEN n ELSE 0
      BY <1>2, <1>3
    <2>4. InFlight(b, k) \in Nat /\ Limit(whitelist[b], k) \in Nat
      <3>1. Limit(whitelist[b], k) \in Nat
        BY <1>4, LimitType, U128Assumption
      <3> QED
        BY <1>1, <3>1, Sums
    <2>5. paid[b][k] \in Nat /\ revoked[b][k] \in Nat
      BY <1>1 DEF TypeOK
    <2> QED
      BY <1>5, <1>6, <2>1, <2>2, <2>3, <2>4, <2>5
  <1>13. EventsTellPayments'
    <2> SUFFICES ASSUME NEW b \in SpendingAccounts, NEW k \in Keys
                 PROVE  charged'[b][k] = paid'[b][k] + InFlight(b, k)' + rolled_back'[b][k]
      BY DEF EventsTellPayments
    <2>1. charged[b][k] = paid[b][k] + InFlight(b, k) + rolled_back[b][k]
      BY DEF SpendingInv, EventsTellPayments
    <2>2. InFlight(b, k)' = InFlight(b, k) + IF a = b /\ key = k THEN n ELSE 0
      BY <1>2, <1>3
    <2>3. InFlight(b, k) \in Nat
      BY <1>1, Sums
    <2>4. paid[b][k] \in Nat /\ rolled_back[b][k] \in Nat
      BY <1>1 DEF TypeOK
    <2> QED
      BY <1>5, <1>6, <1>8, <2>1, <2>2, <2>3, <2>4
  <1>14. FundsAccounted'
    <2> SUFFICES ASSUME NEW b \in SpendingAccounts, NEW c \in Assets
                 PROVE  funds'[b][c] + PaidOut(b, c)' + (IF c = None THEN fees'[b] + NearUnderWay(b)' ELSE 0)
                          = InitialFunds[b][c] + (IF b \in Recipients THEN PaidTo(b, c)' ELSE 0)
      BY DEF FundsAccounted
    <2>1. funds[b][c] + PaidOut(b, c) + (IF c = None THEN fees[b] + NearUnderWay(b) ELSE 0)
            = InitialFunds[b][c] + (IF b \in Recipients THEN PaidTo(b, c) ELSE 0)
      BY DEF SpendingInv, FundsAccounted
    <2>2. PaidOut(b, c)' = PaidOut(b, c) /\ PaidTo(b, c)' = PaidTo(b, c)
      BY <1>6, PaymentsUnchanged
    <2>3. NearUnderWay(b)' = NearUnderWay(b) + IF a = b THEN Attached(t, n) ELSE 0
      BY <1>2
    <2>4. NearUnderWay(b) \in Nat
      BY <1>1, Sums
    <2>5. PaidOut(b, c) \in Nat
      BY <1>1, PaymentTypes
    <2>6. fees[b] \in Nat /\ funds[b][c] \in Nat
      BY <1>1 DEF TypeOK
    <2> QED
      BY <1>5, <1>6, <1>9, <2>1, <2>2, <2>3, <2>4, <2>5, <2>6
  <1> QED
    BY <1>2, <1>10, <1>11, <1>12, <1>13, <1>14 DEF SpendingInv

\* A failed receipt keeps the invariant.
LEMMA FailsInv ==
    ASSUME SpendingInv, NEW x \in transfers, Fails(x)
    PROVE  SpendingInv'
  <1>1. TypeOK /\ Registered /\ x \in Transfer
    BY DEF SpendingInv, TypeOK
  <1>2. /\ transfers' \subseteq Transfer /\ Registered'
        /\ \A b, k : InFlight(b, k)' = InFlight(b, k)
        /\ \A b : NearUnderWay(b)' = NearUnderWay(b) - NearBy(x, b)
    BY <1>1, FailsEffect
  <1>3. PICK n \in Nat : n = Attached(x.token_id, x.amount)
    BY <1>1, SummandTypes
  <1>4. funds \in [SpendingAccounts -> [Assets -> Nat]] /\ None \in Assets /\ x.from \in SpendingAccounts
    BY <1>1 DEF TypeOK, Assets, Transfer
  <1>5. /\ x.result = None /\ funds' = [funds EXCEPT ![x.from][None] = funds[x.from][None] + n]
        /\ UNCHANGED <<spender_id, manager_id, admin_id, whitelist, sent, edits>>
        /\ UNCHANGED <<granted, revoked, paid, charged, rolled_back, fees>>
    BY <1>3, <1>4 DEF Fails, roles, history, events
  <1>6. TypeOK'
    <2>1. funds' \in [SpendingAccounts -> [Assets -> Nat]]
      BY <1>4, <1>5
    <2> QED
      BY <1>1, <1>2, <1>5, <2>1 DEF TypeOK
  <1>7. SelfNotWhitelisted' /\ AllowanceConserved' /\ EventsTellPayments'
    BY <1>2, <1>5 DEF SpendingInv, SelfNotWhitelisted, AllowanceConserved, EventsTellPayments
  <1>8. FundsAccounted'
    <2> SUFFICES ASSUME NEW b \in SpendingAccounts, NEW c \in Assets
                 PROVE  funds'[b][c] + PaidOut(b, c)' + (IF c = None THEN fees'[b] + NearUnderWay(b)' ELSE 0)
                          = InitialFunds[b][c] + (IF b \in Recipients THEN PaidTo(b, c)' ELSE 0)
      BY DEF FundsAccounted
    <2>1. funds[b][c] + PaidOut(b, c) + (IF c = None THEN fees[b] + NearUnderWay(b) ELSE 0)
            = InitialFunds[b][c] + (IF b \in Recipients THEN PaidTo(b, c) ELSE 0)
      BY DEF SpendingInv, FundsAccounted
    <2>2. PaidOut(b, c)' = PaidOut(b, c) /\ PaidTo(b, c)' = PaidTo(b, c)
      BY <1>5, PaymentsUnchanged
    <2>3. NearUnderWay(b)' = NearUnderWay(b) - IF x.from = b THEN n ELSE 0
      BY <1>2, <1>3, <1>5 DEF NearBy
    <2>4. NearUnderWay(b) \in Nat
      BY <1>1, Sums
    <2>5. PaidOut(b, c) \in Nat
      BY <1>1, PaymentTypes
    <2>6. fees[b] \in Nat /\ funds[b][c] \in Nat
      BY <1>1 DEF TypeOK
    <2>7. funds'[b][c] = IF x.from = b /\ c = None THEN funds[b][c] + n ELSE funds[b][c]
      BY <1>4, <1>5
    <2> QED
      BY <1>3, <1>5, <2>1, <2>2, <2>3, <2>4, <2>5, <2>6, <2>7
  <1> QED
    BY <1>2, <1>6, <1>7, <1>8 DEF SpendingInv

\* What the callback makes of the limit, and what it loses.
LEMMA SettleEffect ==
    ASSUME NEW w \in Whitelists, NEW x \in Transfer, x.result # None,
           NEW k, k = KeyOf(x), NEW lost,
           lost = IF x.result = "ok" THEN 0
                  ELSE IF w[k] = None THEN x.amount ELSE Excess(w[k] + x.amount, U128_MAX)
    PROVE  /\ k \in Keys /\ Settle(w, x) \in Whitelists /\ lost \in Nat
           /\ \A j \in Keys : j # k => Settle(w, x)[j] = w[j]
           /\ w[k] = None => Settle(w, x)[k] = None
           /\ Limit(Settle(w, x), k) + lost = Limit(w, k) + (IF x.result = "ok" THEN 0 ELSE x.amount)
           /\ lost <= IF x.result = "ok" THEN 0 ELSE x.amount
  <1>1. k \in Keys /\ x.amount \in 1 .. U128_MAX /\ U128_MAX \in Nat
    BY U128Assumption DEF KeyOf, Keys, Transfer
  <1>2. Limit(w, k) \in Nat
    BY <1>1, LimitType
  <1>3. CASE x.result = "ok"
    <2>1. Settle(w, x) = w
      BY <1>3 DEF Settle
    <2> QED
      BY <1>1, <1>2, <1>3, <2>1
  <1>4. CASE x.result # "ok" /\ w[k] = None
    <2>1. Settle(w, x) = w
      BY <1>4 DEF Settle, Restore, AllowanceKey, KeyOf
    <2> QED
      BY <1>1, <1>2, <1>4, <2>1
  <1>5. CASE x.result # "ok" /\ w[k] # None
    <2>1. Settle(w, x) = [w EXCEPT ![k] = SaturatingAdd(w[k], x.amount)]
      BY <1>1, <1>5 DEF Settle, Restore, AllowanceKey, KeyOf, Whitelists
    <2>2. w[k] \in 0 .. U128_MAX
      BY <1>1, <1>5 DEF Whitelists
    <2>3. /\ SaturatingAdd(w[k], x.amount) \in 0 .. U128_MAX
          /\ SaturatingAdd(w[k], x.amount) + lost = w[k] + x.amount
          /\ lost \in Nat /\ lost <= x.amount
      BY <1>1, <1>5, <2>2 DEF SaturatingAdd, Excess
    <2>4. Settle(w, x) \in Whitelists /\ Settle(w, x)[k] = SaturatingAdd(w[k], x.amount)
      BY <1>1, <2>1, <2>3 DEF Whitelists
    <2>5. \A j \in Keys : j # k => Settle(w, x)[j] = w[j]
      BY <1>1, <2>1 DEF Whitelists
    <2>6. Limit(Settle(w, x), k) = SaturatingAdd(w[k], x.amount) /\ Limit(w, k) = w[k]
      BY <1>5, <2>3, <2>4, NoneAssumption DEF Limit
    <2> QED
      BY <1>1, <1>5, <2>3, <2>4, <2>5, <2>6
  <1> QED
    BY <1>3, <1>4, <1>5

\* What the callback does to every key of every account.
LEMMA CallbackEffect ==
    ASSUME TypeOK, Registered, NEW x \in transfers, OnTransfer(x)
    PROVE  /\ whitelist' \in [SpendingAccounts -> Whitelists]
           /\ \E lost \in Nat :
                /\ \A b \in SpendingAccounts, k \in Keys :
                     /\ whitelist[b][k] = None => whitelist'[b][k] = None
                     /\ revoked'[b][k] = revoked[b][k] + IF x.from = b /\ KeyOf(x) = k THEN lost ELSE 0
                     /\ Limit(whitelist'[b], k) = Limit(whitelist[b], k) + HeldBy(x, b, k)
                                                    - IF x.from = b /\ KeyOf(x) = k THEN lost ELSE 0
                /\ lost <= HeldBy(x, x.from, KeyOf(x))
           /\ \A b \in SpendingAccounts, k \in Keys :
                rolled_back'[b][k] = rolled_back[b][k] + HeldBy(x, b, k)
           /\ revoked' \in [SpendingAccounts -> [Keys -> Nat]]
           /\ rolled_back' \in [SpendingAccounts -> [Keys -> Nat]]
  <1>1. x \in Transfer /\ x.from \in SpendingAccounts /\ x.amount \in Nat /\ x.result \in {None, "ok", "failed"}
    BY U128Assumption DEF TypeOK, Transfer
  <1>2. /\ whitelist \in [SpendingAccounts -> Whitelists]
        /\ revoked \in [SpendingAccounts -> [Keys -> Nat]]
        /\ rolled_back \in [SpendingAccounts -> [Keys -> Nat]]
    BY DEF TypeOK, Whitelists
  <1>3. PICK w \in Whitelists : w = whitelist[x.from]
    BY <1>1, <1>2
  <1>4. PICK key : key = KeyOf(x)
    OBVIOUS
  <1>5. PICK lost : lost = IF x.result = "ok" THEN 0
                           ELSE IF w[key] = None THEN x.amount ELSE Excess(w[key] + x.amount, U128_MAX)
    OBVIOUS
  <1>6. PICK v : v = Settle(w, x)
    OBVIOUS
  <1>7. x.result # None
    BY DEF OnTransfer
  <1>8. /\ key \in Keys /\ v \in Whitelists /\ lost \in Nat
        /\ \A j \in Keys : j # key => v[j] = w[j]
        /\ w[key] = None => v[key] = None
        /\ Limit(v, key) + lost = Limit(w, key) + (IF x.result = "ok" THEN 0 ELSE x.amount)
        /\ lost <= IF x.result = "ok" THEN 0 ELSE x.amount
    BY <1>1, <1>4, <1>5, <1>6, <1>7, SettleEffect
  <1>9. whitelist' = [whitelist EXCEPT ![x.from] = v]
    BY <1>2, <1>3, <1>6 DEF OnTransfer
  <1>10. revoked' = [revoked EXCEPT ![x.from][key] = revoked[x.from][key] + lost]
    BY <1>1, <1>2, <1>3, <1>4, <1>5, <1>8 DEF OnTransfer
  <1>11. PICK m : m = IF x.result = "ok" THEN 0 ELSE x.amount
    OBVIOUS
  <1>12. m \in Nat /\ HeldBy(x, x.from, key) = m
    BY <1>1, <1>4, <1>11 DEF HeldBy
  <1>13. \A b, k : HeldBy(x, b, k) = IF x.from = b /\ key = k THEN m ELSE 0
    BY <1>1, <1>4, <1>11 DEF HeldBy
  <1>14. rolled_back' = [rolled_back EXCEPT ![x.from][key] = rolled_back[x.from][key] + m]
    <2>1. m = IF ReportFailure(x) THEN x.amount ELSE 0
      BY <1>1, <1>7, <1>11 DEF ReportFailure
    <2> QED
      BY <1>1, <1>2, <1>4, <1>8, <2>1 DEF OnTransfer
  <1>15. ASSUME NEW b \in SpendingAccounts, NEW k \in Keys
         PROVE  /\ whitelist[b][k] = None => whitelist'[b][k] = None
                /\ revoked'[b][k] = revoked[b][k] + IF x.from = b /\ KeyOf(x) = k THEN lost ELSE 0
                /\ Limit(whitelist'[b], k) = Limit(whitelist[b], k) + HeldBy(x, b, k)
                                               - IF x.from = b /\ KeyOf(x) = k THEN lost ELSE 0
                /\ rolled_back'[b][k] = rolled_back[b][k] + HeldBy(x, b, k)
    <2>1. revoked[b][k] \in Nat /\ rolled_back[b][k] \in Nat
      BY <1>2
    <2>2. Limit(whitelist[b], k) \in Nat
      BY <1>2, LimitType, U128Assumption
    <2>3. CASE x.from = b /\ key = k
      <3>1. whitelist[b] = w /\ whitelist'[b] = v
        BY <1>2, <1>3, <1>9, <2>3
      <3>2. Limit(v, key) \in Nat
        BY <1>8, LimitType, U128Assumption
      <3>3. Limit(v, key) + lost = Limit(w, key) + m
        BY <1>8, <1>11
      <3>4. Limit(v, key) = Limit(w, key) + m - lost
        BY <1>8, <1>12, <2>2, <2>3, <3>1, <3>2, <3>3
      <3>5. revoked'[b][k] = revoked[b][k] + lost /\ rolled_back'[b][k] = rolled_back[b][k] + m
        BY <1>2, <1>8, <1>10, <1>14, <2>3
      <3> QED
        BY <1>4, <1>8, <1>13, <2>3, <3>1, <3>4, <3>5
    <2>4. CASE ~(x.from = b /\ key = k)
      <3>1. whitelist'[b][k] = whitelist[b][k] /\ revoked'[b][k] = revoked[b][k]
            /\ rolled_back'[b][k] = rolled_back[b][k]
        BY <1>2, <1>3, <1>8, <1>9, <1>10, <1>14, <2>4
      <3>2. Limit(whitelist'[b], k) = Limit(whitelist[b], k)
        BY <3>1 DEF Limit
      <3>3. HeldBy(x, b, k) = 0
        BY <1>13, <2>4
      <3> QED
        BY <1>4, <2>1, <2>2, <2>4, <3>1, <3>2, <3>3
    <2> QED
      BY <2>3, <2>4
  <1>16. whitelist' \in [SpendingAccounts -> Whitelists]
    BY <1>2, <1>8, <1>9
  <1>17. /\ revoked' \in [SpendingAccounts -> [Keys -> Nat]]
         /\ rolled_back' \in [SpendingAccounts -> [Keys -> Nat]]
    <2>1. revoked[x.from][key] + lost \in Nat /\ rolled_back[x.from][key] + m \in Nat
      BY <1>1, <1>2, <1>8, <1>12
    <2>2. revoked' \in [SpendingAccounts -> [Keys -> Nat]]
      BY <1>2, <1>10, <2>1
    <2>3. rolled_back' \in [SpendingAccounts -> [Keys -> Nat]]
      BY <1>2, <1>14, <2>1
    <2> QED
      BY <2>2, <2>3
  <1>18. lost \in Nat /\ lost <= HeldBy(x, x.from, KeyOf(x))
    BY <1>4, <1>8, <1>11, <1>12
  <1> QED
    BY <1>15, <1>16, <1>17, <1>18

\* The callbacks keep the invariant.
LEMMA OnTransferInv ==
    ASSUME SpendingInv, NEW x \in transfers, OnTransfer(x)
    PROVE  SpendingInv'
  <1>1. TypeOK /\ Registered /\ x \in Transfer
    BY DEF SpendingInv, TypeOK
  <1>2. /\ transfers' \subseteq Transfer /\ Registered'
        /\ \A b, k : InFlight(b, k)' = InFlight(b, k) - HeldBy(x, b, k)
        /\ \A b : NearUnderWay(b)' = NearUnderWay(b)
    BY <1>1, OnTransferEffect
  <1>3. PICK lost \in Nat :
          \A b \in SpendingAccounts, k \in Keys :
            /\ whitelist[b][k] = None => whitelist'[b][k] = None
            /\ revoked'[b][k] = revoked[b][k] + IF x.from = b /\ KeyOf(x) = k THEN lost ELSE 0
            /\ Limit(whitelist'[b], k) = Limit(whitelist[b], k) + HeldBy(x, b, k)
                                           - IF x.from = b /\ KeyOf(x) = k THEN lost ELSE 0
    BY <1>1, CallbackEffect
  <1>4. /\ whitelist' \in [SpendingAccounts -> Whitelists]
        /\ \A b \in SpendingAccounts, k \in Keys :
             rolled_back'[b][k] = rolled_back[b][k] + HeldBy(x, b, k)
        /\ revoked' \in [SpendingAccounts -> [Keys -> Nat]]
        /\ rolled_back' \in [SpendingAccounts -> [Keys -> Nat]]
    BY <1>1, CallbackEffect
  <1>5. UNCHANGED <<spender_id, manager_id, admin_id, funds, sent, edits, granted, paid, charged, fees>>
    BY DEF OnTransfer, roles
  <1>6. TypeOK'
    BY <1>1, <1>2, <1>4, <1>5 DEF TypeOK, Whitelists
  <1>7. SelfNotWhitelisted'
    BY <1>3 DEF SpendingInv, SelfNotWhitelisted
  <1>8. ASSUME NEW b \in SpendingAccounts, NEW k \in Keys
        PROVE  /\ InFlight(b, k) \in Nat /\ HeldBy(x, b, k) \in Nat
               /\ Limit(whitelist[b], k) \in Nat
               /\ paid[b][k] \in Nat /\ revoked[b][k] \in Nat /\ rolled_back[b][k] \in Nat
    <2>1. InFlight(b, k) \in Nat /\ HeldBy(x, b, k) \in Nat
      BY <1>1, Sums, HeldByIs
    <2>2. whitelist \in [SpendingAccounts -> Whitelists]
      BY <1>1 DEF TypeOK, Whitelists
    <2>3. Limit(whitelist[b], k) \in Nat
      BY <2>2, LimitType, U128Assumption
    <2> QED
      BY <1>1, <2>1, <2>3 DEF TypeOK
  <1>9. AllowanceConserved'
    <2> SUFFICES ASSUME NEW b \in SpendingAccounts, NEW k \in Keys
                 PROVE  granted'[b][k] = Limit(whitelist'[b], k) + InFlight(b, k)' + paid'[b][k] + revoked'[b][k]
      BY DEF AllowanceConserved
    <2>1. granted[b][k] = Limit(whitelist[b], k) + InFlight(b, k) + paid[b][k] + revoked[b][k]
      BY DEF SpendingInv, AllowanceConserved
    <2> QED
      BY <1>2, <1>3, <1>5, <1>8, <2>1
  <1>10. EventsTellPayments'
    <2> SUFFICES ASSUME NEW b \in SpendingAccounts, NEW k \in Keys
                 PROVE  charged'[b][k] = paid'[b][k] + InFlight(b, k)' + rolled_back'[b][k]
      BY DEF EventsTellPayments
    <2>1. charged[b][k] = paid[b][k] + InFlight(b, k) + rolled_back[b][k]
      BY DEF SpendingInv, EventsTellPayments
    <2> QED
      BY <1>2, <1>4, <1>5, <1>8, <2>1
  <1>11. FundsAccounted'
    <2>1. \A b, c : PaidOut(b, c)' = PaidOut(b, c) /\ PaidTo(b, c)' = PaidTo(b, c)
      BY <1>5, PaymentsUnchanged
    <2> QED
      BY <1>2, <1>5, <2>1 DEF SpendingInv, FundsAccounted
  <1> QED
    BY <1>2, <1>6, <1>7, <1>9, <1>10, <1>11 DEF SpendingInv

\* The funds after a payment: the payer of tokens has paid, the receiver is credited.
LEMMA PaymentFunds ==
    ASSUME TypeOK, NEW x \in transfers, Succeeds(x),
           NEW b \in SpendingAccounts, NEW c \in Assets
    PROVE  /\ funds' \in [SpendingAccounts -> [Assets -> Nat]]
           /\ funds'[b][c] = funds[b][c]
                               - (IF b = x.from /\ c = x.token_id /\ c # None THEN x.amount ELSE 0)
                               + (IF b = x.receiver_id /\ c = x.token_id THEN x.amount ELSE 0)
  <1>1. /\ x.from \in SpendingAccounts /\ x.token_id \in Assets /\ x.amount \in Nat
        /\ funds \in [SpendingAccounts -> [Assets -> Nat]]
    BY U128Assumption DEF TypeOK, Transfer
  <1> DEFINE Taken == IF x.token_id = None THEN funds
                      ELSE [funds EXCEPT ![x.from][x.token_id] = @ - x.amount]
  <1>2. funds' = Credit(Taken, x.receiver_id, x.token_id, x.amount)
    BY DEF Succeeds
  <1>3. x.token_id # None => funds[x.from][x.token_id] >= x.amount
    BY DEF Succeeds
  <1>4. Taken \in [SpendingAccounts -> [Assets -> Nat]]
    <2>1. CASE x.token_id = None
      BY <1>1, <2>1
    <2>2. CASE x.token_id # None
      <3>1. funds[x.from][x.token_id] - x.amount \in Nat
        BY <1>1, <1>3, <2>2
      <3> QED
        BY <1>1, <2>2, <3>1
    <2> QED
      BY <2>1, <2>2
  <1>5. Taken[b][c] = funds[b][c] - (IF b = x.from /\ c = x.token_id /\ c # None THEN x.amount ELSE 0)
    <2>1. funds[b][c] \in Nat
      BY <1>1
    <2>2. CASE x.token_id = None
      BY <2>1, <2>2
    <2>3. CASE x.token_id # None
      BY <1>1, <2>1, <2>3
    <2> QED
      BY <2>2, <2>3
  <1> HIDE DEF Taken
  <1>6. CASE x.receiver_id \in SpendingAccounts
    <2>1. funds' = [Taken EXCEPT ![x.receiver_id][x.token_id] = Taken[x.receiver_id][x.token_id] + x.amount]
      BY <1>1, <1>2, <1>4, <1>6 DEF Credit
    <2>2. Taken[x.receiver_id][x.token_id] + x.amount \in Nat
      BY <1>1, <1>4, <1>6
    <2>3. funds' \in [SpendingAccounts -> [Assets -> Nat]]
      BY <1>4, <2>1, <2>2
    <2>4. funds'[b][c] = Taken[b][c] + (IF b = x.receiver_id /\ c = x.token_id THEN x.amount ELSE 0)
      <3>1. Taken[b][c] \in Nat
        BY <1>4
      <3> QED
        BY <1>1, <1>4, <1>6, <2>1, <3>1
    <2> QED
      BY <1>5, <2>3, <2>4
  <1>7. CASE x.receiver_id \notin SpendingAccounts
    <2>1. funds' = Taken /\ b # x.receiver_id
      BY <1>2, <1>7 DEF Credit
    <2>2. Taken[b][c] \in Nat
      BY <1>4
    <2> QED
      BY <1>4, <1>5, <2>1, <2>2
  <1> QED
    BY <1>6, <1>7

\* A successful receipt keeps the invariant.
LEMMA SucceedsInv ==
    ASSUME SpendingInv, NEW x \in transfers, Succeeds(x)
    PROVE  SpendingInv'
  <1>1. TypeOK /\ Registered /\ x \in Transfer
    BY DEF SpendingInv, TypeOK
  <1>2. /\ transfers' \subseteq Transfer /\ Registered'
        /\ \A b, k : InFlight(b, k)' = InFlight(b, k) - HeldBy(x, b, k)
        /\ \A b : NearUnderWay(b)' = NearUnderWay(b) - NearBy(x, b)
    BY <1>1, SucceedsEffect
  <1>3. /\ x.from \in SpendingAccounts /\ x.receiver_id \in Recipients /\ x.token_id \in Assets
        /\ x.amount \in Nat
    BY <1>1, U128Assumption DEF Transfer
  <1>4. PICK key \in Keys : key = KeyOf(x) /\ key = <<x.receiver_id, x.token_id>>
    <2>1. <<x.receiver_id, x.token_id>> \in Keys
      BY <1>3 DEF Keys
    <2> QED
      BY <2>1 DEF KeyOf
  <1>5. /\ paid \in [SpendingAccounts -> [Keys -> Nat]]
        /\ fees \in [SpendingAccounts -> Nat]
    BY <1>1 DEF TypeOK
  <1>6. PICK fee : fee = IF x.token_id = None THEN 0 ELSE ONE_YOCTO
    OBVIOUS
  <1>7. /\ x.result = None
        /\ paid' = [paid EXCEPT ![x.from][key] = paid[x.from][key] + x.amount]
        /\ fees' = [fees EXCEPT ![x.from] = fees[x.from] + fee]
        /\ UNCHANGED <<spender_id, manager_id, admin_id, whitelist, sent, edits>>
        /\ UNCHANGED <<granted, revoked, charged, rolled_back>>
    BY <1>3, <1>4, <1>5, <1>6 DEF Succeeds, roles, events
  <1>8. fee \in Nat
    BY <1>6 DEF ONE_YOCTO
  <1>9. TypeOK'
    <2>1. funds' \in [SpendingAccounts -> [Assets -> Nat]]
      BY <1>1, <1>3, PaymentFunds
    <2>2. paid' \in [SpendingAccounts -> [Keys -> Nat]]
      BY <1>3, <1>5, <1>7
    <2>3. fees' \in [SpendingAccounts -> Nat]
      BY <1>3, <1>5, <1>7, <1>8
    <2> QED
      BY <1>1, <1>2, <1>7, <2>1, <2>2, <2>3 DEF TypeOK
  <1>10. SelfNotWhitelisted'
    BY <1>7 DEF SpendingInv, SelfNotWhitelisted
  <1>11. ASSUME NEW b \in SpendingAccounts, NEW k \in Keys
         PROVE  /\ paid'[b][k] = paid[b][k] + HeldBy(x, b, k)
                /\ InFlight(b, k) \in Nat /\ HeldBy(x, b, k) \in Nat /\ paid[b][k] \in Nat
    <2>1. None # "ok"
      BY ResultAssumption
    <2>2. HeldBy(x, b, k) = IF x.from = b /\ key = k THEN x.amount ELSE 0
      BY <1>4, <1>7, <2>1 DEF HeldBy
    <2>3. InFlight(b, k) \in Nat
      BY <1>1, Sums
    <2>4. paid'[b][k] = paid[b][k] + IF x.from = b /\ key = k THEN x.amount ELSE 0
      BY <1>3, <1>5, <1>7
    <2> QED
      BY <1>3, <1>5, <2>2, <2>3, <2>4
  <1>12. AllowanceConserved'
    <2> SUFFICES ASSUME NEW b \in SpendingAccounts, NEW k \in Keys
                 PROVE  granted'[b][k] = Limit(whitelist'[b], k) + InFlight(b, k)' + paid'[b][k] + revoked'[b][k]
      BY DEF AllowanceConserved
    <2>1. granted[b][k] = Limit(whitelist[b], k) + InFlight(b, k) + paid[b][k] + revoked[b][k]
      BY DEF SpendingInv, AllowanceConserved
    <2>2. whitelist \in [SpendingAccounts -> Whitelists] /\ revoked[b][k] \in Nat
      BY <1>1 DEF TypeOK, Whitelists
    <2>3. Limit(whitelist[b], k) \in Nat
      BY <2>2, LimitType, U128Assumption
    <2> QED
      BY <1>2, <1>7, <1>11, <2>1, <2>2, <2>3
  <1>13. EventsTellPayments'
    <2> SUFFICES ASSUME NEW b \in SpendingAccounts, NEW k \in Keys
                 PROVE  charged'[b][k] = paid'[b][k] + InFlight(b, k)' + rolled_back'[b][k]
      BY DEF EventsTellPayments
    <2>1. charged[b][k] = paid[b][k] + InFlight(b, k) + rolled_back[b][k]
      BY DEF SpendingInv, EventsTellPayments
    <2>2. rolled_back[b][k] \in Nat
      BY <1>1 DEF TypeOK
    <2> QED
      BY <1>2, <1>7, <1>11, <2>1, <2>2
  <1>14. FundsAccounted'
    <2> SUFFICES ASSUME NEW b \in SpendingAccounts, NEW c \in Assets
                 PROVE  funds'[b][c] + PaidOut(b, c)' + (IF c = None THEN fees'[b] + NearUnderWay(b)' ELSE 0)
                          = InitialFunds[b][c] + (IF b \in Recipients THEN PaidTo(b, c)' ELSE 0)
      BY DEF FundsAccounted
    <2>1. funds[b][c] + PaidOut(b, c) + (IF c = None THEN fees[b] + NearUnderWay(b) ELSE 0)
            = InitialFunds[b][c] + (IF b \in Recipients THEN PaidTo(b, c) ELSE 0)
      BY DEF SpendingInv, FundsAccounted
    <2>2. PICK out : out = IF b = x.from /\ c = x.token_id THEN x.amount ELSE 0
      OBVIOUS
    <2>3. PICK in : in = IF b = x.receiver_id /\ c = x.token_id THEN x.amount ELSE 0
      OBVIOUS
    <2>4. out \in Nat /\ in \in Nat
      BY <1>3, <2>2, <2>3
    <2>5. paid' = [paid EXCEPT ![x.from][<<x.receiver_id, x.token_id>>] = @ + x.amount]
      BY <1>3, <1>4, <1>5, <1>7
    <2>6. /\ PaidOut(b, c)' = PaidOut(b, c) + out
          /\ b \in Recipients => PaidTo(b, c)' = PaidTo(b, c) + in
      <3>1. PICK s \in SpendingAccounts : s = x.from
        BY <1>3
      <3>2. PICK r \in Recipients : r = x.receiver_id
        BY <1>3
      <3>3. PICK t \in Assets : t = x.token_id
        BY <1>3
      <3>4. PICK n \in Nat : n = x.amount
        BY <1>3
      <3>5. Pays(s, r, t, n)
        BY <2>5, <3>1, <3>2, <3>3, <3>4 DEF Pays
      <3>6. /\ PaidOut(b, c)' = PaidOut(b, c) + IF b = s /\ c = t THEN n ELSE 0
            /\ b \in Recipients => PaidTo(b, c)' = PaidTo(b, c) + IF b = r /\ c = t THEN n ELSE 0
        BY <1>1, <3>5, PaymentMade
      <3> QED
        BY <2>2, <2>3, <3>1, <3>2, <3>3, <3>4, <3>6
    <2>7. funds'[b][c] = funds[b][c] - (IF c # None THEN out ELSE 0) + in
      BY <1>1, <2>2, <2>3, PaymentFunds
    <2>8. PICK gone \in Nat : gone = NearBy(x, b)
      BY <1>1, HeldByIs
    <2>9. NearUnderWay(b)' = NearUnderWay(b) - gone /\ NearUnderWay(b) \in Nat
      BY <1>1, <1>2, <2>8, Sums
    <2>10. fees'[b] = fees[b] + (IF b = x.from THEN fee ELSE 0) /\ fees[b] \in Nat
      BY <1>3, <1>5, <1>7, <1>8
    <2>11. c = None => gone = out + (IF b = x.from THEN fee ELSE 0)
      BY <1>3, <1>6, <1>7, <2>2, <2>8 DEF NearBy, Attached, ONE_YOCTO
    <2>12. b \notin Recipients => in = 0
      BY <1>3, <2>3
    <2>13. funds[b][c] \in Nat /\ InitialFunds[b][c] \in Nat
      BY <1>1, DeployAssumption DEF TypeOK
    <2>14. PaidOut(b, c) \in Nat /\ (b \in Recipients => PaidTo(b, c) \in Nat)
      BY <1>1, PaymentTypes
    <2>15. CASE c = None
      <3>1. fees'[b] + NearUnderWay(b)' = fees[b] + NearUnderWay(b) - out
        BY <1>8, <2>4, <2>8, <2>9, <2>10, <2>11, <2>15
      <3>2. funds'[b][c] = funds[b][c] + in
        BY <2>4, <2>7, <2>13, <2>15
      <3>3. funds[b][c] + PaidOut(b, c) + (fees[b] + NearUnderWay(b))
              = InitialFunds[b][c] + (IF b \in Recipients THEN PaidTo(b, c) ELSE 0)
        BY <2>1, <2>15
      <3>4. funds'[b][c] + PaidOut(b, c)' + (fees'[b] + NearUnderWay(b)')
              = InitialFunds[b][c] + (IF b \in Recipients THEN PaidTo(b, c) ELSE 0) + in
        BY <2>4, <2>6, <2>9, <2>10, <2>13, <2>14, <3>1, <3>2, <3>3
      <3> QED
        BY <2>4, <2>6, <2>12, <2>13, <2>14, <2>15, <3>4
    <2>16. CASE c # None
      BY <2>1, <2>4, <2>6, <2>7, <2>12, <2>13, <2>14, <2>16
    <2> QED
      BY <2>15, <2>16
  <1> QED
    BY <1>2, <1>9, <1>10, <1>12, <1>13, <1>14 DEF SpendingInv

-----------------------------------------------------------------------------
(* The theorems *)

\* Nothing is granted, sent or paid when the contracts are deployed.
LEMMA InitInv ==
    ASSUME Init
    PROVE  SpendingInv
  <1>1. /\ Zero \in [SpendingAccounts -> [Keys -> Nat]]
        /\ \A a \in SpendingAccounts, k \in Keys : Zero[a][k] = 0
    BY DEF Zero
  <1>2. /\ transfers = {} /\ sent = 0 /\ edits = 0 /\ funds = InitialFunds
        /\ granted = Zero /\ revoked = Zero /\ paid = Zero /\ charged = Zero /\ rolled_back = Zero
        /\ fees = [a \in SpendingAccounts |-> 0]
        /\ whitelist = [a \in SpendingAccounts |-> [k \in Keys |-> None]]
    BY DEF Init, new
  <1>3. PICK d \in Deployments : spender_id = d.spender_id /\ manager_id = d.manager_id /\ admin_id = d.admin_id
    BY DEF Init, new
  <1>4. TypeOK
    <2>1. /\ spender_id \in [SpendingAccounts -> Holders] /\ manager_id \in [SpendingAccounts -> Holders]
          /\ admin_id \in [SpendingAccounts -> Holders]
      BY <1>3, DeployAssumption
    <2>2. whitelist \in [SpendingAccounts -> [Keys -> (0 .. U128_MAX) \cup {None}]]
      BY <1>2
    <2>3. funds \in [SpendingAccounts -> [Assets -> Nat]]
      BY <1>2, DeployAssumption
    <2>4. sent \in 0 .. MaxTransfers /\ edits \in 0 .. MaxEdits
      BY <1>2, FiniteAssumption
    <2>5. {granted, revoked, paid, charged, rolled_back} \subseteq [SpendingAccounts -> [Keys -> Nat]]
      BY <1>1, <1>2
    <2>6. fees \in [SpendingAccounts -> Nat] /\ transfers \subseteq Transfer
      BY <1>2
    <2> QED
      BY <2>1, <2>2, <2>3, <2>4, <2>5, <2>6 DEF TypeOK
  <1>5. Registered
    BY <1>2, FS_EmptySet DEF Registered
  <1>6. SelfNotWhitelisted
    BY <1>2 DEF SelfNotWhitelisted
  <1>7. \A a, k : InFlight(a, k) = 0
    <2> TAKE a, k
    <2>1. PICK f : f = [x \in Reserving(a, k) |-> x.amount]
      OBVIOUS
    <2>2. Reserving(a, k) = {}
      BY <1>2 DEF Reserving
    <2>3. SumFunctionOnSet(f, {}) = 0
      BY SumEmpty
    <2> QED
      BY <2>1, <2>2, <2>3 DEF InFlight
  <1>8. \A a : NearUnderWay(a) = 0
    <2> TAKE a
    <2>1. PICK f : f = [x \in UnderWay(a) |-> Attached(x.token_id, x.amount)]
      OBVIOUS
    <2>2. UnderWay(a) = {}
      BY <1>2 DEF UnderWay
    <2>3. SumFunctionOnSet(f, {}) = 0
      BY SumEmpty
    <2> QED
      BY <2>1, <2>2, <2>3 DEF NearUnderWay
  <1>9. AllowanceConserved
    <2>1. \A a \in SpendingAccounts, k \in Keys : Limit(whitelist[a], k) = 0
      BY <1>2 DEF Limit
    <2> QED
      BY <1>1, <1>2, <1>7, <2>1 DEF AllowanceConserved
  <1>10. EventsTellPayments
    BY <1>1, <1>2, <1>7 DEF EventsTellPayments
  <1>11. ASSUME NEW a \in SpendingAccounts, NEW c \in Assets PROVE PaidOut(a, c) = 0
    <2>1. PICK S : S = {k \in Keys : k[2] = c}
      OBVIOUS
    <2>2. PICK f : f = paid[a]
      OBVIOUS
    <2>3. IsFiniteSet(Keys)
      BY <1>4, PaymentTypes
    <2>4. IsFiniteSet(S) /\ S \subseteq Keys
      BY <2>1, <2>3, FS_Subset
    <2>5. \A k \in S : f[k] = 0
      BY <1>1, <1>2, <2>2, <2>4
    <2>6. SumFunctionOnSet(f, S) = 0
      BY <2>4, <2>5, SumZero
    <2> QED
      BY <2>1, <2>2, <2>6 DEF PaidOut
  <1>12. ASSUME NEW a \in Recipients, NEW c \in Assets PROVE PaidTo(a, c) = 0
    <2>1. PICK f : f = [b \in SpendingAccounts |-> paid[b][<<a, c>>]]
      OBVIOUS
    <2>2. <<a, c>> \in Keys
      BY DEF Keys
    <2>3. \A b \in SpendingAccounts : f[b] = 0
      BY <1>1, <1>2, <2>1, <2>2
    <2>4. SumFunctionOnSet(f, SpendingAccounts) = 0
      BY <2>3, FiniteAssumption, SumZero
    <2> QED
      BY <2>1, <2>4 DEF PaidTo
  <1>13. FundsAccounted
    <2> SUFFICES ASSUME NEW a \in SpendingAccounts, NEW c \in Assets
                 PROVE  funds[a][c] + PaidOut(a, c) + (IF c = None THEN fees[a] + NearUnderWay(a) ELSE 0)
                          = InitialFunds[a][c] + (IF a \in Recipients THEN PaidTo(a, c) ELSE 0)
      BY DEF FundsAccounted
    <2>1. funds[a][c] = InitialFunds[a][c] /\ InitialFunds[a][c] \in Nat /\ fees[a] = 0
      BY <1>2, DeployAssumption
    <2>2. PaidOut(a, c) = 0 /\ (a \in Recipients => PaidTo(a, c) = 0) /\ NearUnderWay(a) = 0
      BY <1>8, <1>11, <1>12
    <2> QED
      BY <2>1, <2>2
  <1> QED
    BY <1>4, <1>5, <1>6, <1>9, <1>10, <1>13 DEF SpendingInv

\* Every method of the manager changes the whitelist by Manage.
ManagerCall ==
    \E a \in SpendingAccounts, caller \in Holders :
        \E w : Manage(a, caller, w) /\ Managed(a, whitelist[a], w)

RoleCall ==
    \E a \in SpendingAccounts, caller \in Holders, id \in Holders :
        set_spender(a, caller, id) \/ set_manager(a, caller, id) \/ set_admin(a, caller, id)

SpenderCall ==
    \E a \in SpendingAccounts, caller \in Holders, r \in Recipients, t \in Assets, n \in Amounts :
        Send(a, caller, r, t, n)

\* The steps of Next by what they do.
LEMMA Steps ==
    ASSUME TypeOK, Next
    PROVE  \/ ManagerCall \/ RoleCall \/ SpenderCall
           \/ \E x \in transfers : Succeeds(x) \/ Fails(x) \/ OnTransfer(x)
  <1>1. ASSUME NEW a \in SpendingAccounts, NEW caller \in Holders, NEW entries \in EntryLists,
               AddToWhitelist(a, caller, entries) \/ SetLimit(a, caller, entries)
        PROVE  ManagerCall
    <2>1. whitelist[a] \in Whitelists
      BY DEF TypeOK, Whitelists
    <2>2. CASE AddToWhitelist(a, caller, entries)
      <3>1. PICK w : w = add_to_whitelist(a, whitelist[a], entries)
        OBVIOUS
      <3>2. Manage(a, caller, w) /\ w # None
        BY <2>2, <3>1 DEF AddToWhitelist, Manage
      <3>3. Managed(a, whitelist[a], w)
        BY <2>1, <3>1, <3>2, AddManaged
      <3> QED
        BY <3>2, <3>3 DEF ManagerCall
    <2>3. CASE SetLimit(a, caller, entries)
      <3>1. PICK w : w = set_limit(whitelist[a], entries)
        OBVIOUS
      <3>2. Manage(a, caller, w) /\ w # None
        BY <2>3, <3>1 DEF SetLimit, Manage
      <3>3. Managed(a, whitelist[a], w)
        BY <2>1, <3>1, <3>2, SetManaged
      <3> QED
        BY <3>2, <3>3 DEF ManagerCall
    <2> QED
      BY <1>1, <2>2, <2>3
  <1>2. ASSUME NEW a \in SpendingAccounts, NEW caller \in Holders, NEW keys \in KeyLists,
               RemoveFromWhitelist(a, caller, keys)
        PROVE  ManagerCall
    <2>1. whitelist[a] \in Whitelists
      BY DEF TypeOK, Whitelists
    <2>2. PICK w : w = remove_from_whitelist(whitelist[a], keys)
      OBVIOUS
    <2>3. Manage(a, caller, w) /\ w # None
      BY <1>2, <2>2 DEF RemoveFromWhitelist, Manage
    <2>4. Managed(a, whitelist[a], w)
      BY <2>1, <2>2, <2>3, RemoveManaged
    <2> QED
      BY <2>3, <2>4 DEF ManagerCall
  <1>3. ASSUME NEW a \in SpendingAccounts, NEW caller \in Holders, NEW changes \in ChangeLists,
               IncreaseLimit(a, caller, changes) \/ DecreaseLimit(a, caller, changes)
        PROVE  ManagerCall
    <2>1. whitelist[a] \in Whitelists
      BY DEF TypeOK, Whitelists
    <2>2. CASE IncreaseLimit(a, caller, changes)
      <3>1. PICK w : w = increase_limit(a, whitelist[a], changes)
        OBVIOUS
      <3>2. Manage(a, caller, w) /\ w # None
        BY <2>2, <3>1 DEF IncreaseLimit, Manage
      <3>3. Managed(a, whitelist[a], w)
        BY <2>1, <3>1, <3>2, IncreaseManaged
      <3> QED
        BY <3>2, <3>3 DEF ManagerCall
    <2>3. CASE DecreaseLimit(a, caller, changes)
      <3>1. PICK w : w = decrease_limit(whitelist[a], changes)
        OBVIOUS
      <3>2. Manage(a, caller, w) /\ w # None
        BY <2>3, <3>1 DEF DecreaseLimit, Manage
      <3>3. Managed(a, whitelist[a], w)
        BY <2>1, <3>1, <3>2, DecreaseManaged
      <3> QED
        BY <3>2, <3>3 DEF ManagerCall
    <2> QED
      BY <1>3, <2>2, <2>3
  <1>4. ASSUME NEW a \in SpendingAccounts, NEW caller \in Holders, NEW r \in Recipients, NEW n \in Amounts,
               \/ transfer(a, caller, r, n)
               \/ \E t \in Tokens : transfer_ft(a, caller, r, t, n)
        PROVE  SpenderCall
    BY <1>4 DEF transfer, transfer_ft, SpenderCall, Assets
  <1>5. ASSUME NEW x \in transfers, Settles(x)
        PROVE  Succeeds(x) \/ Fails(x) \/ OnTransfer(x)
    BY <1>5 DEF Settles, on_transfer, on_transfer_ft
  <1> QED
    BY <1>1, <1>2, <1>3, <1>4, <1>5 DEF Next, RoleCall

\* Every step keeps the invariant.
LEMMA NextInv ==
    ASSUME SpendingInv, [Next]_vars
    PROVE  SpendingInv'
  <1>1. CASE Next
    <2>1. TypeOK
      BY DEF SpendingInv
    <2>2. ASSUME ManagerCall PROVE SpendingInv'
      BY <2>2, ManageInv DEF ManagerCall
    <2>3. ASSUME RoleCall PROVE SpendingInv'
      BY <2>3, RolesInv DEF RoleCall
    <2>4. ASSUME SpenderCall PROVE SpendingInv'
      BY <2>4, SendInv DEF SpenderCall
    <2> QED
      BY <1>1, <2>1, <2>2, <2>3, <2>4, Steps, SucceedsInv, FailsInv, OnTransferInv
  <1>2. CASE UNCHANGED vars
    <2>1. UNCHANGED <<spender_id, manager_id, admin_id, whitelist, funds, transfers, sent, edits,
                      granted, revoked, paid, charged, rolled_back, fees>>
      BY <1>2 DEF vars, roles, history, events
    <2>2. /\ \A b, k : InFlight(b, k)' = InFlight(b, k)
          /\ \A b : NearUnderWay(b)' = NearUnderWay(b)
      BY <2>1 DEF InFlight, Reserving, NearUnderWay, UnderWay
    <2>3. \A b, c : PaidOut(b, c)' = PaidOut(b, c) /\ PaidTo(b, c)' = PaidTo(b, c)
      BY <2>1, PaymentsUnchanged
    <2>4. TypeOK' /\ Registered' /\ SelfNotWhitelisted'
      BY <2>1 DEF SpendingInv, TypeOK, Registered, SelfNotWhitelisted
    <2>5. AllowanceConserved' /\ EventsTellPayments' /\ FundsAccounted'
      BY <2>1, <2>2, <2>3 DEF SpendingInv, AllowanceConserved, EventsTellPayments, FundsAccounted
    <2> QED
      BY <2>4, <2>5 DEF SpendingInv
  <1> QED
    BY <1>1, <1>2

\* The invariant holds in every reachable state, however many accounts, keys,
\* transfers and calls of the manager there are.
THEOREM SpendingInvariance == Spec => []SpendingInv
  <1>1. Init => SpendingInv
    BY InitInv
  <1>2. SpendingInv /\ [Next]_vars => SpendingInv'
    BY NextInv
  <1> QED
    BY <1>1, <1>2, PTL DEF Spec

\* Types; in particular no limit ever leaves the range of u128, whatever the
\* callbacks restore (transfer.rs: saturating_add) and the manager adds.
THEOREM SpendingTypeOK == Spec => []TypeOK
  <1>1. SpendingInv => TypeOK
    BY DEF SpendingInv
  <1> QED
    BY <1>1, SpendingInvariance, PTL

\* No sequence of calls and callbacks gives the contract an allowance for
\* itself (whitelist.rs).
THEOREM SelfNotWhitelistedHolds == Spec => []SelfNotWhitelisted
  <1>1. SpendingInv => SelfNotWhitelisted
    BY DEF SpendingInv
  <1> QED
    BY <1>1, SpendingInvariance, PTL

\* All that was granted is unspent, on its way, paid or taken back.
THEOREM AllowanceConservedHolds == Spec => []AllowanceConserved
  <1>1. SpendingInv => AllowanceConserved
    BY DEF SpendingInv
  <1> QED
    BY <1>1, SpendingInvariance, PTL

\* The transfer events less the failure events are the payments made and under way.
THEOREM EventsTellPaymentsHolds == Spec => []EventsTellPayments
  <1>1. SpendingInv => EventsTellPayments
    BY DEF SpendingInv
  <1> QED
    BY <1>1, SpendingInvariance, PTL

\* Funds leave a spending account only as payments, NEAR on its way and fees.
THEOREM FundsAccountedHolds == Spec => []FundsAccounted
  <1>1. SpendingInv => FundsAccounted
    BY DEF SpendingInv
  <1> QED
    BY <1>1, SpendingInvariance, PTL

\* One step of NoResurrection.
Resurrects(a, k) == whitelist[a][k] = None /\ whitelist'[a][k] # None

\* A missing entry appears by the manager's methods alone.
LEMMA ResurrectedByManager ==
    ASSUME SpendingInv, [Next]_vars, NEW a \in SpendingAccounts, NEW k \in Keys, Resurrects(a, k)
    PROVE  edits' > edits
  <1>1. TypeOK /\ Registered /\ edits \in Nat
    BY FiniteAssumption DEF SpendingInv, TypeOK
  <1>2. Next
    BY DEF Resurrects, vars
  <1>3. ASSUME ManagerCall \/ RoleCall PROVE edits' > edits
    <2>1. edits' = edits + 1
      BY <1>3 DEF ManagerCall, RoleCall, Manage, set_spender, set_manager, set_admin
    <2> QED
      BY <1>1, <2>1
  <1>4. ASSUME SpenderCall PROVE FALSE
    <2>1. PICK b \in SpendingAccounts, caller \in Holders, r \in Recipients, t \in Assets, n \in Amounts :
            Send(b, caller, r, t, n)
      BY <1>4 DEF SpenderCall
    <2>2. PICK key : key = <<r, t>>
      OBVIOUS
    <2>3. whitelist[b][key] # None /\ whitelist' = [whitelist EXCEPT ![b][key] = @ - n]
      BY <2>1, <2>2 DEF Send, AllowanceKey
    <2> QED
      BY <1>1, <2>3 DEF Resurrects, TypeOK
  <1>5. ASSUME NEW x \in transfers, Succeeds(x) \/ Fails(x) \/ OnTransfer(x) PROVE FALSE
    <2>1. CASE Succeeds(x) \/ Fails(x)
      BY <2>1 DEF Succeeds, Fails, Resurrects
    <2>2. CASE OnTransfer(x)
      BY <1>1, <2>2, CallbackEffect DEF Resurrects
    <2> QED
      BY <1>5, <2>1, <2>2
  <1> QED
    BY <1>1, <1>2, <1>3, <1>4, <1>5, Steps

\* A callback that comes after the entry was removed does not bring it back
\* (transfer.rs on_transfer): only the manager does.
THEOREM NoResurrectionHolds == Spec => NoResurrection
  <1>1. ASSUME SpendingInv, [Next]_vars
        PROVE  \A a \in SpendingAccounts, k \in Keys :
                  whitelist[a][k] = None /\ whitelist'[a][k] # None => edits' > edits
    BY <1>1, ResurrectedByManager DEF Resurrects
  <1> QED
    BY <1>1, SpendingInvariance, PTL DEF Spec, NoResurrection

-----------------------------------------------------------------------------
(* The contract implements the ledger *)

\* The abstract ledger, key by key.
LEMMA LedgerTypes ==
    ASSUME TypeOK, Registered
    PROVE  /\ Available \in [SpendingAccounts -> [Keys -> 0 .. U128_MAX]]
           /\ Reserved \in [SpendingAccounts -> [Keys -> Nat]]
           /\ \A a \in SpendingAccounts, k \in Keys :
                Available[a][k] = Limit(whitelist[a], k) /\ Reserved[a][k] = InFlight(a, k)
  <1>1. whitelist \in [SpendingAccounts -> Whitelists]
    BY DEF TypeOK, Whitelists
  <1>2. \A a \in SpendingAccounts, k \in Keys : Limit(whitelist[a], k) \in 0 .. U128_MAX
    BY <1>1, LimitType
  <1>3. \A a \in SpendingAccounts, k \in Keys : InFlight(a, k) \in Nat
    BY Sums
  <1> QED
    BY <1>2, <1>3 DEF Available, Reserved

\* The mapped variables after a step.
LEMMA LedgerTypesNext ==
    ASSUME TypeOK', Registered'
    PROVE  /\ Available' \in [SpendingAccounts -> [Keys -> 0 .. U128_MAX]]
           /\ Reserved' \in [SpendingAccounts -> [Keys -> Nat]]
           /\ \A a \in SpendingAccounts, k \in Keys :
                Available'[a][k] = Limit(whitelist'[a], k) /\ Reserved'[a][k] = InFlight(a, k)'
  <1>1. whitelist' \in [SpendingAccounts -> Whitelists]
    BY DEF TypeOK, Whitelists
  <1>2. \A a \in SpendingAccounts, k \in Keys : Limit(whitelist'[a], k) \in 0 .. U128_MAX
    BY <1>1, LimitType
  <1>3. transfers' \subseteq Transfer /\ IsFiniteSet(transfers')
    BY DEF TypeOK, Registered
  <1>4. \A a \in SpendingAccounts, k \in Keys : InFlight(a, k)' \in Nat
    BY <1>3, SumsNext
  <1> QED
    BY <1>2, <1>4 DEF Available, Reserved

\* Two functions of accounts and keys that agree everywhere are equal.
LEMMA SameTable ==
    ASSUME NEW S, NEW f \in [SpendingAccounts -> [Keys -> S]], NEW g \in [SpendingAccounts -> [Keys -> S]],
           \A a \in SpendingAccounts, k \in Keys : f[a][k] = g[a][k]
    PROVE  f = g
  <1>1. ASSUME NEW a \in SpendingAccounts PROVE f[a] = g[a]
    <2>1. f[a] \in [Keys -> S] /\ g[a] \in [Keys -> S]
      OBVIOUS
    <2> QED
      BY <2>1
  <1> QED
    BY <1>1

\* A step that changes one entry of a table of naturals.
LEMMA EntryChanged ==
    ASSUME NEW f \in [SpendingAccounts -> [Keys -> Nat]], NEW g \in [SpendingAccounts -> [Keys -> Nat]],
           NEW a \in SpendingAccounts, NEW k \in Keys, NEW v \in Nat,
           \A b \in SpendingAccounts, j \in Keys : g[b][j] = IF b = a /\ j = k THEN v ELSE f[b][j]
    PROVE  g = [f EXCEPT ![a][k] = v]
  <1>1. PICK h : h = [f EXCEPT ![a][k] = v]
    OBVIOUS
  <1>2. h \in [SpendingAccounts -> [Keys -> Nat]]
    BY <1>1
  <1>3. \A b \in SpendingAccounts, j \in Keys : g[b][j] = h[b][j]
    BY <1>1
  <1>4. g = h
    BY <1>2, <1>3, SameTable
  <1> QED
    BY <1>1, <1>4

\* The methods of manager and admin are a Regrant of the ledger.
LEMMA ManageRegrants ==
    ASSUME SpendingInv, SpendingInv', ManagerCall \/ RoleCall
    PROVE  Ledger!Next
  <1>1. TypeOK /\ Registered /\ TypeOK' /\ Registered'
    BY DEF SpendingInv
  <1>2. PICK a \in SpendingAccounts :
          /\ edits' = edits + 1 /\ paid' = paid
          /\ \A b \in SpendingAccounts : b # a => whitelist'[b] = whitelist[b]
          /\ \A b, k : InFlight(b, k)' = InFlight(b, k)
    <2>1. CASE ManagerCall
      <3>1. PICK a \in SpendingAccounts, caller \in Holders : \E w : Manage(a, caller, w)
        BY <2>1 DEF ManagerCall
      <3> PICK w : Manage(a, caller, w)
        BY <3>1
      <3>2. \A b, k : InFlight(b, k)' = InFlight(b, k)
        BY <1>1, ManageEffect
      <3>3. edits' = edits + 1 /\ paid' = paid /\ whitelist' = [whitelist EXCEPT ![a] = w]
        BY DEF Manage
      <3>4. \A b \in SpendingAccounts : b # a => whitelist'[b] = whitelist[b]
        BY <1>1, <3>3 DEF TypeOK
      <3> QED
        BY <3>2, <3>3, <3>4
    <2>2. CASE RoleCall
      <3>1. PICK a \in SpendingAccounts, caller \in Holders, id \in Holders :
              set_spender(a, caller, id) \/ set_manager(a, caller, id) \/ set_admin(a, caller, id)
        BY <2>2 DEF RoleCall
      <3>2. edits' = edits + 1 /\ paid' = paid /\ whitelist' = whitelist /\ transfers' = transfers
        BY <3>1 DEF set_spender, set_manager, set_admin, history
      <3>3. \A b, k : InFlight(b, k)' = InFlight(b, k)
        BY <3>2 DEF InFlight, Reserving
      <3> QED
        BY <3>2, <3>3
    <2> QED
      BY <2>1, <2>2
  <1>3. Available' \in [SpendingAccounts -> [Keys -> 0 .. U128_MAX]]
    BY <1>1, LedgerTypesNext
  <1>4. \A b \in SpendingAccounts \ {a} : Available'[b] = Available[b]
    BY <1>2 DEF Available
  <1>5. Reserved' = Reserved
    BY <1>2 DEF Reserved
  <1>6. Ledger!Regrant(a)
    BY <1>2, <1>3, <1>4, <1>5 DEF Ledger!Regrant
  <1> QED
    BY <1>6 DEF Ledger!Next

\* transfer and transfer_ft reserve in the ledger.
LEMMA SendReserves ==
    ASSUME SpendingInv, SpendingInv', SpenderCall
    PROVE  Ledger!Next
  <1>1. TypeOK /\ Registered /\ TypeOK' /\ Registered'
    BY DEF SpendingInv
  <1>2. PICK a \in SpendingAccounts, caller \in Holders, r \in Recipients, t \in Assets, n \in Amounts :
          Send(a, caller, r, t, n)
    BY DEF SpenderCall
  <1>3. PICK k \in Keys : k = <<r, t>>
    <2>1. <<r, t>> \in Keys
      BY DEF Keys
    <2> QED
      BY <2>1
  <1>4. /\ transfers' \subseteq Transfer /\ Registered'
        /\ \A b, j : InFlight(b, j)' = InFlight(b, j) + IF a = b /\ <<r, t>> = j THEN n ELSE 0
        /\ \A b : NearUnderWay(b)' = NearUnderWay(b) + IF a = b THEN Attached(t, n) ELSE 0
    BY <1>1, <1>2, SendEffect
  <1>5. /\ n > 0 /\ whitelist[a][k] # None /\ n <= whitelist[a][k]
        /\ whitelist' = [whitelist EXCEPT ![a][k] = @ - n] /\ UNCHANGED <<paid, edits>>
    BY <1>2, <1>3 DEF Send, AllowanceKey
  <1>6. n \in 1 .. U128_MAX /\ U128_MAX \in Nat
    BY <1>5, AmountAssumption, U128Assumption
  <1>7. /\ Available \in [SpendingAccounts -> [Keys -> 0 .. U128_MAX]]
        /\ Reserved \in [SpendingAccounts -> [Keys -> Nat]]
        /\ Available' \in [SpendingAccounts -> [Keys -> 0 .. U128_MAX]]
        /\ Reserved' \in [SpendingAccounts -> [Keys -> Nat]]
    BY <1>1, LedgerTypes, LedgerTypesNext
  <1>8. whitelist[a][k] \in Nat /\ whitelist[a][k] - n \in Nat
    BY <1>1, <1>5, <1>6 DEF TypeOK
  <1>9. ASSUME NEW b \in SpendingAccounts, NEW j \in Keys
        PROVE  /\ Available'[b][j] = IF b = a /\ j = k THEN Available[a][k] - n ELSE Available[b][j]
               /\ Reserved'[b][j] = IF b = a /\ j = k THEN Reserved[a][k] + n ELSE Reserved[b][j]
    <2>1. /\ Available[b][j] = Limit(whitelist[b], j) /\ Available'[b][j] = Limit(whitelist'[b], j)
          /\ Reserved[b][j] = InFlight(b, j) /\ Reserved'[b][j] = InFlight(b, j)'
      BY <1>1, LedgerTypes, LedgerTypesNext
    <2>2. InFlight(b, j) \in Nat
      BY <1>1, Sums
    <2>3. whitelist'[b][j] = IF b = a /\ j = k THEN whitelist[a][k] - n ELSE whitelist[b][j]
      BY <1>1, <1>5 DEF TypeOK
    <2>4. CASE b = a /\ j = k
      <3>1. Limit(whitelist[b], j) = whitelist[a][k] /\ Limit(whitelist'[b], j) = whitelist[a][k] - n
        BY <1>5, <1>8, <2>3, <2>4, NoneAssumption DEF Limit
      <3> QED
        BY <1>3, <1>4, <2>1, <2>4, <3>1
    <2>5. CASE ~(b = a /\ j = k)
      <3>1. Limit(whitelist'[b], j) = Limit(whitelist[b], j)
        BY <2>3, <2>5 DEF Limit
      <3> QED
        BY <1>3, <1>4, <2>1, <2>2, <2>5, <3>1
    <2> QED
      BY <2>4, <2>5
  <1>10. n <= Available[a][k] /\ Available[a][k] - n \in Nat /\ Reserved[a][k] + n \in Nat
    <2>1. Available[a][k] = whitelist[a][k]
      BY <1>1, <1>5, LedgerTypes DEF Limit
    <2> QED
      BY <1>5, <1>6, <1>7, <1>8, <2>1
  <1>11. /\ Available \in [SpendingAccounts -> [Keys -> Nat]]
         /\ Available' \in [SpendingAccounts -> [Keys -> Nat]]
    BY <1>6, <1>7
  <1>12. Available' = [Available EXCEPT ![a][k] = Available[a][k] - n]
    BY <1>9, <1>10, <1>11, EntryChanged
  <1>13. Reserved' = [Reserved EXCEPT ![a][k] = Reserved[a][k] + n]
    BY <1>7, <1>9, <1>10, EntryChanged
  <1>14. Ledger!Reserve(a, k, n)
    BY <1>5, <1>7, <1>10, <1>12, <1>13 DEF Ledger!Reserve
  <1> QED
    BY <1>6, <1>14 DEF Ledger!Next

\* A transfer never holds more than all transfers together.
LEMMA HeldInFlight ==
    ASSUME TypeOK, Registered, NEW x \in transfers, NEW a, NEW k
    PROVE  HeldBy(x, a, k) \in Nat /\ HeldBy(x, a, k) <= InFlight(a, k)
  <1>1. transfers \in SUBSET Transfer /\ IsFiniteSet(transfers) /\ x \in Transfer
    BY DEF TypeOK, Registered
  <1>2. PICK T \in SUBSET Transfer : T = transfers \ {x}
    BY <1>1
  <1>3. IsFiniteSet(T)
    BY <1>1, <1>2, FS_Subset
  <1>4. Held(T, a, k) = Held(transfers, a, k) - HeldBy(x, a, k)
    BY <1>1, <1>2, TransferRemoved
  <1>5. PICK R : R = {y \in T : y.from = a /\ KeyOf(y) = k /\ y.result # "ok"}
    OBVIOUS
  <1>6. SumFunctionOnSet([y \in R |-> y.amount], R) = Held(T, a, k) /\ Held(T, a, k) \in Nat
    BY <1>3, <1>5, HeldIs
  <1>7. InFlight(a, k) = Held(transfers, a, k) /\ InFlight(a, k) \in Nat
    BY Sums
  <1>8. HeldBy(x, a, k) \in Nat
    BY <1>1, HeldByIs
  <1> QED
    BY <1>4, <1>6, <1>7, <1>8

\* A successful receipt pays in the ledger.
LEMMA SucceedsPays ==
    ASSUME SpendingInv, SpendingInv', NEW x \in transfers, Succeeds(x)
    PROVE  Ledger!Next
  <1>1. TypeOK /\ Registered /\ TypeOK' /\ Registered' /\ x \in Transfer
    BY DEF SpendingInv, TypeOK
  <1>2. PICK a \in SpendingAccounts : a = x.from
    BY <1>1 DEF Transfer
  <1>3. PICK k \in Keys : k = KeyOf(x)
    BY <1>1 DEF Transfer, KeyOf, Keys
  <1>4. PICK n \in 1 .. U128_MAX : n = x.amount
    BY <1>1 DEF Transfer
  <1>5. \A b, j : HeldBy(x, b, j) = IF b = a /\ j = k THEN n ELSE 0
    <2>1. x.result = None /\ None # "ok"
      BY ResultAssumption DEF Succeeds
    <2> QED
      BY <1>2, <1>3, <1>4, <2>1 DEF HeldBy
  <1>6. /\ transfers' \subseteq Transfer /\ Registered'
        /\ \A b, j : InFlight(b, j)' = InFlight(b, j) - HeldBy(x, b, j)
        /\ \A b : NearUnderWay(b)' = NearUnderWay(b) - NearBy(x, b)
    BY <1>1, SucceedsEffect
  <1>7. whitelist' = whitelist /\ edits' = edits /\ paid' = [paid EXCEPT ![a][k] = @ + n]
    BY <1>2, <1>3, <1>4 DEF Succeeds
  <1>8. /\ Reserved \in [SpendingAccounts -> [Keys -> Nat]]
        /\ Reserved' \in [SpendingAccounts -> [Keys -> Nat]]
    BY <1>1, LedgerTypes, LedgerTypesNext
  <1>9. n \in Nat /\ n <= InFlight(a, k) /\ InFlight(a, k) \in Nat
    <2>1. HeldBy(x, a, k) <= InFlight(a, k)
      BY <1>1, HeldInFlight
    <2>2. InFlight(a, k) \in Nat
      BY <1>1, Sums
    <2> QED
      BY <1>4, <1>5, <2>1, <2>2, U128Assumption
  <1>10. Reserved[a][k] = InFlight(a, k)
    BY <1>1, LedgerTypes
  <1>11. ASSUME NEW b \in SpendingAccounts, NEW j \in Keys
         PROVE  Reserved'[b][j] = IF b = a /\ j = k THEN Reserved[a][k] - n ELSE Reserved[b][j]
    <2>1. Reserved[b][j] = InFlight(b, j) /\ Reserved'[b][j] = InFlight(b, j)'
      BY <1>1, LedgerTypes, LedgerTypesNext
    <2>2. InFlight(b, j) \in Nat
      BY <1>1, Sums
    <2> QED
      BY <1>5, <1>6, <1>9, <2>1, <2>2
  <1>12. Reserved[a][k] - n \in Nat
    BY <1>9, <1>10
  <1>13. Reserved' = [Reserved EXCEPT ![a][k] = Reserved[a][k] - n]
    BY <1>8, <1>11, <1>12, EntryChanged
  <1>14. Available' = Available
    BY <1>7 DEF Available
  <1>15. Ledger!Pay(a, k, n)
    BY <1>7, <1>8, <1>9, <1>10, <1>13, <1>14 DEF Ledger!Pay
  <1> QED
    BY <1>15 DEF Ledger!Next

\* A callback releases what was reserved, or changes nothing.
LEMMA CallbackReleases ==
    ASSUME SpendingInv, SpendingInv', NEW x \in transfers, OnTransfer(x)
    PROVE  Ledger!Next \/ UNCHANGED <<Available, Reserved, paid, edits>>
  <1>1. TypeOK /\ Registered /\ TypeOK' /\ Registered' /\ x \in Transfer
    BY DEF SpendingInv, TypeOK
  <1>2. PICK a \in SpendingAccounts : a = x.from
    BY <1>1 DEF Transfer
  <1>3. PICK k \in Keys : k = KeyOf(x)
    BY <1>1 DEF Transfer, KeyOf, Keys
  <1>4. PICK n \in Nat : n = HeldBy(x, a, k)
    BY <1>1, HeldByIs
  <1>5. \A b, j : HeldBy(x, b, j) = IF b = a /\ j = k THEN n ELSE 0
    BY <1>2, <1>3, <1>4 DEF HeldBy
  <1>6. /\ transfers' \subseteq Transfer /\ Registered'
        /\ \A b, j : InFlight(b, j)' = InFlight(b, j) - HeldBy(x, b, j)
        /\ \A b : NearUnderWay(b)' = NearUnderWay(b)
    BY <1>1, OnTransferEffect
  <1>7. PICK lost \in Nat :
          /\ \A b \in SpendingAccounts, j \in Keys :
               /\ whitelist[b][j] = None => whitelist'[b][j] = None
               /\ revoked'[b][j] = revoked[b][j] + IF x.from = b /\ KeyOf(x) = j THEN lost ELSE 0
               /\ Limit(whitelist'[b], j) = Limit(whitelist[b], j) + HeldBy(x, b, j)
                                              - IF x.from = b /\ KeyOf(x) = j THEN lost ELSE 0
          /\ lost <= HeldBy(x, x.from, KeyOf(x))
    BY <1>1, CallbackEffect
  <1>8. lost <= n
    BY <1>2, <1>3, <1>4, <1>7
  <1>9. paid' = paid /\ edits' = edits
    BY DEF OnTransfer
  <1>10. /\ Available \in [SpendingAccounts -> [Keys -> 0 .. U128_MAX]]
         /\ Available' \in [SpendingAccounts -> [Keys -> 0 .. U128_MAX]]
         /\ Reserved \in [SpendingAccounts -> [Keys -> Nat]]
         /\ Reserved' \in [SpendingAccounts -> [Keys -> Nat]]
    BY <1>1, LedgerTypes, LedgerTypesNext
  <1>11. /\ Available \in [SpendingAccounts -> [Keys -> Nat]]
         /\ Available' \in [SpendingAccounts -> [Keys -> Nat]]
    BY <1>10, U128Assumption
  <1>12. ASSUME NEW b \in SpendingAccounts, NEW j \in Keys
         PROVE  /\ Available'[b][j] = IF b = a /\ j = k THEN Available[a][k] + (n - lost) ELSE Available[b][j]
                /\ Reserved'[b][j] = IF b = a /\ j = k THEN Reserved[a][k] - n ELSE Reserved[b][j]
    <2>1. /\ Available[b][j] = Limit(whitelist[b], j) /\ Available'[b][j] = Limit(whitelist'[b], j)
          /\ Reserved[b][j] = InFlight(b, j) /\ Reserved'[b][j] = InFlight(b, j)'
      BY <1>1, LedgerTypes, LedgerTypesNext
    <2>2. Available[b][j] \in Nat /\ Reserved[b][j] \in Nat
      BY <1>10, <1>11
    <2>3. CASE b = a /\ j = k
      BY <1>2, <1>3, <1>4, <1>6, <1>7, <2>1, <2>2, <2>3
    <2>4. CASE ~(b = a /\ j = k)
      <3>1. HeldBy(x, b, j) = 0 /\ ~(x.from = b /\ KeyOf(x) = j)
        BY <1>2, <1>3, <1>5, <2>4
      <3>2. InFlight(b, j)' = InFlight(b, j) - 0 /\ Limit(whitelist'[b], j) = Limit(whitelist[b], j) + 0 - 0
        BY <1>6, <1>7, <3>1
      <3> QED
        BY <2>1, <2>2, <2>4, <3>2
    <2> QED
      BY <2>3, <2>4
  <1>13. n <= Reserved[a][k] /\ Reserved[a][k] - n \in Nat /\ Available[a][k] + (n - lost) \in Nat
    <2>1. n <= InFlight(a, k)
      BY <1>1, <1>4, HeldInFlight
    <2>2. Reserved[a][k] = InFlight(a, k)
      BY <1>1, LedgerTypes
    <2>3. Reserved[a][k] \in Nat /\ Available[a][k] \in Nat
      BY <1>10, <1>11
    <2> QED
      BY <1>8, <2>1, <2>2, <2>3
  <1>14. Available' = [Available EXCEPT ![a][k] = Available[a][k] + (n - lost)]
    BY <1>11, <1>12, <1>13, EntryChanged
  <1>15. Reserved' = [Reserved EXCEPT ![a][k] = Reserved[a][k] - n]
    BY <1>10, <1>12, <1>13, EntryChanged
  <1>16. CASE n = 0
    <2>1. Available[a][k] + (n - lost) = Available[a][k] /\ Reserved[a][k] - n = Reserved[a][k]
      BY <1>8, <1>10, <1>11, <1>16
    <2>2. \A b \in SpendingAccounts, j \in Keys :
            Available'[b][j] = Available[b][j] /\ Reserved'[b][j] = Reserved[b][j]
      BY <1>12, <2>1
    <2>3. Available' = Available
      BY <1>11, <2>2, SameTable
    <2>4. Reserved' = Reserved
      BY <1>10, <2>2, SameTable
    <2> QED
      BY <1>9, <2>3, <2>4
  <1>17. CASE n # 0
    <2>1. n \in 1 .. U128_MAX
      <3>1. x.amount \in 1 .. U128_MAX /\ (n = x.amount \/ n = 0)
        BY <1>1, <1>4 DEF HeldBy, Transfer
      <3> QED
        BY <1>17, <3>1
    <2>2. PICK m \in 0 .. n : m = n - lost
      BY <1>8
    <2>3. Available' = [Available EXCEPT ![a][k] = @ + m]
      BY <1>11, <1>14, <2>2
    <2>4. Reserved' = [Reserved EXCEPT ![a][k] = @ - n]
      BY <1>10, <1>15
    <2>5. Ledger!Release(a, k, n)
      BY <1>9, <1>13, <2>2, <2>3, <2>4 DEF Ledger!Release
    <2> QED
      BY <2>1, <2>5 DEF Ledger!Next
  <1> QED
    BY <1>16, <1>17

\* Every step is one of the ledger or changes nothing there.
LEMMA LedgerStep ==
    ASSUME SpendingInv, [Next]_vars
    PROVE  [Ledger!Next]_<<Available, Reserved, paid, edits>>
  <1>1. SpendingInv' /\ TypeOK /\ Registered
    BY NextInv DEF SpendingInv
  <1>2. ASSUME UNCHANGED vars PROVE UNCHANGED <<Available, Reserved, paid, edits>>
    BY <1>2 DEF vars, history, Available, Reserved, InFlight, Reserving
  <1>3. ASSUME NEW x \in transfers, Fails(x) PROVE UNCHANGED <<Available, Reserved, paid, edits>>
    <2>1. whitelist' = whitelist /\ paid' = paid /\ edits' = edits
      BY <1>3 DEF Fails, history
    <2>2. /\ transfers' \subseteq Transfer /\ Registered'
          /\ \A b, k : InFlight(b, k)' = InFlight(b, k)
          /\ \A b : NearUnderWay(b)' = NearUnderWay(b) - NearBy(x, b)
      BY <1>1, <1>3, FailsEffect
    <2>3. Available' = Available
      BY <2>1 DEF Available
    <2>4. Reserved' = Reserved
      BY <2>2 DEF Reserved
    <2> QED
      BY <2>1, <2>3, <2>4
  <1>4. ASSUME NEW x \in transfers, Succeeds(x) PROVE Ledger!Next
    BY <1>1, <1>4, SucceedsPays
  <1>5. ASSUME NEW x \in transfers, OnTransfer(x)
        PROVE  Ledger!Next \/ UNCHANGED <<Available, Reserved, paid, edits>>
    BY <1>1, <1>5, CallbackReleases
  <1>6. ASSUME ManagerCall \/ RoleCall PROVE Ledger!Next
    BY <1>1, <1>6, ManageRegrants
  <1>7. ASSUME SpenderCall PROVE Ledger!Next
    BY <1>1, <1>7, SendReserves
  <1>8. CASE Next
    BY <1>1, <1>3, <1>4, <1>5, <1>6, <1>7, <1>8, Steps
  <1> QED
    BY <1>2, <1>8

\* The initial states map to the ledger's.
LEMMA LedgerInit == Init => Ledger!Init
  <1> SUFFICES ASSUME Init PROVE Ledger!Init
    OBVIOUS
  <1>1. TypeOK /\ Registered
    BY InitInv DEF SpendingInv
  <1>2. /\ transfers = {} /\ edits = 0 /\ paid = Zero
        /\ whitelist = [a \in SpendingAccounts |-> [k \in Keys |-> None]]
    BY DEF Init, new
  <1>3. Available = [a \in SpendingAccounts |-> [k \in Keys |-> 0]]
    BY <1>2 DEF Available, Limit
  <1>4. \A a, k : InFlight(a, k) = 0
    <2> TAKE a, k
    <2>1. PICK f : f = [x \in Reserving(a, k) |-> x.amount]
      OBVIOUS
    <2>2. Reserving(a, k) = {}
      BY <1>2 DEF Reserving
    <2>3. SumFunctionOnSet(f, {}) = 0
      BY SumEmpty
    <2> QED
      BY <2>1, <2>2, <2>3 DEF InFlight
  <1>5. Reserved = [a \in SpendingAccounts |-> [k \in Keys |-> 0]]
    BY <1>4 DEF Reserved
  <1> QED
    BY <1>2, <1>3, <1>5 DEF Ledger!Init, Ledger!Empty, Zero

\* Every spending account, with its receipts, its callbacks and a whitelist that
\* changes under transfers on their way, behaves as the abstract ledger
\* (transfer.rs, whitelist.rs): an allowance is paid at most once, out of what
\* was reserved, and at most what was reserved comes back.
THEOREM LedgerRefinement == Spec => ImplementsLedger
  <1>1. SpendingInv /\ [Next]_vars => [Ledger!Next]_<<Available, Reserved, paid, edits>>
    BY LedgerStep
  <1> QED
    BY <1>1, LedgerInit, SpendingInvariance, PTL DEF Spec, ImplementsLedger, Ledger!Spec, Ledger!ledger
============================================================================
