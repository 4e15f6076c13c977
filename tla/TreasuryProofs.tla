--------------------------- MODULE TreasuryProofs ---------------------------
(***************************************************************************)
(* Theorems about Treasury, for any number of timelocks, spending accounts *)
(* and calls in a batch: what a role held by a timelock allows has waited, *)
(* no call of a request takes effect twice, and of every batch all calls   *)
(* take effect or none.                                                    *)
(***************************************************************************)
EXTENDS Treasury, DaoTimelockProofs

-----------------------------------------------------------------------------
(* The inductive invariant *)

\* The variables of the accounts that the argument is about are functions on them.
Shape(spenders, managers, admins, w, c) ==
    /\ DOMAIN spenders = SpendingAccounts /\ DOMAIN managers = SpendingAccounts
    /\ DOMAIN admins = SpendingAccounts
    /\ DOMAIN w = SpendingAccounts /\ DOMAIN c = SpendingAccounts
    /\ \A a \in SpendingAccounts : DOMAIN w[a] = SA!Keys

TransferFields == {"nonce", "from", "receiver_id", "token_id", "amount", "result", "orphan"}

\* The transfer x is what the call says at the account receiver_id.
Orders(x, receiver_id, call) ==
    /\ receiver_id = x.from
    /\ call.args.receiver_id = x.receiver_id
    /\ x.token_id = IF call.method_name = "transfer" THEN None ELSE call.args.token_id
    /\ call.args.amount = x.amount

\* The call of a request in the record S of scheduled requests that c names
\* orders x.
Ordered(S, x, c) ==
    c.request_id # None =>
        /\ c.by \in Timelocks /\ c.request_id \in RequestIds
        /\ S[c.by][c.request_id] # None
        /\ Orders(x, S[c.by][c.request_id].request.receiver_id,
                     S[c.by][c.request_id].request.actions[c.index])

CallRecord ==
    [by : Accounts, request_id : RequestIds \cup {None}, index : Nat \cup {None},
     nonce : Nat \cup {None}]

\* One of the calls cs has sent x, and orders it.
HasOrder(S, x, cs) == \E i \in 1 .. Len(cs) : cs[i].nonce = x.nonce /\ Ordered(S, x, cs[i])

WellFormed(x, n) ==
    DOMAIN x = TransferFields /\ x.nonce \in 0 .. n - 1 /\ x.result \in {None, "ok", "failed"}

\* The n transfers sent and the e edits made are the calls cs.
Recorded(S, ts, n, e, cs) ==
    /\ n \in Nat /\ e \in Nat /\ cs \in Seq(CallRecord) /\ Len(cs) = n + e
    /\ \A x \in ts : WellFormed(x, n) /\ HasOrder(S, x, cs)

MadeOnce(cs) ==
    \A i, j \in 1 .. Len(cs) : cs[i].request_id # None /\ SameCall(cs[i], cs[j]) => i = j

Deliveries == [t \in Timelocks |-> DeliveredIds(t)]

\* The batch that made a call is among the delivered ones.
Ended(D, c) == c.request_id # None => c.by \in Timelocks /\ c.request_id \in D[c.by]

AllEnded(D, cs) == \A i \in 1 .. Len(cs) : Ended(D, cs[i])

IsCall(c, t, id, k) == c.by = t /\ c.request_id = id /\ c.index = k

\* The k-th call of request id of timelock t is among the calls cs.
Made(cs, t, id, k) == \E i \in 1 .. Len(cs) : IsCall(cs[i], t, id, k)

\* All calls were made by batches delivered or are of b.
MadeBefore(D, cs, b) ==
    \A i \in 1 .. Len(cs) : Ended(D, cs[i]) \/ (cs[i].by = b.from /\ cs[i].request_id = b.request_id)

\* Of the delivered batch of t that d records all calls were made, or none.
WholeBatch(S, t, d, cs) ==
    S[t][d.request_id].request.receiver_id \in SpendingAccounts =>
        \A k : Made(cs, t, d.request_id, k)
                 <=> d.ok /\ k \in DOMAIN S[t][d.request_id].request.actions

Whole(S, L, cs) == \A t \in Timelocks : \A i \in DOMAIN L[t] : WholeBatch(S, t, L[t][i], cs)

RunningFields ==
    {"batch", "next", "spender_id", "manager_id", "account_admin", "whitelist", "funds",
     "transfers", "sent", "edits", "granted", "revoked", "charged", "calls"}

\* What a batch being run started from is a state between two batches.
SavedFacts(r) ==
    /\ DOMAIN r = RunningFields /\ r.next \in Nat \ {0}
    /\ r.batch.request.receiver_id \in SpendingAccounts
    /\ r.next <= Len(r.batch.request.actions) + 1
    /\ Shape(r.spender_id, r.manager_id, r.account_admin, r.whitelist, r.charged)
    /\ MadeOnce(r.calls)

\* The calls of the batch being run that were made are the first ones.
RunningFacts(r) ==
    /\ running = {r} /\ SavedFacts(r) /\ r.batch \in batches
    /\ Recorded(scheduled, r.transfers, r.sent, r.edits, r.calls)
    /\ AllEnded(Deliveries, r.calls)
    /\ Whole(scheduled, delivered, r.calls)
    /\ MadeBefore(Deliveries, calls, r.batch)
    /\ \A k : Made(calls, r.batch.from, r.batch.request_id, k) <=> k \in 1 .. r.next - 1

\* The inductive invariant of the treasury.
TreasuryInv ==
    /\ DeliveryInv
    /\ Shape(spender_id, manager_id, account_admin, whitelist, charged)
    /\ Recorded(scheduled, transfers, sent, edits, calls)
    /\ MadeOnce(calls)
    /\ Whole(scheduled, delivered, calls)
    /\ running = {} => AllEnded(Deliveries, calls)
    /\ \A r \in running : RunningFacts(r)

-----------------------------------------------------------------------------
(* What the methods of a spending account do *)

\* y is x with another result or mark.
Same(x, y) ==
    /\ DOMAIN y = TransferFields
    /\ y.nonce = x.nonce /\ y.from = x.from /\ y.receiver_id = x.receiver_id
    /\ y.token_id = x.token_id /\ y.amount = x.amount
    /\ y.result \in {None, "ok", "failed"}

\* Nothing was sent, and the transfers stay what they are.
NothingSent == sent' = sent /\ \A y \in transfers' : \E x \in transfers : Same(x, y)

\* One transfer was sent, as the call says.
OneSent(a, call) ==
    /\ sent' = sent + 1
    /\ \A y \in transfers' :
         \/ y \in transfers
         \/ DOMAIN y = TransferFields /\ y.nonce = sent /\ y.result = None /\ Orders(y, a, call)

\* Only a changes, and what changes there is what the caller's roles allow.
Allowed(a, caller) ==
    \A c \in SpendingAccounts :
        /\ charged'[c] # charged[c] => c = a /\ caller = spender_id[a]
        /\ Edited(c) => c = a /\ caller = manager_id[a]
        /\ RolesOf(c)' # RolesOf(c) => c = a /\ caller = account_admin[a]

ShapeNow == Shape(spender_id, manager_id, account_admin, whitelist, charged)

FieldsNow == sent \in Nat /\ \A x \in transfers : WellFormed(x, sent)

\* Where no limit changes none is edited.
LEMMA NotEdited ==
    ASSUME NEW a, whitelist'[a] = whitelist[a]
    PROVE  ~Edited(a)
  BY DEF Edited

\* The manager's methods change limits and mark transfers.
LEMMA ManageEffect ==
    ASSUME ShapeNow, FieldsNow, NEW a \in SpendingAccounts, NEW caller, NEW w, SA!Manage(a, caller, w),
           w = None \/ DOMAIN w = SA!Keys
    PROVE  Allowed(a, caller) /\ ShapeNow' /\ NothingSent /\ edits' = edits + 1
  <1>1. /\ caller = manager_id[a] /\ w # None /\ edits' = edits + 1
        /\ UNCHANGED <<spender_id, manager_id, account_admin, sent, charged>>
    BY DEF SA!Manage, SA!assert_manager, SA!roles, SA!events
  <1>2. whitelist' = [whitelist EXCEPT ![a] = w]
    BY DEF SA!Manage
  <1>3. ShapeNow'
    BY <1>1, <1>2 DEF ShapeNow, Shape
  <1>4. Allowed(a, caller)
    BY <1>1, <1>2, NotEdited DEF Allowed, ShapeNow, Shape, RolesOf
  <1>5. ASSUME NEW y \in transfers'
        PROVE  \E x \in transfers : Same(x, y)
    <2>1. PICK x \in transfers :
            y = [x EXCEPT !.orphan = x.orphan \/ (x.from = a /\ w[SA!KeyOf(x)] = None)]
      BY DEF SA!Manage
    <2>2. DOMAIN x = TransferFields /\ x.result \in {None, "ok", "failed"}
      BY DEF FieldsNow, WellFormed
    <2>3. Same(x, y)
      BY <2>1, <2>2 DEF Same, TransferFields
    <2> QED
      BY <2>3
  <1> QED
    BY <1>1, <1>3, <1>4, <1>5 DEF NothingSent

\* The admin's methods change a role.
LEMMA SetterEffect ==
    ASSUME ShapeNow, FieldsNow, NEW a \in SpendingAccounts, NEW caller, NEW id,
           SA!set_spender(a, caller, id) \/ SA!set_manager(a, caller, id) \/ SA!set_admin(a, caller, id)
    PROVE  Allowed(a, caller) /\ ShapeNow' /\ NothingSent /\ edits' = edits + 1
  <1>1. /\ caller = account_admin[a] /\ edits' = edits + 1
        /\ UNCHANGED <<transfers, sent, whitelist, charged>>
    BY DEF SA!set_spender, SA!set_manager, SA!set_admin, SA!assert_admin, SA!history, SA!events
  <1>2. /\ DOMAIN spender_id' = DOMAIN spender_id /\ DOMAIN manager_id' = DOMAIN manager_id
        /\ DOMAIN account_admin' = DOMAIN account_admin
        /\ \A c \in SpendingAccounts :
             c # a => /\ spender_id'[c] = spender_id[c] /\ manager_id'[c] = manager_id[c]
                      /\ account_admin'[c] = account_admin[c]
    BY DEF SA!set_spender, SA!set_manager, SA!set_admin, ShapeNow, Shape
  <1>3. ShapeNow'
    BY <1>1, <1>2 DEF ShapeNow, Shape
  <1>4. Allowed(a, caller)
    BY <1>1, <1>2, NotEdited DEF Allowed, RolesOf
  <1>5. NothingSent
    BY <1>1 DEF NothingSent, FieldsNow, WellFormed, Same
  <1> QED
    BY <1>1, <1>3, <1>4, <1>5

\* The spender's methods send one transfer of the amount asked for, and take it
\* off the entry that is charged.
LEMMA SendEffect ==
    ASSUME ShapeNow, FieldsNow, NEW a \in SpendingAccounts, NEW caller,
           NEW receiver_id, NEW token_id, NEW amount,
           SA!Send(a, caller, receiver_id, token_id, amount)
    PROVE  /\ Allowed(a, caller) /\ ShapeNow' /\ sent' = sent + 1 /\ edits' = edits
           /\ \A y \in transfers' :
                \/ y \in transfers
                \/ /\ DOMAIN y = TransferFields /\ y.nonce = sent /\ y.from = a /\ y.result = None
                   /\ y.receiver_id = receiver_id /\ y.token_id = token_id /\ y.amount = amount
  <1>1. /\ caller = spender_id[a]
        /\ UNCHANGED <<spender_id, manager_id, account_admin, edits>>
        /\ sent' = sent + 1
    BY DEF SA!Send, SA!IsSpender, SA!roles
  <1>2. DOMAIN charged' = DOMAIN charged /\ \A c \in DOMAIN charged : c # a => charged'[c] = charged[c]
    BY DEF SA!Send
  <1>3. PICK key : /\ key = <<receiver_id, token_id>> /\ whitelist[a][key] # None
                   /\ whitelist' = [whitelist EXCEPT ![a][key] = whitelist[a][key] - amount]
    BY DEF SA!Send, SA!AllowanceKey
  <1>4. /\ DOMAIN whitelist' = DOMAIN whitelist /\ DOMAIN whitelist'[a] = DOMAIN whitelist[a]
        /\ \A c \in DOMAIN whitelist : c # a => whitelist'[c] = whitelist[c]
        /\ \A k \in DOMAIN whitelist[a] : k # key => whitelist'[a][k] = whitelist[a][k]
        /\ key \in DOMAIN whitelist[a] => whitelist'[a][key] = whitelist[a][key] - amount
    BY <1>3 DEF ShapeNow, Shape
  <1>5. ShapeNow'
    BY <1>1, <1>2, <1>4 DEF ShapeNow, Shape
  <1>6. PICK y0 : /\ y0 = [nonce |-> sent, from |-> a, receiver_id |-> receiver_id,
                           token_id |-> token_id, amount |-> amount, result |-> None, orphan |-> FALSE]
                  /\ transfers' = transfers \cup {y0}
    BY DEF SA!Send, SA!AmountSent
  <1>7. /\ DOMAIN y0 = TransferFields /\ y0.nonce = sent /\ y0.from = a /\ y0.result = None
        /\ y0.receiver_id = receiver_id /\ y0.token_id = token_id /\ y0.amount = amount
    BY <1>6 DEF TransferFields
  <1>8. y0 \in transfers' \ transfers
    BY <1>6, <1>7 DEF FieldsNow, WellFormed
  <1>9. ~Edited(a)
    <2> SUFFICES ASSUME NEW k \in SA!Keys, whitelist'[a][k] # whitelist[a][k]
                 PROVE  Charges(a, k)
      BY DEF Edited
    <2>1. k = key /\ key \in DOMAIN whitelist[a]
      BY <1>4 DEF ShapeNow, Shape
    <2>2. SA!KeyOf(y0) = k
      BY <1>3, <1>7, <2>1 DEF SA!KeyOf
    <2> QED
      BY <1>3, <1>4, <1>7, <1>8, <2>1, <2>2 DEF Charges
  <1>10. Allowed(a, caller)
    BY <1>1, <1>2, <1>4, <1>9, NotEdited DEF Allowed, ShapeNow, Shape, RolesOf
  <1> QED
    BY <1>1, <1>5, <1>6, <1>7, <1>10

\* What the methods of the manager of a make of the whitelist w.
NewLists(a, w, args) ==
    {SA!add_to_whitelist(a, w, args), SA!remove_from_whitelist(w, args), SA!set_limit(w, args),
     SA!increase_limit(a, w, args), SA!decrease_limit(w, args)}

\* A method of the manager gives a whitelist for the same keys, or fails.
LEMMA ListDomain ==
    ASSUME NEW a, NEW w, NEW args, NEW w2 \in NewLists(a, w, args)
    PROVE  w2 = None \/ DOMAIN w2 = DOMAIN w
  <1>1. CASE w2 = SA!add_to_whitelist(a, w, args)
    BY <1>1 DEF SA!add_to_whitelist, SA!Update
  <1>2. CASE w2 = SA!remove_from_whitelist(w, args)
    BY <1>2 DEF SA!remove_from_whitelist, SA!Update
  <1>3. CASE w2 = SA!set_limit(w, args)
    BY <1>3 DEF SA!set_limit, SA!Update
  <1>4. CASE w2 = SA!increase_limit(a, w, args)
    BY <1>4 DEF SA!increase_limit, SA!Update
  <1>5. CASE w2 = SA!decrease_limit(w, args)
    BY <1>5 DEF SA!decrease_limit, SA!Update
  <1> QED
    BY <1>1, <1>2, <1>3, <1>4, <1>5 DEF NewLists

\* A call changes the account it is made at, as the caller's roles allow, and
\* is an edit or sends what it says.
LEMMA DispatchEffect ==
    ASSUME ShapeNow, FieldsNow, NEW a \in SpendingAccounts, NEW caller, NEW call,
           Dispatch(a, caller, call)
    PROVE  /\ Allowed(a, caller) /\ ShapeNow'
           /\ \/ NothingSent /\ edits' = edits + 1
              \/ OneSent(a, call) /\ edits' = edits
  <1>1. ASSUME NEW w, SA!Manage(a, caller, w), w = None \/ DOMAIN w = SA!Keys
        PROVE  Allowed(a, caller) /\ ShapeNow' /\ NothingSent /\ edits' = edits + 1
    BY <1>1, ManageEffect
  <1>2. ASSUME NEW id, SA!set_spender(a, caller, id) \/ SA!set_manager(a, caller, id)
                       \/ SA!set_admin(a, caller, id)
        PROVE  Allowed(a, caller) /\ ShapeNow' /\ NothingSent /\ edits' = edits + 1
    BY <1>2, SetterEffect
  <1>3. CASE /\ call.method_name = "transfer"
             /\ SA!Send(a, caller, call.args.receiver_id, None, call.args.amount)
    <2>1. PICK receiver_id, amount : receiver_id = call.args.receiver_id /\ amount = call.args.amount
      OBVIOUS
    <2>2. SA!Send(a, caller, receiver_id, None, amount)
      BY <1>3, <2>1
    <2>3. /\ Allowed(a, caller) /\ ShapeNow' /\ sent' = sent + 1 /\ edits' = edits
          /\ \A y \in transfers' :
               \/ y \in transfers
               \/ /\ DOMAIN y = TransferFields /\ y.nonce = sent /\ y.from = a /\ y.result = None
                  /\ y.receiver_id = receiver_id /\ y.token_id = None /\ y.amount = amount
      BY <2>2, SendEffect
    <2>4. OneSent(a, call)
      BY <1>3, <2>1, <2>3 DEF OneSent, Orders
    <2> QED
      BY <2>3, <2>4
  <1>4. CASE /\ call.method_name = "transfer_ft"
             /\ SA!Send(a, caller, call.args.receiver_id, call.args.token_id, call.args.amount)
    <2>1. PICK receiver_id, token_id, amount :
            /\ receiver_id = call.args.receiver_id /\ token_id = call.args.token_id
            /\ amount = call.args.amount
      OBVIOUS
    <2>2. SA!Send(a, caller, receiver_id, token_id, amount)
      BY <1>4, <2>1
    <2>3. /\ Allowed(a, caller) /\ ShapeNow' /\ sent' = sent + 1 /\ edits' = edits
          /\ \A y \in transfers' :
               \/ y \in transfers
               \/ /\ DOMAIN y = TransferFields /\ y.nonce = sent /\ y.from = a /\ y.result = None
                  /\ y.receiver_id = receiver_id /\ y.token_id = token_id /\ y.amount = amount
      BY <2>2, SendEffect
    <2>4. OneSent(a, call)
      BY <1>4, <2>1, <2>3 DEF OneSent, Orders
    <2> QED
      BY <2>3, <2>4
  <1>5. CASE \E args : \E w \in NewLists(a, whitelist[a], args) : SA!Manage(a, caller, w)
    <2>1. PICK args : \E w \in NewLists(a, whitelist[a], args) : SA!Manage(a, caller, w)
      BY <1>5
    <2>2. PICK w \in NewLists(a, whitelist[a], args) : SA!Manage(a, caller, w)
      BY <2>1
    <2>3. w = None \/ DOMAIN w = DOMAIN whitelist[a]
      BY ListDomain
    <2>4. w = None \/ DOMAIN w = SA!Keys
      BY <2>3 DEF ShapeNow, Shape
    <2> QED
      BY <1>1, <2>2, <2>4
  <1>6. \/ \E args : \E w \in NewLists(a, whitelist[a], args) : SA!Manage(a, caller, w)
        \/ \E id : SA!set_spender(a, caller, id) \/ SA!set_manager(a, caller, id) \/ SA!set_admin(a, caller, id)
        \/ /\ call.method_name = "transfer"
           /\ SA!Send(a, caller, call.args.receiver_id, None, call.args.amount)
        \/ /\ call.method_name = "transfer_ft"
           /\ SA!Send(a, caller, call.args.receiver_id, call.args.token_id, call.args.amount)
    BY Zenon DEF Dispatch, NewLists, SA!AddToWhitelist, SA!RemoveFromWhitelist, SA!SetLimit,
           SA!IncreaseLimit, SA!DecreaseLimit, SA!transfer, SA!transfer_ft
  <1> QED
    BY <1>2, <1>3, <1>4, <1>5, <1>6

\* Receipts and callbacks change no role, send nothing and edit nothing: the
\* only limit that changes gets a failed transfer's amount back.
LEMMA SettleEffect ==
    ASSUME ShapeNow, FieldsNow, NEW x \in transfers, SA!Settles(x)
    PROVE  /\ UNCHANGED <<spender_id, manager_id, account_admin, charged, edits>>
           /\ NothingSent /\ ShapeNow' /\ \A c \in SpendingAccounts : ~Edited(c)
  <1>1. UNCHANGED <<spender_id, manager_id, account_admin, charged, sent, edits>>
    BY DEF SA!Settles, SA!Succeeds, SA!Fails, SA!on_transfer, SA!on_transfer_ft, SA!OnTransfer,
           SA!roles, SA!history, SA!events
  <1>2. PICK ok, failed : ok = [x EXCEPT !.result = "ok"] /\ failed = [x EXCEPT !.result = "failed"]
    OBVIOUS
  <1>3. transfers' \subseteq transfers \cup {ok, failed}
    BY <1>2 DEF SA!Settles, SA!Succeeds, SA!Fails, SA!on_transfer, SA!on_transfer_ft, SA!OnTransfer
  <1>4. Same(x, ok) /\ Same(x, failed)
    BY <1>2 DEF FieldsNow, WellFormed, Same, TransferFields
  <1>5. \A y \in transfers : Same(y, y)
    BY DEF FieldsNow, WellFormed, Same
  <1>6. NothingSent
    BY <1>1, <1>3, <1>4, <1>5 DEF NothingSent
  <1>7. CASE /\ DOMAIN whitelist' = DOMAIN whitelist
             /\ \A c \in DOMAIN whitelist : whitelist'[c] = whitelist[c]
    <2>1. ShapeNow'
      BY <1>1, <1>7 DEF ShapeNow, Shape
    <2>2. \A c \in SpendingAccounts : whitelist'[c] = whitelist[c]
      BY <1>7 DEF ShapeNow, Shape
    <2> QED
      BY <1>1, <1>6, <2>1, <2>2, NotEdited
  <1>8. CASE SA!OnTransfer(x) /\ x.result = "failed"
    <2>1. PICK a, key, limit : a = x.from /\ key = SA!KeyOf(x) /\ limit = whitelist[a][key]
      OBVIOUS
    <2>2. /\ whitelist' = [whitelist EXCEPT ![a] = SA!Restore(whitelist[a], x)]
          /\ transfers' = transfers \ {x}
      BY <1>8, <2>1 DEF SA!OnTransfer, SA!Settle
    <2>3. PICK w : w = SA!Restore(whitelist[a], x)
      OBVIOUS
    <2>4. w = IF limit = None THEN whitelist[a]
              ELSE [whitelist[a] EXCEPT ![key] = SA!SaturatingAdd(limit, x.amount)]
      BY <2>1, <2>3, Zenon DEF SA!Restore, SA!AllowanceKey, SA!KeyOf
    <2>5. DOMAIN w = DOMAIN whitelist[a] /\ \A k \in DOMAIN whitelist[a] :
            w[k] = whitelist[a][k]
            \/ (k = key /\ limit # None /\ w[k] = SA!SaturatingAdd(limit, x.amount))
      BY <2>4
    <2>6. /\ DOMAIN whitelist' = DOMAIN whitelist
          /\ \A c \in DOMAIN whitelist : whitelist'[c] = IF c = a THEN w ELSE whitelist[c]
      BY <2>2, <2>3
    <2>7. ShapeNow'
      BY <1>1, <2>5, <2>6 DEF ShapeNow, Shape
    <2>8. ASSUME NEW c \in SpendingAccounts PROVE ~Edited(c)
      <3>1. CASE c # a
        <4>1. whitelist'[c] = whitelist[c]
          BY <2>6, <3>1 DEF ShapeNow, Shape
        <4> QED
          BY <4>1, NotEdited
      <3>2. CASE c = a
        <4> SUFFICES ASSUME NEW k \in SA!Keys, whitelist'[c][k] # whitelist[c][k]
                     PROVE  Returns(c, k)
          BY DEF Edited
        <4>1. k \in DOMAIN whitelist[a] /\ whitelist'[c] = w
          BY <2>6, <3>2 DEF ShapeNow, Shape
        <4>2. k = key /\ limit # None /\ w[k] = SA!SaturatingAdd(limit, x.amount)
          BY <2>5, <3>2, <4>1
        <4>3. x \in transfers \ transfers'
          BY <2>2
        <4> QED
          BY <1>8, <2>1, <3>2, <4>1, <4>2, <4>3, Zenon DEF Returns
      <3> QED
        BY <3>1, <3>2
    <2> QED
      BY <1>1, <1>6, <2>7, <2>8
  <1>9. \/ /\ DOMAIN whitelist' = DOMAIN whitelist
           /\ \A c \in DOMAIN whitelist : whitelist'[c] = whitelist[c]
        \/ SA!OnTransfer(x) /\ x.result = "failed"
    <2>1. CASE SA!Succeeds(x) \/ SA!Fails(x)
      BY <2>1 DEF SA!Succeeds, SA!Fails
    <2>2. CASE SA!OnTransfer(x) /\ x.result = "ok"
      <3>1. whitelist' = [whitelist EXCEPT ![x.from] = whitelist[x.from]]
        BY <2>2 DEF SA!OnTransfer, SA!Settle
      <3> QED
        BY <3>1
    <2>3. SA!OnTransfer(x) => x.result \in {"ok", "failed"}
      BY DEF SA!OnTransfer, FieldsNow, WellFormed
    <2> QED
      BY <2>1, <2>2, <2>3 DEF SA!Settles, SA!on_transfer, SA!on_transfer_ft
  <1> QED
    BY <1>7, <1>8, <1>9

-----------------------------------------------------------------------------
(* The timelocks of the treasury *)

\* What was scheduled or delivered stays so.
Remembered ==
    \A t \in Timelocks, id \in RequestIds :
        /\ scheduled[t][id] # None => scheduled'[t][id] = scheduled[t][id]
        /\ id \in DeliveredIds(t) => id \in DeliveredIds(t)'

\* A delivery adds the batch to what was delivered.
LEMMA ReceiveRemembers ==
    ASSUME IInv, NEW b \in batches, NEW ok \in BOOLEAN, Receive(b, ok), UNCHANGED scheduled
    PROVE  Remembered /\ b.request_id \in DeliveredIds(b.from)'
  <1>1. PICK n : n = Len(delivered[b.from]) + 1
    OBVIOUS
  <1>2. /\ n \in Nat \ {0} /\ DOMAIN delivered[b.from] = 1 .. n - 1 /\ DOMAIN delivered'[b.from] = 1 .. n
        /\ delivered'[b.from][n].request_id = b.request_id
        /\ \A i \in 1 .. n - 1 : delivered'[b.from][i] = delivered[b.from][i]
        /\ \A s \in Timelocks : s # b.from => delivered'[s] = delivered[s]
    <2>1. DeliveredAs(b, ok, n)
      BY <1>1, ReceiveFrame
    <2> QED
      BY <2>1 DEF DeliveredAs
  <1>3. b.request_id \in DeliveredIds(b.from)'
    <2>1. n \in DOMAIN delivered'[b.from]
      BY <1>2
    <2> QED
      BY <1>2, <2>1 DEF DeliveredIds
  <1>4. ASSUME NEW t \in Timelocks, NEW id \in DeliveredIds(t)
        PROVE  id \in DeliveredIds(t)'
    <2>1. CASE t = b.from
      <3>1. PICK i \in DOMAIN delivered[t] : delivered[t][i].request_id = id
        BY DEF DeliveredIds
      <3>2. i \in DOMAIN delivered'[t] /\ delivered'[t][i] = delivered[t][i]
        BY <1>2, <2>1, <3>1
      <3> QED
        BY <3>1, <3>2 DEF DeliveredIds
    <2>2. CASE t # b.from
      BY <1>2, <2>2 DEF DeliveredIds
    <2> QED
      BY <2>1, <2>2
  <1> QED
    BY <1>3, <1>4 DEF Remembered

\* No step of the timelocks forgets.
LEMMA NextRemembers ==
    ASSUME IInv, [Next]_vars
    PROVE  Remembered
  <1>1. ASSUME UNCHANGED <<scheduled, delivered>>
        PROVE  Remembered
    BY <1>1 DEF Remembered, DeliveredIds
  <1>2. ASSUME NEW t \in Timelocks, NEW caller, NEW attached, NEW request,
               Escrow(t, caller, attached, request)
        PROVE  Remembered
    <2>1. PICK id : id = next_request_id[t]
      OBVIOUS
    <2>2. /\ scheduled[t][id] = None
          /\ \A s \in Timelocks, x \in RequestIds :
               s # t \/ x # id => scheduled'[s][x] = scheduled[s][x]
      BY <1>2, <2>1, EscrowFrame
    <2>3. UNCHANGED delivered
      BY <1>2 DEF Escrow
    <2> QED
      BY <2>2, <2>3 DEF Remembered, DeliveredIds
  <1>3. ASSUME NEW t \in Timelocks, NEW caller \in Daos,
               NEW predecessor_id \in RequestIds \cup {None}, NEW attached \in Deposits,
               \/ \E a \in ScheduleArgs : schedule(t, caller, a, predecessor_id, attached)
               \/ \E p \in ProposalArgs : schedule_proposal(t, caller, p, predecessor_id, attached)
        PROVE  Remembered
    <2>1. \E request : Escrow(t, caller, attached, request)
      BY <1>3, Zenon DEF schedule, schedule_proposal
    <2> QED
      BY <1>2, <2>1
  <1>4. ASSUME NEW t \in Timelocks,
               \/ \E id \in RequestIds : execute(t, id)
               \/ \E caller \in Users, id \in RequestIds : cancel(t, caller, id)
               \/ \E caller \in Daos \cup Users, call \in SetterCalls : CallSetter(t, caller, call)
        PROVE  UNCHANGED <<scheduled, delivered>>
    BY <1>4 DEF execute, cancel, CallSetter, history
  <1>5. ASSUME NEW b \in batches,
               ReceiveConfig(b) \/ ReceiveProposal(b) \/ ReceiveOther(b) \/ BatchFails(b)
        PROVE  Remembered
    <2>1. UNCHANGED scheduled /\ (Receive(b, TRUE) \/ Receive(b, FALSE))
      BY <1>5 DEF ReceiveConfig, ReceiveProposal, ReceiveOther, BatchFails
    <2> QED
      BY <2>1, ReceiveRemembers
  <1>6. ASSUME \/ \E c \in callbacks : on_proposal_added(c)
               \/ \E v \in votes : ReceiveVote(v)
               \/ \E r \in refunds : ReceiveRefund(r)
               \/ \E p \in ProposalArgs : OtherProposal(p.dao_id, p.kind)
               \/ Tick
               \/ UNCHANGED vars
        PROVE  UNCHANGED <<scheduled, delivered>>
    BY <1>6 DEF on_proposal_added, ReceiveVote, ReceiveRefund, OtherProposal, Tick, vars, history
  <1> QED
    BY <1>1, <1>3, <1>4, <1>5, <1>6 DEF Next

\* A step of the timelocks delivers one batch or none.
LEMMA NextDelivers ==
    ASSUME [Next]_vars
    PROVE  \/ UNCHANGED delivered
           \/ \E b \in batches, ok \in BOOLEAN : Receive(b, ok) /\ UNCHANGED scheduled
  <1>1. ASSUME NEW t \in Timelocks, NEW caller \in Daos,
               NEW predecessor_id \in RequestIds \cup {None}, NEW attached \in Deposits,
               \/ \E a \in ScheduleArgs : schedule(t, caller, a, predecessor_id, attached)
               \/ \E p \in ProposalArgs : schedule_proposal(t, caller, p, predecessor_id, attached)
        PROVE  UNCHANGED delivered
    <2>1. \E request : Escrow(t, caller, attached, request)
      BY <1>1, Zenon DEF schedule, schedule_proposal
    <2> QED
      BY <2>1 DEF Escrow
  <1>2. ASSUME NEW t \in Timelocks,
               \/ \E id \in RequestIds : execute(t, id)
               \/ \E caller \in Users, id \in RequestIds : cancel(t, caller, id)
               \/ \E caller \in Daos \cup Users, call \in SetterCalls : CallSetter(t, caller, call)
        PROVE  UNCHANGED delivered
    BY <1>2 DEF execute, cancel, CallSetter, history
  <1>3. ASSUME NEW b \in batches,
               ReceiveConfig(b) \/ ReceiveProposal(b) \/ ReceiveOther(b) \/ BatchFails(b)
        PROVE  \E ok \in BOOLEAN : Receive(b, ok) /\ UNCHANGED scheduled
    BY <1>3 DEF ReceiveConfig, ReceiveProposal, ReceiveOther, BatchFails
  <1>4. ASSUME \/ \E c \in callbacks : on_proposal_added(c)
               \/ \E v \in votes : ReceiveVote(v)
               \/ \E r \in refunds : ReceiveRefund(r)
               \/ \E p \in ProposalArgs : OtherProposal(p.dao_id, p.kind)
               \/ Tick
               \/ UNCHANGED vars
        PROVE  UNCHANGED delivered
    BY <1>4 DEF on_proposal_added, ReceiveVote, ReceiveRefund, OtherProposal, Tick, vars, history
  <1> QED
    BY <1>1, <1>2, <1>3, <1>4 DEF Next

\* The timelocks take no step that they could not take alone.
LEMMA TimelockSteps ==
    ASSUME [TreasuryNext]_treasury, \A r \in running : r.batch \in batches
    PROVE  [Next]_vars
  <1>1. ASSUME NEW r \in running, Commit(r) \/ Revert(r)
        PROVE  Next
    BY <1>1 DEF Commit, Revert, Next
  <1>2. CASE TimelockStep
    BY <1>2 DEF TimelockStep
  <1>3. ASSUME NEW b \in batches, Begin(b) PROVE UNCHANGED vars
    BY <1>3 DEF Begin
  <1>4. ASSUME NEW r \in running, Invoke(r) PROVE UNCHANGED vars
    BY <1>4 DEF Invoke
  <1>5. ASSUME NEW a \in SpendingAccounts, NEW caller \in Daos \cup Users, NEW call \in AccountCalls,
               DirectCall(a, caller, call)
        PROVE  UNCHANGED vars
    BY <1>5 DEF DirectCall
  <1>6. CASE SettleStep \/ UNCHANGED treasury
    BY <1>6 DEF SettleStep, treasury
  <1> QED
    BY <1>1, <1>2, <1>3, <1>4, <1>5, <1>6 DEF TreasuryNext

-----------------------------------------------------------------------------
(* How the records grow *)

Extends(S, S2) ==
    \A t \in Timelocks, id \in RequestIds : S[t][id] # None => S2[t][id] = S[t][id]

Grows(D, D2) == \A t \in Timelocks : D[t] \subseteq D2[t]

\* What was recorded stays recorded when transfers settle and others are scheduled.
LEMMA RecordedKept ==
    ASSUME NEW S, NEW S2, Extends(S, S2), NEW ts, NEW ts2, NEW n, NEW e, NEW cs,
           Recorded(S, ts, n, e, cs), \A y \in ts2 : \E x \in ts : Same(x, y)
    PROVE  Recorded(S2, ts2, n, e, cs)
  <1>1. ASSUME NEW y \in ts2
        PROVE  WellFormed(y, n) /\ HasOrder(S2, y, cs)
    <2>1. PICK x \in ts : Same(x, y)
      OBVIOUS
    <2>2. WellFormed(x, n) /\ HasOrder(S, x, cs)
      BY DEF Recorded
    <2>3. WellFormed(y, n)
      BY <2>1, <2>2 DEF Same, WellFormed
    <2>4. PICK i \in 1 .. Len(cs) : cs[i].nonce = x.nonce /\ Ordered(S, x, cs[i])
      BY <2>2 DEF HasOrder
    <2>5. PICK c : c = cs[i]
      OBVIOUS
    <2>6. Ordered(S, y, c)
      BY <2>1, <2>4, <2>5, Zenon DEF Same, Ordered, Orders
    <2>7. Ordered(S2, y, c)
      BY <2>6 DEF Ordered, Extends
    <2>8. HasOrder(S2, y, cs)
      BY <2>1, <2>4, <2>5, <2>7 DEF Same, HasOrder
    <2> QED
      BY <2>3, <2>8
  <1> QED
    BY <1>1 DEF Recorded

\* The calls after one more are the earlier ones and the new one.
LEMMA Appended ==
    ASSUME NEW cs \in Seq(CallRecord), NEW c \in CallRecord, NEW cs2, cs2 = Append(cs, c)
    PROVE  /\ cs2 \in Seq(CallRecord) /\ Len(cs) \in Nat /\ Len(cs2) = Len(cs) + 1
           /\ cs2[Len(cs) + 1] = c
           /\ \A i \in 1 .. Len(cs) : cs2[i] = cs[i]
           /\ \A i \in 1 .. Len(cs2) : (i \in 1 .. Len(cs) /\ cs2[i] = cs[i]) \/ (i = Len(cs) + 1 /\ cs2[i] = c)
  BY AppendProperties, LenProperties

\* The counts n2, e2 and the transfers ts2 are those after one call more, c.
OneMore(S, ts, n, e, c, ts2, n2, e2) ==
    /\ n2 \in {n, n + 1} /\ e2 \in {e, e + 1} /\ n2 + e2 = n + e + 1
    /\ \A y \in ts2 : \/ \E x \in ts : Same(x, y)
                      \/ /\ DOMAIN y = TransferFields /\ y.nonce = n /\ y.result = None
                         /\ n2 = n + 1 /\ c.nonce = n /\ Ordered(S, y, c)

\* A new call is recorded, with the transfer it has sent if it is one.
LEMMA RecordedMore ==
    ASSUME NEW S, NEW ts, NEW n, NEW e, NEW cs, Recorded(S, ts, n, e, cs),
           NEW c \in CallRecord, NEW cs2, cs2 = Append(cs, c),
           NEW ts2, NEW n2, NEW e2, OneMore(S, ts, n, e, c, ts2, n2, e2)
    PROVE  Recorded(S, ts2, n2, e2, cs2)
  <1>1. n \in Nat /\ e \in Nat /\ cs \in Seq(CallRecord) /\ Len(cs) = n + e
    BY DEF Recorded
  <1>2. PICK m \in Nat : m = Len(cs)
    BY <1>1
  <1>3. /\ cs2 \in Seq(CallRecord) /\ Len(cs2) = m + 1 /\ cs2[m + 1] = c
        /\ \A i \in 1 .. m : cs2[i] = cs[i]
    BY <1>1, <1>2, Appended
  <1>4. ASSUME NEW y \in ts2
        PROVE  WellFormed(y, n2) /\ HasOrder(S, y, cs2)
    <2>1. CASE \E x \in ts : Same(x, y)
      <3>1. Recorded(S, {y}, n, e, cs)
        <4>1. Extends(S, S)
          BY DEF Extends
        <4> QED
          BY <2>1, <4>1, RecordedKept
      <3>2. WellFormed(y, n) /\ HasOrder(S, y, cs)
        BY <3>1 DEF Recorded
      <3>3. PICK i \in 1 .. m : cs[i].nonce = y.nonce /\ Ordered(S, y, cs[i])
        BY <1>2, <3>2 DEF HasOrder
      <3>4. i \in 1 .. Len(cs2) /\ cs2[i] = cs[i]
        BY <1>3
      <3>5. HasOrder(S, y, cs2)
        BY <3>3, <3>4 DEF HasOrder
      <3>6. WellFormed(y, n2)
        BY <1>1, <3>2 DEF WellFormed, OneMore
      <3> QED
        BY <3>5, <3>6
    <2>2. CASE /\ DOMAIN y = TransferFields /\ y.nonce = n /\ y.result = None
               /\ n2 = n + 1 /\ c.nonce = n /\ Ordered(S, y, c)
      <3>1. m + 1 \in 1 .. Len(cs2)
        BY <1>3
      <3>2. HasOrder(S, y, cs2)
        BY <1>3, <2>2, <3>1 DEF HasOrder
      <3>3. WellFormed(y, n2)
        BY <1>1, <2>2 DEF WellFormed
      <3> QED
        BY <3>2, <3>3
    <2> QED
      BY <2>1, <2>2 DEF OneMore
  <1>5. n2 \in Nat /\ e2 \in Nat /\ Len(cs2) = n2 + e2
    BY <1>1, <1>2, <1>3 DEF OneMore
  <1> QED
    BY <1>3, <1>4, <1>5 DEF Recorded

\* A call that no earlier one is the same as is made once.
LEMMA MadeOnceMore ==
    ASSUME NEW cs \in Seq(CallRecord), NEW c \in CallRecord, MadeOnce(cs), NEW cs2,
           cs2 = Append(cs, c),
           c.request_id # None => \A i \in 1 .. Len(cs) : ~SameCall(cs[i], c)
    PROVE  MadeOnce(cs2)
  <1>1. PICK n \in Nat : n = Len(cs)
    BY LenProperties
  <1>2. Len(cs2) = n + 1 /\ cs2[n + 1] = c /\ \A i \in 1 .. n : cs2[i] = cs[i]
    BY <1>1, Appended
  <1> SUFFICES ASSUME NEW i \in 1 .. n + 1, NEW j \in 1 .. n + 1,
                      cs2[i].request_id # None, SameCall(cs2[i], cs2[j])
               PROVE  i = j
    BY <1>2 DEF MadeOnce
  <1>3. CASE i \in 1 .. n /\ j \in 1 .. n
    BY <1>1, <1>2, <1>3 DEF MadeOnce
  <1>4. CASE i = n + 1 /\ j \in 1 .. n
    BY <1>1, <1>2, <1>4 DEF SameCall
  <1>5. CASE i \in 1 .. n /\ j = n + 1
    BY <1>1, <1>2, <1>5 DEF SameCall
  <1> QED
    BY <1>3, <1>4, <1>5

\* Calls of delivered batches stay such.
LEMMA EndedKept ==
    ASSUME NEW D, NEW D2, Grows(D, D2), NEW cs, AllEnded(D, cs)
    PROVE  AllEnded(D2, cs)
  BY DEF Grows, AllEnded, Ended

\* What one more call adds to what was made.
LEMMA MadeMore ==
    ASSUME NEW cs \in Seq(CallRecord), NEW c \in CallRecord, NEW cs2, cs2 = Append(cs, c),
           NEW t, NEW id, NEW k
    PROVE  Made(cs2, t, id, k)
             <=> Made(cs, t, id, k) \/ IsCall(c, t, id, k)
  <1>1. PICK n \in Nat : n = Len(cs)
    BY LenProperties
  <1>2. Len(cs2) = n + 1 /\ cs2[n + 1] = c /\ \A i \in 1 .. n : cs2[i] = cs[i]
    BY <1>1, Appended
  <1>3. ASSUME Made(cs2, t, id, k)
        PROVE  Made(cs, t, id, k) \/ IsCall(c, t, id, k)
    <2>1. PICK i \in 1 .. n + 1 : IsCall(cs2[i], t, id, k)
      BY <1>2, <1>3 DEF Made
    <2>2. CASE i = n + 1
      BY <1>2, <2>1, <2>2
    <2>3. CASE i \in 1 .. n
      BY <1>1, <1>2, <2>1, <2>3 DEF Made
    <2> QED
      BY <1>1, <2>2, <2>3
  <1>4. ASSUME Made(cs, t, id, k)
        PROVE  Made(cs2, t, id, k)
    <2>1. PICK i \in 1 .. n : IsCall(cs[i], t, id, k)
      BY <1>1, <1>4 DEF Made
    <2>2. i \in 1 .. Len(cs2) /\ cs2[i] = cs[i]
      BY <1>2
    <2> QED
      BY <2>1, <2>2 DEF Made
  <1>5. ASSUME IsCall(c, t, id, k)
        PROVE  Made(cs2, t, id, k)
    <2>1. n + 1 \in 1 .. Len(cs2)
      BY <1>2
    <2> QED
      BY <1>2, <1>5, <2>1 DEF Made
  <1> QED
    BY <1>3, <1>4, <1>5

\* What was delivered was scheduled.
LEMMA DeliveredScheduled ==
    ASSUME DeliveryInv, NEW t \in Timelocks, NEW i \in DOMAIN delivered[t]
    PROVE  /\ delivered[t][i].request_id \in RequestIds
           /\ delivered[t][i].request_id \in Deliveries[t]
           /\ scheduled[t][delivered[t][i].request_id] # None
  <1>1. IInv /\ DeliveredOnce
    BY DEF DeliveryInv
  <1>2. delivered[t][i].request_id \in DeliveredIds(t) /\ DeliveredIds(t) \subseteq RequestIds
    BY <1>1, DeliveredType
  <1>3. DeliveredIds(t) \subseteq ExecutedIds(t)
    BY <1>1 DEF DeliveredOnce
  <1>4. \A id \in ExecutedIds(t) : scheduled[t][id] # None
    BY <1>1 DEF IInv, OneFate
  <1> QED
    BY <1>2, <1>3, <1>4 DEF Deliveries

\* Delivered batches stay whole when others are scheduled.
LEMMA WholeKept ==
    ASSUME DeliveryInv, Extends(scheduled, scheduled'), UNCHANGED delivered,
           NEW cs, Whole(scheduled, delivered, cs)
    PROVE  Whole(scheduled', delivered', cs)
  <1> SUFFICES ASSUME NEW t \in Timelocks, NEW i \in DOMAIN delivered[t]
               PROVE  WholeBatch(scheduled', t, delivered[t][i], cs)
    BY DEF Whole
  <1>1. PICK d : d = delivered[t][i]
    OBVIOUS
  <1>2. d.request_id \in RequestIds /\ scheduled[t][d.request_id] # None
    BY <1>1, DeliveredScheduled
  <1>3. scheduled'[t][d.request_id] = scheduled[t][d.request_id]
    BY <1>2 DEF Extends
  <1>4. WholeBatch(scheduled, t, d, cs)
    BY <1>1 DEF Whole
  <1> QED
    BY <1>1, <1>3, <1>4, Zenon DEF WholeBatch

\* ... and when a call is made of a batch that is not delivered, or of none.
LEMMA WholeApart ==
    ASSUME DeliveryInv, NEW cs \in Seq(CallRecord), Whole(scheduled, delivered, cs),
           NEW c \in CallRecord, NEW cs2, cs2 = Append(cs, c),
           c.request_id = None \/ (c.by \in Timelocks /\ c.request_id \notin Deliveries[c.by])
    PROVE  Whole(scheduled, delivered, cs2)
  <1> SUFFICES ASSUME NEW t \in Timelocks, NEW i \in DOMAIN delivered[t]
               PROVE  WholeBatch(scheduled, t, delivered[t][i], cs2)
    BY DEF Whole
  <1>1. PICK d : d = delivered[t][i]
    OBVIOUS
  <1>2. d.request_id \in RequestIds /\ d.request_id \in Deliveries[t] /\ d.request_id # None
    BY <1>1, DeliveredScheduled, NoneAssumption, BoundAssumption DEF RequestIds
  <1>3. \A k : Made(cs2, t, d.request_id, k) <=> Made(cs, t, d.request_id, k)
    <2>1. ~(c.by = t /\ c.request_id = d.request_id)
      BY <1>2
    <2>2. PICK id : id = d.request_id
      OBVIOUS
    <2>3. ASSUME NEW k
          PROVE  Made(cs2, t, id, k)
                   <=> Made(cs, t, id, k) \/ IsCall(c, t, id, k)
      BY MadeMore
    <2> QED
      BY <2>1, <2>2, <2>3, Zenon DEF IsCall
  <1>4. WholeBatch(scheduled, t, d, cs)
    BY <1>1 DEF Whole
  <1> QED
    BY <1>1, <1>3, <1>4, Zenon DEF WholeBatch

\* ... and with a whole one delivered more.
LEMMA WholeMore ==
    ASSUME IInv, NEW b \in batches, NEW ok \in BOOLEAN, Receive(b, ok), UNCHANGED scheduled,
           NEW cs, Whole(scheduled, delivered, cs),
           WholeBatch(scheduled, b.from, [request_id |-> b.request_id, ok |-> ok], cs)
    PROVE  Whole(scheduled', delivered', cs)
  <1>1. PICK n : n = Len(delivered[b.from]) + 1
    OBVIOUS
  <1>2. DeliveredAs(b, ok, n)
    BY <1>1, ReceiveFrame
  <1> SUFFICES ASSUME NEW t \in Timelocks, NEW i \in DOMAIN delivered'[t]
               PROVE  WholeBatch(scheduled, t, delivered'[t][i], cs)
    BY DEF Whole
  <1>3. CASE t # b.from
    BY <1>2, <1>3 DEF DeliveredAs, Whole
  <1>4. CASE t = b.from /\ i = n
    BY <1>2, <1>4 DEF DeliveredAs
  <1>5. CASE t = b.from /\ i # n
    <2>1. i \in DOMAIN delivered[t] /\ delivered'[t][i] = delivered[t][i]
      BY <1>2, <1>5 DEF DeliveredAs
    <2> QED
      BY <2>1 DEF Whole
  <1> QED
    BY <1>3, <1>4, <1>5

\* Steps of the timelocks only add to what is scheduled and delivered.
LEMMA NextGrows ==
    ASSUME IInv, [Next]_vars
    PROVE  Extends(scheduled, scheduled') /\ Grows(Deliveries, Deliveries')
  <1>1. Remembered
    BY NextRemembers
  <1>2. \A t \in Timelocks : DeliveredIds(t) \subseteq RequestIds
    BY DeliveredType
  <1>3. \A t \in Timelocks : Deliveries[t] = DeliveredIds(t) /\ Deliveries'[t] = DeliveredIds(t)'
    BY DEF Deliveries
  <1>4. Grows(Deliveries, Deliveries')
    BY <1>1, <1>2, <1>3 DEF Grows, Remembered
  <1> QED
    BY <1>1, <1>4 DEF Extends, Remembered

\* Where nothing happens nothing is lost.
LEMMA Reflexive ==
    ASSUME NEW S, NEW D
    PROVE  Extends(S, S) /\ Grows(D, D)
  BY DEF Extends, Grows

-----------------------------------------------------------------------------
(* Every step keeps the invariant *)

\* A batch has as many calls as its request.
LEMMA BatchLength ==
    ASSUME IInv, NEW b \in batches
    PROVE  /\ Len(b.request.actions) \in Nat
           /\ DOMAIN b.request.actions = 1 .. Len(b.request.actions)
  <1>1. PICK actions \in ActionLists : actions = b.request.actions
    BY BatchFacts
  <1>2. ASSUME NEW s \in ScheduleArgs, actions = s.actions
        PROVE  Len(actions) \in Nat /\ DOMAIN actions = 1 .. Len(actions)
    BY <1>2, ActionsAssumption
  <1>3. ASSUME NEW p \in ProposalArgs, actions = <<AddProposalCall(p)>>
        PROVE  Len(actions) \in Nat /\ DOMAIN actions = 1 .. Len(actions)
    BY <1>3
  <1> QED
    BY <1>1, <1>2, <1>3 DEF ActionLists

\* Between two batches no call of a batch in flight was made.
LEMMA NotEnded ==
    ASSUME DeliveryInv, NEW b \in batches, NEW cs, AllEnded(Deliveries, cs), NEW k
    PROVE  ~Made(cs, b.from, b.request_id, k)
  <1>1. b.from \in Timelocks /\ b.request_id \in RequestIds
    BY BatchExecuted DEF DeliveryInv
  <1>2. b.request_id \notin Deliveries[b.from] /\ b.request_id # None
    BY <1>1, NoneAssumption, BoundAssumption DEF DeliveryInv, DeliveredOnce, Deliveries, RequestIds
  <1> QED
    BY <1>2, Zenon DEF Made, IsCall, AllEnded, Ended

\* Nothing is scheduled, sent or run when the contracts are deployed.
LEMMA InitTreasuryInv ==
    ASSUME TreasuryInit
    PROVE  TreasuryInv
  <1>1. DeliveryInv
    BY InitDeliveryInv DEF TreasuryInit
  <1>2. Shape(spender_id, manager_id, account_admin, whitelist, charged)
    BY AccountDeployAssumption DEF TreasuryInit, SA!Init, SA!new, SA!Zero, Shape
  <1>3. /\ calls = << >> /\ calls \in Seq(CallRecord) /\ Len(calls) = 0
        /\ transfers = {} /\ sent = 0 /\ edits = 0
    BY EmptySeq DEF TreasuryInit, SA!Init
  <1>4. Recorded(scheduled, transfers, sent, edits, calls)
    BY <1>3 DEF Recorded
  <1>5. MadeOnce(calls) /\ AllEnded(Deliveries, calls)
    BY <1>3 DEF MadeOnce, AllEnded
  <1>6. running = {}
    BY DEF TreasuryInit
  <1>7. Whole(scheduled, delivered, calls)
    BY DEF TreasuryInit, Init, Whole
  <1> QED
    BY <1>1, <1>2, <1>4, <1>5, <1>6, <1>7 DEF TreasuryInv

\* The timelocks act while no batch is run, and deliver none to a spending account.
LEMMA TimelockStepInv ==
    ASSUME TreasuryInv, DeliveryInv', Extends(scheduled, scheduled'), Grows(Deliveries, Deliveries'),
           [Next]_vars, TimelockStep
    PROVE  TreasuryInv'
  <1>1. /\ running = {} /\ UNCHANGED <<account, running, calls>>
        /\ \A b \in batches \ batches' : b.request.receiver_id \notin SpendingAccounts
    BY DEF TimelockStep
  <1>2. UNCHANGED <<spender_id, manager_id, account_admin, whitelist, charged, transfers, sent, edits>>
    BY <1>1 DEF account
  <1>3. /\ Recorded(scheduled, transfers, sent, edits, calls) /\ \A x \in transfers : Same(x, x)
        /\ DeliveryInv /\ IInv /\ Whole(scheduled, delivered, calls)
    BY DEF TreasuryInv, Recorded, WellFormed, Same, DeliveryInv
  <1>4. Recorded(scheduled', transfers, sent, edits, calls)
    BY <1>3, RecordedKept
  <1>5. AllEnded(Deliveries', calls)
    BY <1>1, EndedKept DEF TreasuryInv
  <1>6. Whole(scheduled', delivered', calls)
    <2>1. CASE UNCHANGED delivered
      BY <1>3, <2>1, WholeKept
    <2>2. ASSUME NEW b \in batches, NEW ok \in BOOLEAN, Receive(b, ok), UNCHANGED scheduled
          PROVE  Whole(scheduled', delivered', calls)
      <3>1. b.request.receiver_id \notin SpendingAccounts
        BY <1>1, <2>2 DEF Receive
      <3>2. b.request = scheduled[b.from][b.request_id].request
        BY <1>3, BatchExecuted
      <3>3. PICK d : d = [request_id |-> b.request_id, ok |-> ok]
        OBVIOUS
      <3>4. d.request_id = b.request_id
        BY <3>3
      <3>5. WholeBatch(scheduled, b.from, d, calls)
        BY <3>1, <3>2, <3>4, Zenon DEF WholeBatch
      <3> QED
        BY <1>3, <2>2, <3>3, <3>5, WholeMore
    <2> QED
      BY <2>1, <2>2, NextDelivers
  <1> QED
    BY <1>1, <1>2, <1>4, <1>5, <1>6 DEF TreasuryInv

\* Receipts and callbacks of transfers run while no batch is run.
LEMMA SettleStepInv ==
    ASSUME TreasuryInv, SettleStep
    PROVE  TreasuryInv'
  <1>1. UNCHANGED <<vars, running, calls>> /\ running = {}
    BY DEF SettleStep
  <1>2. ShapeNow /\ FieldsNow
    BY DEF TreasuryInv, Recorded, ShapeNow, FieldsNow
  <1>3. PICK x \in transfers : SA!Settles(x)
    BY DEF SettleStep
  <1>4. ShapeNow' /\ NothingSent /\ edits' = edits
    BY <1>2, <1>3, SettleEffect
  <1>5. Recorded(scheduled, transfers', sent, edits, calls)
    BY <1>4, RecordedKept, Reflexive DEF TreasuryInv, NothingSent
  <1>6. DeliveryInv' /\ UNCHANGED <<scheduled, delivered>> /\ Deliveries' = Deliveries
    <2>1. DeliveryInv'
      BY <1>1, NextDeliveryInv DEF TreasuryInv
    <2> QED
      BY <1>1, <2>1 DEF vars, history, Deliveries, DeliveredIds
  <1> QED
    BY <1>1, <1>4, <1>5, <1>6 DEF TreasuryInv, NothingSent, ShapeNow

\* A batch begins: the state is one between two batches.
LEMMA BeginInv ==
    ASSUME TreasuryInv, NEW b \in batches, Begin(b)
    PROVE  TreasuryInv'
  <1>1. PICK r : /\ r = [batch |-> b, next |-> 1, spender_id |-> spender_id, manager_id |-> manager_id,
                         account_admin |-> account_admin, whitelist |-> whitelist, funds |-> funds,
                         transfers |-> transfers, sent |-> sent, edits |-> edits, granted |-> granted,
                         revoked |-> revoked, charged |-> charged, calls |-> calls]
                 /\ running' = {r}
    BY DEF Begin
  <1>2. DOMAIN r = RunningFields
    BY <1>1 DEF RunningFields
  <1>3. /\ r.batch = b /\ r.next = 1 /\ r.spender_id = spender_id /\ r.manager_id = manager_id
        /\ r.account_admin = account_admin /\ r.transfers = transfers /\ r.sent = sent
        /\ r.edits = edits /\ r.whitelist = whitelist /\ r.charged = charged /\ r.calls = calls
    BY <1>1
  <1>4. running = {} /\ b.request.receiver_id \in SpendingAccounts /\ UNCHANGED <<vars, account, calls>>
    BY DEF Begin
  <1>5. UNCHANGED <<spender_id, manager_id, account_admin, whitelist, charged, transfers, sent, edits>>
    BY <1>4 DEF account
  <1>6. /\ DeliveryInv' /\ Deliveries' = Deliveries
        /\ UNCHANGED <<scheduled, delivered, batches>>
    <2>1. DeliveryInv'
      BY <1>4, NextDeliveryInv DEF TreasuryInv
    <2> QED
      BY <1>4, <2>1 DEF vars, history, Deliveries, DeliveredIds
  <1>7. AllEnded(Deliveries, calls)
    BY <1>4 DEF TreasuryInv
  <1>8. IInv /\ Len(b.request.actions) \in Nat
    BY BatchLength DEF TreasuryInv, DeliveryInv
  <1>9. SavedFacts(r)
    BY <1>2, <1>3, <1>4, <1>8 DEF SavedFacts, TreasuryInv
  <1>10. MadeBefore(Deliveries, calls, b)
    BY <1>7 DEF AllEnded, MadeBefore
  <1>11. \A k : ~Made(calls, b.from, b.request_id, k)
    BY <1>7, NotEnded DEF TreasuryInv
  <1>12. \A k : Made(calls, b.from, b.request_id, k) <=> k \in 1 .. 1 - 1
    <2>1. 1 .. 1 - 1 = {}
      OBVIOUS
    <2> QED
      BY <1>11, <2>1
  <1>13. RunningFacts(r)'
    BY <1>1, <1>3, <1>4, <1>6, <1>7, <1>9, <1>10, <1>12 DEF RunningFacts, TreasuryInv
  <1> QED
    BY <1>1, <1>4, <1>5, <1>6, <1>13 DEF TreasuryInv

\* A batch ends: all its calls were made, and it is delivered.
LEMMA CommitInv ==
    ASSUME TreasuryInv, DeliveryInv', Grows(Deliveries, Deliveries'), NEW r \in running, Commit(r)
    PROVE  TreasuryInv'
  <1>1. /\ running' = {} /\ UNCHANGED <<account, calls, scheduled>>
        /\ r.batch \in batches /\ Receive(r.batch, TRUE)
    BY DEF Commit, ReceiveOther, TreasuryInv, RunningFacts
  <1>2. UNCHANGED <<spender_id, manager_id, account_admin, whitelist, charged, transfers, sent, edits>>
    BY <1>1 DEF account
  <1>3. PICK b \in batches : b = r.batch
    BY <1>1
  <1>4. /\ b.from \in Timelocks /\ b.request_id \in DeliveredIds(b.from)'
        /\ b.request = scheduled[b.from][b.request_id].request /\ IInv
    BY <1>1, <1>3, ReceiveRemembers, BatchExecuted DEF TreasuryInv, DeliveryInv
  <1>5. b.request_id \in Deliveries'[b.from]
    BY <1>4 DEF Deliveries
  <1>6. MadeBefore(Deliveries, calls, b)
    BY <1>3 DEF TreasuryInv, RunningFacts
  <1>7. AllEnded(Deliveries', calls)
    <2> SUFFICES ASSUME NEW i \in 1 .. Len(calls), calls[i].request_id # None
                 PROVE  calls[i].by \in Timelocks /\ calls[i].request_id \in Deliveries'[calls[i].by]
      BY DEF AllEnded, Ended
    <2>1. PICK c : c = calls[i]
      OBVIOUS
    <2>2. Ended(Deliveries, c) \/ (c.by = b.from /\ c.request_id = b.request_id)
      BY <1>6, <2>1 DEF MadeBefore
    <2>3. CASE Ended(Deliveries, c)
      BY <2>1, <2>3 DEF Ended, Grows
    <2>4. CASE c.by = b.from /\ c.request_id = b.request_id
      BY <1>4, <1>5, <2>1, <2>4
    <2> QED
      BY <2>2, <2>3, <2>4
  <1>8. PICK n \in Nat : n = r.next - 1
    BY DEF TreasuryInv, RunningFacts, SavedFacts
  <1>9. DOMAIN b.request.actions = 1 .. n
    <2>1. Len(b.request.actions) \in Nat /\ DOMAIN b.request.actions = 1 .. Len(b.request.actions)
      BY <1>4, BatchLength
    <2>2. r.next <= Len(b.request.actions) + 1 /\ r.next > Len(b.request.actions) /\ r.next \in Nat
      BY <1>3 DEF TreasuryInv, RunningFacts, SavedFacts, Commit
    <2>3. Len(b.request.actions) = n
      BY <1>8, <2>1, <2>2
    <2> QED
      BY <2>1, <2>3
  <1>10. \A k : Made(calls, b.from, b.request_id, k) <=> k \in 1 .. n
    BY <1>3, <1>8 DEF TreasuryInv, RunningFacts
  <1>11. Whole(scheduled', delivered', calls)
    <2>1. PICK d : d = [request_id |-> b.request_id, ok |-> TRUE]
      OBVIOUS
    <2>2. d.request_id = b.request_id /\ d.ok
      BY <2>1
    <2>3. \A k : Made(calls, b.from, b.request_id, k) <=> k \in DOMAIN b.request.actions
      BY <1>9, <1>10, Zenon
    <2>4. WholeBatch(scheduled, b.from, d, calls)
      BY <1>4, <2>2, <2>3, Zenon DEF WholeBatch
    <2>5. Whole(scheduled, delivered, calls)
      BY DEF TreasuryInv
    <2> QED
      BY <1>1, <1>3, <1>4, <2>1, <2>4, <2>5, WholeMore
  <1> QED
    BY <1>1, <1>2, <1>7, <1>11 DEF TreasuryInv

\* A batch fails: the state it started from is back, with none of its calls.
LEMMA RevertInv ==
    ASSUME TreasuryInv, DeliveryInv', Grows(Deliveries, Deliveries'), NEW r \in running, Revert(r)
    PROVE  TreasuryInv'
  <1>1. /\ running' = {} /\ UNCHANGED scheduled
        /\ spender_id' = r.spender_id /\ manager_id' = r.manager_id
        /\ account_admin' = r.account_admin /\ whitelist' = r.whitelist /\ charged' = r.charged
        /\ transfers' = r.transfers /\ sent' = r.sent /\ edits' = r.edits /\ calls' = r.calls
        /\ Receive(r.batch, FALSE)
    BY DEF Revert, BatchFails
  <1>2. RunningFacts(r)
    BY DEF TreasuryInv
  <1>3. /\ Recorded(scheduled, r.transfers, r.sent, r.edits, r.calls) /\ AllEnded(Deliveries, r.calls)
        /\ Shape(r.spender_id, r.manager_id, r.account_admin, r.whitelist, r.charged)
        /\ MadeOnce(r.calls) /\ Whole(scheduled, delivered, r.calls)
    BY <1>2 DEF RunningFacts, SavedFacts
  <1>4. AllEnded(Deliveries', r.calls)
    BY <1>3, EndedKept
  <1>5. PICK b \in batches : b = r.batch
    BY <1>2 DEF RunningFacts
  <1>6. Whole(scheduled', delivered', r.calls)
    <2>1. PICK d : d = [request_id |-> b.request_id, ok |-> FALSE]
      OBVIOUS
    <2>2. d.request_id = b.request_id /\ ~d.ok
      BY <2>1
    <2>3. IInv /\ \A k : ~Made(r.calls, b.from, b.request_id, k)
      BY <1>3, NotEnded DEF TreasuryInv, DeliveryInv
    <2>4. WholeBatch(scheduled, b.from, d, r.calls)
      BY <2>2, <2>3, Zenon DEF WholeBatch
    <2> QED
      BY <1>1, <1>3, <1>5, <2>1, <2>3, <2>4, WholeMore
  <1> QED
    BY <1>1, <1>3, <1>4, <1>6 DEF TreasuryInv

\* A call at an account, with the record c of it.
LEMMA CallRecorded ==
    ASSUME TreasuryInv, NEW a \in SpendingAccounts, NEW caller, NEW call, Dispatch(a, caller, call),
           NEW request_id, NEW index, RecordCall(caller, request_id, index),
           NEW c, c = [by |-> caller, request_id |-> request_id, index |-> index,
                       nonce |-> IF sent' = sent THEN None ELSE sent],
           c \in CallRecord,
           \A y : Orders(y, a, call) => Ordered(scheduled, y, c),
           request_id # None => \A i \in 1 .. Len(calls) : ~SameCall(calls[i], c),
           request_id = None \/ (caller \in Timelocks /\ request_id \notin Deliveries[caller])
    PROVE  /\ Recorded(scheduled, transfers', sent', edits', calls') /\ MadeOnce(calls')
           /\ ShapeNow' /\ calls' = Append(calls, c) /\ Whole(scheduled, delivered, calls')
  <1>1. /\ ShapeNow /\ FieldsNow /\ Recorded(scheduled, transfers, sent, edits, calls)
        /\ MadeOnce(calls) /\ Whole(scheduled, delivered, calls) /\ DeliveryInv
    BY DEF TreasuryInv, ShapeNow, FieldsNow, Recorded
  <1>2. /\ ShapeNow'
        /\ \/ NothingSent /\ edits' = edits + 1
           \/ OneSent(a, call) /\ edits' = edits
    BY <1>1, DispatchEffect
  <1>3. sent \in Nat /\ edits \in Nat /\ calls \in Seq(CallRecord)
    BY <1>1 DEF Recorded
  <1>4. /\ calls' = Append(calls, c) /\ c.by = caller /\ c.request_id = request_id
        /\ sent' = sent + 1 => c.nonce = sent
    BY <1>3 DEF RecordCall
  <1>5. Recorded(scheduled, transfers', sent', edits', calls')
    <2>1. PICK n2, e2, ts2, cs2 : n2 = sent' /\ e2 = edits' /\ ts2 = transfers' /\ cs2 = calls'
      OBVIOUS
    <2>2. \A y \in transfers : Same(y, y)
      BY <1>1 DEF FieldsNow, WellFormed, Same
    <2>3. \A y \in ts2 :
            \/ \E x \in transfers : Same(x, y)
            \/ /\ DOMAIN y = TransferFields /\ y.nonce = sent /\ y.result = None
               /\ n2 = sent + 1 /\ c.nonce = sent /\ Ordered(scheduled, y, c)
      BY <1>2, <1>4, <2>1, <2>2 DEF NothingSent, OneSent
    <2>4. n2 \in {sent, sent + 1} /\ e2 \in {edits, edits + 1} /\ n2 + e2 = sent + edits + 1
      BY <1>2, <1>3, <2>1 DEF NothingSent, OneSent
    <2>5. cs2 = Append(calls, c)
      BY <1>4, <2>1
    <2>6. OneMore(scheduled, transfers, sent, edits, c, ts2, n2, e2)
      BY <2>3, <2>4 DEF OneMore
    <2>7. Recorded(scheduled, ts2, n2, e2, cs2)
      BY <1>1, <2>5, <2>6, RecordedMore, Zenon
    <2> QED
      BY <2>1, <2>7
  <1>6. MadeOnce(calls')
    BY <1>1, <1>3, <1>4, MadeOnceMore
  <1>7. Whole(scheduled, delivered, calls')
    BY <1>1, <1>3, <1>4, WholeApart
  <1> QED
    BY <1>2, <1>4, <1>5, <1>6, <1>7

\* A call of an account that is no timelock.
LEMMA DirectCallInv ==
    ASSUME TreasuryInv, NEW a \in SpendingAccounts, NEW caller \in Daos \cup Users, NEW call,
           DirectCall(a, caller, call)
    PROVE  TreasuryInv'
  <1>1. /\ running = {} /\ Dispatch(a, caller, call) /\ RecordCall(caller, None, None)
        /\ UNCHANGED <<vars, running>>
    BY DEF DirectCall
  <1>2. PICK c : c = [by |-> caller, request_id |-> None, index |-> None,
                      nonce |-> IF sent' = sent THEN None ELSE sent]
    OBVIOUS
  <1>3. c \in CallRecord /\ c.request_id = None
    <2>1. sent \in Nat
      BY DEF TreasuryInv, Recorded
    <2> QED
      BY <1>2, <2>1 DEF CallRecord, Accounts
  <1>4. \A y : Orders(y, a, call) => Ordered(scheduled, y, c)
    BY <1>3 DEF Ordered
  <1>5. /\ Recorded(scheduled, transfers', sent', edits', calls') /\ MadeOnce(calls')
        /\ ShapeNow' /\ calls' = Append(calls, c) /\ Whole(scheduled, delivered, calls')
    BY <1>1, <1>2, <1>3, <1>4, CallRecorded
  <1>6. DeliveryInv' /\ UNCHANGED <<scheduled, delivered>> /\ Deliveries' = Deliveries
    <2>1. DeliveryInv'
      BY <1>1, NextDeliveryInv DEF TreasuryInv
    <2> QED
      BY <1>1, <2>1 DEF vars, history, Deliveries, DeliveredIds
  <1>7. AllEnded(Deliveries, calls')
    <2>1. AllEnded(Deliveries, calls) /\ calls \in Seq(CallRecord)
      BY <1>1 DEF TreasuryInv, Recorded
    <2>2. Ended(Deliveries, c)
      BY <1>3 DEF Ended
    <2> QED
      BY <1>3, <1>5, <2>1, <2>2, Appended DEF AllEnded
  <1> QED
    BY <1>1, <1>5, <1>6, <1>7 DEF TreasuryInv, ShapeNow

\* The next call of a batch: its number is none that was made.
LEMMA InvokeInv ==
    ASSUME TreasuryInv, NEW r \in running, Invoke(r)
    PROVE  TreasuryInv'
  <1>1. RunningFacts(r)
    BY DEF TreasuryInv
  <1>2. PICK b \in batches : b = r.batch
    BY <1>1 DEF RunningFacts
  <1>3. PICK n \in Nat \ {0} : n = r.next
    BY <1>1 DEF RunningFacts, SavedFacts
  <1>4. PICK a \in SpendingAccounts : a = b.request.receiver_id
    BY <1>1, <1>2 DEF RunningFacts, SavedFacts
  <1>5. PICK call : call = b.request.actions[n]
    OBVIOUS
  <1>6. /\ Dispatch(a, b.from, call) /\ RecordCall(b.from, b.request_id, n)
        /\ running' = {[r EXCEPT !.next = n + 1]} /\ UNCHANGED vars
        /\ n <= Len(b.request.actions)
    BY <1>2, <1>3, <1>4, <1>5 DEF Invoke
  <1>7. /\ b.from \in Timelocks /\ b.request_id \in RequestIds
        /\ scheduled[b.from][b.request_id] # None
        /\ b.request = scheduled[b.from][b.request_id].request
        /\ Len(b.request.actions) \in Nat
    BY BatchExecuted, BatchLength DEF TreasuryInv, DeliveryInv
  <1>8. b.request_id \notin Deliveries[b.from]
    BY <1>7 DEF TreasuryInv, DeliveryInv, DeliveredOnce, Deliveries
  <1>9. PICK c : c = [by |-> b.from, request_id |-> b.request_id, index |-> n,
                      nonce |-> IF sent' = sent THEN None ELSE sent]
    OBVIOUS
  <1>10. c \in CallRecord /\ c.by = b.from /\ c.request_id = b.request_id /\ c.index = n
    <2>1. sent \in Nat
      BY DEF TreasuryInv, Recorded
    <2> QED
      BY <1>7, <1>9, <2>1 DEF CallRecord, Accounts
  <1>11. \A y : Orders(y, a, call) => Ordered(scheduled, y, c)
    BY <1>4, <1>5, <1>7, <1>10, Zenon DEF Ordered
  <1>12. MadeBefore(Deliveries, calls, b) /\ calls \in Seq(CallRecord)
    BY <1>1, <1>2 DEF RunningFacts, TreasuryInv, Recorded
  <1>13. \A k : Made(calls, b.from, b.request_id, k) <=> k \in 1 .. n - 1
    BY <1>1, <1>2, <1>3 DEF RunningFacts
  <1>14. \A i \in 1 .. Len(calls) : ~SameCall(calls[i], c)
    <2>1. n \notin 1 .. n - 1
      OBVIOUS
    <2>2. ~Made(calls, b.from, b.request_id, n)
      BY <1>13, <2>1
    <2> QED
      BY <1>10, <2>2, Zenon DEF SameCall, Made, IsCall
  <1>15. /\ Recorded(scheduled, transfers', sent', edits', calls') /\ MadeOnce(calls')
         /\ ShapeNow' /\ calls' = Append(calls, c) /\ Whole(scheduled, delivered, calls')
    BY <1>6, <1>7, <1>8, <1>9, <1>10, <1>11, <1>14, CallRecorded
  <1>16. /\ DeliveryInv' /\ Deliveries' = Deliveries
         /\ UNCHANGED <<scheduled, delivered, batches>>
    <2>1. DeliveryInv'
      BY <1>6, NextDeliveryInv DEF TreasuryInv
    <2> QED
      BY <1>6, <2>1 DEF vars, history, Deliveries, DeliveredIds
  <1>17. MadeBefore(Deliveries, calls', b)
    BY <1>10, <1>12, <1>15, Appended DEF MadeBefore
  <1>18. \A k : Made(calls', b.from, b.request_id, k) <=> k \in 1 .. (n + 1) - 1
    <2>1. ASSUME NEW k
          PROVE  Made(calls', b.from, b.request_id, k) <=> Made(calls, b.from, b.request_id, k) \/ n = k
      <3>1. PICK t, id : t = b.from /\ id = b.request_id
        OBVIOUS
      <3>2. PICK cs, cs2 : cs = calls /\ cs2 = calls'
        OBVIOUS
      <3>3. cs \in Seq(CallRecord) /\ c \in CallRecord /\ cs2 = Append(cs, c)
        BY <1>10, <1>12, <1>15, <3>2
      <3>4. Made(cs2, t, id, k)
              <=> Made(cs, t, id, k) \/ IsCall(c, t, id, k)
        BY <3>3, MadeMore
      <3> QED
        BY <1>10, <3>1, <3>2, <3>4 DEF IsCall
    <2>2. \A k : k \in 1 .. (n + 1) - 1 <=> k \in 1 .. n - 1 \/ n = k
      OBVIOUS
    <2> QED
      BY <1>13, <2>1, <2>2, Zenon
  <1>19. PICK r2 : r2 = [r EXCEPT !.next = n + 1]
    OBVIOUS
  <1>20. /\ DOMAIN r2 = RunningFields /\ r2.next = n + 1
         /\ r2.batch = b /\ r2.spender_id = r.spender_id /\ r2.manager_id = r.manager_id
         /\ r2.account_admin = r.account_admin /\ r2.transfers = r.transfers /\ r2.sent = r.sent
         /\ r2.edits = r.edits /\ r2.whitelist = r.whitelist /\ r2.charged = r.charged
         /\ r2.calls = r.calls
    <2>1. DOMAIN r = RunningFields
      BY <1>1 DEF RunningFacts, SavedFacts
    <2> QED
      BY <1>2, <1>19, <2>1 DEF RunningFields
  <1>21. SavedFacts(r2)
    <2>1. n + 1 \in Nat \ {0} /\ n + 1 <= Len(b.request.actions) + 1
      BY <1>6, <1>7
    <2> QED
      BY <1>1, <1>2, <1>20, <2>1 DEF RunningFacts, SavedFacts
  <1>22. RunningFacts(r2)'
    BY <1>1, <1>2, <1>6, <1>16, <1>17, <1>18, <1>19, <1>20, <1>21 DEF RunningFacts
  <1> QED
    BY <1>6, <1>15, <1>16, <1>19, <1>22 DEF TreasuryInv, ShapeNow

\* The step of the treasury's induction, action by action.
LEMMA StepTreasuryInv ==
    ASSUME TreasuryInv, [TreasuryNext]_treasury
    PROVE  TreasuryInv'
  <1>1. \A r \in running : r.batch \in batches
    BY DEF TreasuryInv, RunningFacts
  <1>2. [Next]_vars
    BY <1>1, TimelockSteps
  <1>3. DeliveryInv' /\ Extends(scheduled, scheduled') /\ Grows(Deliveries, Deliveries')
    BY <1>2, NextDeliveryInv, NextGrows DEF TreasuryInv, DeliveryInv
  <1>4. CASE TimelockStep
    BY <1>2, <1>3, <1>4, TimelockStepInv
  <1>5. ASSUME NEW b \in batches, Begin(b) PROVE TreasuryInv'
    BY <1>5, BeginInv
  <1>6. ASSUME NEW r \in running, Invoke(r) \/ Commit(r) \/ Revert(r) PROVE TreasuryInv'
    BY <1>3, <1>6, InvokeInv, CommitInv, RevertInv
  <1>7. ASSUME NEW a \in SpendingAccounts, NEW caller \in Daos \cup Users, NEW call \in AccountCalls,
               DirectCall(a, caller, call)
        PROVE  TreasuryInv'
    BY <1>7, DirectCallInv
  <1>8. CASE SettleStep
    BY <1>8, SettleStepInv
  <1>9. CASE UNCHANGED treasury
    <2>1. UNCHANGED <<account, running, calls, scheduled, delivered, batches>>
      BY <1>9 DEF treasury, vars, history
    <2>2. /\ UNCHANGED <<spender_id, manager_id, account_admin, whitelist, charged, transfers, sent, edits>>
          /\ Deliveries' = Deliveries
      BY <2>1 DEF account, Deliveries, DeliveredIds
    <2> QED
      BY <1>3, <2>1, <2>2 DEF TreasuryInv, RunningFacts
  <1> QED
    BY <1>4, <1>5, <1>6, <1>7, <1>8, <1>9 DEF TreasuryNext

-----------------------------------------------------------------------------
(* The theorems *)

\* The inductive invariant holds in every state of the treasury, whatever
\* batches, direct calls, failures and settlements are interleaved.
THEOREM TreasuryInvariance == TreasurySpec => []TreasuryInv
  <1>1. TreasuryInit => TreasuryInv
    BY InitTreasuryInv
  <1>2. TreasuryInv /\ [TreasuryNext]_treasury => TreasuryInv'
    BY StepTreasuryInv
  <1> QED
    BY <1>1, <1>2, PTL DEF TreasurySpec

\* The timelocks in front of spending accounts are timelocks: every theorem
\* about DaoTimelock holds in the treasury (execute and the batches it sends).
THEOREM TimelocksOfTreasury == TreasurySpec => Spec
  <1>1. TreasuryInit => Init
    BY DEF TreasuryInit
  <1>2. TreasuryInv /\ [TreasuryNext]_treasury => [Next]_vars
    BY TimelockSteps DEF TreasuryInv, RunningFacts
  <1> QED
    BY <1>1, <1>2, TreasuryInvariance, PTL DEF TreasurySpec, Spec

\* What is in flight to a recipient is what one call of a scheduled request
\* says, and no call takes effect twice (execute, transfer, transfer_ft).
THEOREM PaymentsVotedHolds == TreasurySpec => []PaymentsVoted
  <1>1. ASSUME TreasuryInv
        PROVE  PaymentsVoted
    <2>1. DOMAIN calls = 1 .. Len(calls)
      BY <1>1, LenProperties DEF TreasuryInv, Recorded
    <2>2. \A i, j \in DOMAIN calls :
            calls[i].request_id # None /\ SameCall(calls[i], calls[j]) => i = j
      BY <1>1, <2>1 DEF TreasuryInv, MadeOnce
    <2>3. \A x \in transfers : \E i \in DOMAIN calls :
            calls[i].nonce = x.nonce /\ Ordered(scheduled, x, calls[i])
      BY <1>1, <2>1 DEF TreasuryInv, Recorded, HasOrder
    <2> QED
      BY <2>2, <2>3, Zenon DEF PaymentsVoted, Ordered, Orders
  <1> QED
    BY <1>1, TreasuryInvariance, PTL

\* Of a batch that has reached a spending account all calls are in effect, or
\* none when it failed, and what the accounts count as sent or edited is the
\* calls in effect (lib.rs execute: one batch of actions).
THEOREM BatchesAllOrNothingHolds == TreasurySpec => []BatchesAllOrNothing
  <1>1. ASSUME TreasuryInv
        PROVE  BatchesAllOrNothing
    <2>1. Len(calls) = sent + edits /\ DOMAIN calls = 1 .. Len(calls)
      BY <1>1, LenProperties DEF TreasuryInv, Recorded
    <2>2. ASSUME NEW t \in Timelocks, NEW i \in DOMAIN delivered[t], NEW id, NEW ok, NEW request,
                 id = delivered[t][i].request_id, ok = delivered[t][i].ok,
                 request = scheduled[t][id].request, request.receiver_id \in SpendingAccounts
          PROVE  InEffect(t, id) = IF ok THEN DOMAIN request.actions ELSE {}
      <3>1. WholeBatch(scheduled, t, delivered[t][i], calls)
        BY <1>1 DEF TreasuryInv, Whole
      <3>2. \A k : Made(calls, t, id, k) <=> ok /\ k \in DOMAIN request.actions
        BY <2>2, <3>1, Zenon DEF WholeBatch
      <3>3. \A k : k \in InEffect(t, id) <=> Made(calls, t, id, k)
        BY <2>1, Zenon DEF InEffect, Made, IsCall
      <3> QED
        BY <3>2, <3>3
    <2> QED
      BY <2>1, <2>2 DEF BatchesAllOrNothing
  <1> QED
    BY <1>1, TreasuryInvariance, PTL

\* The batch being run has waited out the delay of the timelock that sent it.
LEMMA RunningWaited ==
    ASSUME TreasuryInv, NEW r \in running
    PROVE  Waited(r.batch.request.receiver_id, r.batch.from)
  <1>1. PICK b \in batches : b = r.batch
    BY DEF TreasuryInv, RunningFacts
  <1>2. /\ b.request_id \notin CancelledIds(b.from)
        /\ \E i \in DOMAIN executed[b.from] :
             /\ executed[b.from][i].request_id = b.request_id
             /\ executed[b.from][i].at >= scheduled[b.from][b.request_id].at
                                            + scheduled[b.from][b.request_id].delay
    BY BatchWaited DEF TreasuryInv, DeliveryInv
  <1> QED
    BY <1>1, <1>2, Zenon DEF Waited

\* While a timelock holds a role of a spending account, payments, new holders of
\* a role, and entries added, removed, raised or lowered happen only in a batch
\* of that timelock that waited out its delay uncancelled (assert_admin,
\* assert_manager, the spender's check in transfer and transfer_ft).
THEOREM AccountChangesWaitHolds == TreasurySpec => AccountChangesWait
  <1>1. ASSUME TreasuryInv, [TreasuryNext]_treasury, running = {} \/ running' # {}
        PROVE  AccountChangeWaited
    <2>1. ASSUME UNCHANGED <<spender_id, manager_id, account_admin, charged>>,
                 \A a \in SpendingAccounts : ~Edited(a)
          PROVE  AccountChangeWaited
      BY <2>1 DEF AccountChangeWaited, RolesOf
    <2>2. ShapeNow /\ FieldsNow
      BY <1>1 DEF TreasuryInv, ShapeNow, Recorded, FieldsNow
    <2>3. CASE TimelockStep \/ (\E b \in batches : Begin(b)) \/ (\E r \in running : Commit(r))
               \/ UNCHANGED treasury
      <3>1. UNCHANGED account
        BY <2>3 DEF TimelockStep, Begin, Commit, treasury
      <3>2. \A a \in SpendingAccounts : ~Edited(a)
        BY <3>1, NotEdited DEF account
      <3> QED
        BY <2>1, <3>1, <3>2 DEF account
    <2>4. ASSUME NEW r \in running, Invoke(r)
          PROVE  AccountChangeWaited
      <3>1. PICK a, caller : /\ a \in SpendingAccounts /\ a = r.batch.request.receiver_id
                             /\ caller = r.batch.from
        BY <1>1 DEF TreasuryInv, RunningFacts, SavedFacts
      <3>2. \E call : Dispatch(a, caller, call)
        BY <2>4, <3>1 DEF Invoke
      <3>3. Allowed(a, caller)
        BY <2>2, <3>1, <3>2, DispatchEffect
      <3>4. Waited(a, caller)
        BY <1>1, <3>1, RunningWaited
      <3> QED
        BY <3>3, <3>4 DEF Allowed, AccountChangeWaited
    <2>5. ASSUME NEW a \in SpendingAccounts, NEW caller \in Daos \cup Users, NEW call,
                 DirectCall(a, caller, call)
          PROVE  AccountChangeWaited
      <3>1. Allowed(a, caller)
        BY <2>2, <2>5, DispatchEffect DEF DirectCall
      <3>2. caller \notin Timelocks
        BY AccountAssumption
      <3> QED
        BY <3>1, <3>2 DEF Allowed, AccountChangeWaited
    <2>6. CASE SettleStep
      BY <2>1, <2>2, <2>6, SettleEffect DEF SettleStep
    <2>7. ASSUME NEW r \in running, Revert(r)
          PROVE  FALSE
      BY <1>1, <2>7 DEF Revert
    <2> QED
      BY <1>1, <2>3, <2>4, <2>5, <2>6, <2>7 DEF TreasuryNext
  <1>2. TreasuryInv /\ [TreasuryNext]_treasury
          => [running = {} \/ running' # {} => AccountChangeWaited]_treasury
    BY <1>1
  <1> QED
    BY <1>2, TreasuryInvariance, PTL DEF TreasurySpec, AccountChangesWait
=============================================================================
