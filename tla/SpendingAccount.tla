-------------------------- MODULE SpendingAccount --------------------------
(***************************************************************************)
(* The spending-account contract (spending-account/src), as many deployed  *)
(* instances as SpendingAccounts has elements, with the NEAR transfers and *)
(* NEP-141 calls they send and the callbacks that settle them.             *)
(*                                                                         *)
(* A method is atomic and a panic is a disabled action.  A transfer goes   *)
(* through three steps: the spender's call charges the allowance and sends *)
(* a receipt; the receipt succeeds or fails at the receiver or the token   *)
(* contract; the callback restores the allowance after a failure.  Other   *)
(* calls may run between any two of them.                                  *)
(*                                                                         *)
(* The rest is history.  Per whitelist key, granted and revoked are the    *)
(* allowance the manager has given and taken back, paid is what really was *)
(* paid out, and charged and rolled_back sum up the transfer and           *)
(* transfer_failed events (events.rs); fees counts the yoctos that token   *)
(* contracts have kept.  A transfer is an orphan once its entry has been   *)
(* removed since it was sent.                                              *)
(***************************************************************************)
EXTENDS Whitelist

CONSTANTS
    SpendingAccounts,    \* deployed contracts
    Holders,             \* accounts that may hold a role or call a method
    Recipients,          \* accounts that may be whitelisted
    Tokens,              \* NEP-141 contracts
    Deployments,         \* the roles new may be called with
    EntryLists, KeyLists, ChangeLists,   \* arguments of the manager's methods
    Amounts,             \* arguments of the spender's methods
    InitialFunds,        \* of every contract in every asset
    MaxTransfers, MaxEdits   \* bounds: calls of the spender, of the manager and the admin

Assets == Tokens \cup {None}

Keys == Recipients \X Assets

ASSUME NoneAssumption == None \notin Nat /\ None \notin Tokens

\* A receipt without a result has neither succeeded nor failed.
ASSUME ResultAssumption == None \notin {"ok", "failed"}

ASSUME DeployAssumption ==
    /\ \A d \in Deployments : /\ d.spender_id \in [SpendingAccounts -> Holders]
                              /\ d.manager_id \in [SpendingAccounts -> Holders]
                              /\ d.admin_id \in [SpendingAccounts -> Holders]
    /\ InitialFunds \in [SpendingAccounts -> [Assets -> Nat]]

\* Limits and amounts are of type u128.
ASSUME AmountAssumption ==
    /\ Amounts \subseteq 0 .. U128_MAX
    /\ \A entries \in EntryLists :
         entries \in Seq([account_id : Recipients, token_id : Assets, limit : 0 .. U128_MAX])
    /\ \A changes \in ChangeLists :
         changes \in Seq([account_id : Recipients, token_id : Assets, amount : 0 .. U128_MAX])

ASSUME FiniteAssumption ==
    /\ IsFiniteSet(SpendingAccounts) /\ IsFiniteSet(Recipients) /\ IsFiniteSet(Tokens)
    /\ MaxTransfers \in Nat /\ MaxEdits \in Nat

VARIABLES
    spender_id, manager_id, admin_id, whitelist,   \* Contract
    funds,                                         \* NEAR and token balances
    transfers,                                     \* sent and not yet settled
    sent, edits,                                   \* how many calls were made
    granted, revoked, paid, charged, rolled_back, fees   \* history

roles   == <<spender_id, manager_id, admin_id>>
events  == <<charged, rolled_back>>
history == <<granted, revoked, paid, events, fees>>
vars    == <<roles, whitelist, funds, transfers, sent, edits, history>>

Zero == [a \in SpendingAccounts |-> [k \in Keys |-> 0]]

new(d) ==
    /\ spender_id = d.spender_id
    /\ manager_id = d.manager_id
    /\ admin_id = d.admin_id
    /\ whitelist = [a \in SpendingAccounts |-> [k \in Keys |-> None]]

Init ==
    /\ \E d \in Deployments : new(d)
    /\ funds = InitialFunds
    /\ transfers = {}
    /\ sent = 0 /\ edits = 0
    /\ granted = Zero /\ revoked = Zero /\ paid = Zero
    /\ charged = Zero /\ rolled_back = Zero
    /\ fees = [a \in SpendingAccounts |-> 0]

-----------------------------------------------------------------------------
(* The manager (whitelist.rs): the call is refused when w is None. *)

Excess(m, n) == IF m > n THEN m - n ELSE 0

KeyOf(x) == <<x.receiver_id, x.token_id>>

\* Mutant: whoever calls may edit the whitelist.
AnyManager(a, caller) == TRUE

assert_manager(a, caller) == caller = manager_id[a]

Manage(a, caller, w) ==
    /\ edits < MaxEdits                                             \* bound
    /\ assert_manager(a, caller)
    /\ w # None
    /\ whitelist' = [whitelist EXCEPT ![a] = w]
    /\ granted' = [granted EXCEPT ![a] =
          [k \in Keys |-> @[k] + Excess(Limit(w, k), Limit(whitelist[a], k))]]
    /\ revoked' = [revoked EXCEPT ![a] =
          [k \in Keys |-> @[k] + Excess(Limit(whitelist[a], k), Limit(w, k))]]
    /\ transfers' = {[x EXCEPT !.orphan = @ \/ (x.from = a /\ w[KeyOf(x)] = None)] : x \in transfers}
    /\ edits' = edits + 1
    /\ UNCHANGED <<roles, funds, sent, paid, events, fees>>

AddToWhitelist(a, caller, entries) ==
    Manage(a, caller, add_to_whitelist(a, whitelist[a], entries))

RemoveFromWhitelist(a, caller, keys) ==
    Manage(a, caller, remove_from_whitelist(whitelist[a], keys))

SetLimit(a, caller, entries) == Manage(a, caller, set_limit(whitelist[a], entries))

IncreaseLimit(a, caller, changes) ==
    Manage(a, caller, increase_limit(a, whitelist[a], changes))

DecreaseLimit(a, caller, changes) == Manage(a, caller, decrease_limit(whitelist[a], changes))

-----------------------------------------------------------------------------
(* The admin (admin.rs) *)

assert_admin(a, caller) == caller = admin_id[a]

set_spender(a, caller, id) ==
    /\ edits < MaxEdits                                             \* bound
    /\ assert_admin(a, caller)
    /\ spender_id' = [spender_id EXCEPT ![a] = id]
    /\ edits' = edits + 1
    /\ UNCHANGED <<manager_id, admin_id, whitelist, funds, transfers, sent, history>>

set_manager(a, caller, id) ==
    /\ edits < MaxEdits                                             \* bound
    /\ assert_admin(a, caller)
    /\ manager_id' = [manager_id EXCEPT ![a] = id]
    /\ edits' = edits + 1
    /\ UNCHANGED <<spender_id, admin_id, whitelist, funds, transfers, sent, history>>

set_admin(a, caller, id) ==
    /\ edits < MaxEdits                                             \* bound
    /\ assert_admin(a, caller)
    /\ admin_id' = [admin_id EXCEPT ![a] = id]
    /\ edits' = edits + 1
    /\ UNCHANGED <<spender_id, manager_id, whitelist, funds, transfers, sent, history>>

-----------------------------------------------------------------------------
(* The spender (transfer.rs) *)

ONE_YOCTO == 1

\* Mutant: the amount is attached to ft_transfer, too.
AttachAmount(token_id, amount) == amount

\* NEAR the receipt takes along: the amount itself, or one yocto for ft_transfer.
Attached(token_id, amount) == IF token_id = None THEN amount ELSE ONE_YOCTO

\* Mutant: an allowance for NEAR pays for tokens.
NearKey(receiver_id, token_id) == <<receiver_id, None>>

AllowanceKey(receiver_id, token_id) == <<receiver_id, token_id>>

\* Mutant: whoever calls may pay.
AnySpender(a, caller) == TRUE

IsSpender(a, caller) == caller = spender_id[a]

\* Mutant: what remains is sent instead of the amount.
SendRemaining(limit, amount) == limit - amount

AmountSent(limit, amount) == amount

\* What transfer and transfer_ft have in common.
Send(a, caller, receiver_id, token_id, amount) ==
    LET key == AllowanceKey(receiver_id, token_id)
    IN  /\ sent < MaxTransfers                                      \* bound
        /\ IsSpender(a, caller)
        /\ amount > 0
        /\ whitelist[a][key] # None
        /\ amount <= whitelist[a][key]
        /\ funds[a][None] >= Attached(token_id, amount)
        /\ whitelist' = [whitelist EXCEPT ![a][key] = @ - amount]
        /\ funds' = [funds EXCEPT ![a][None] = @ - Attached(token_id, amount)]
        /\ transfers' = transfers \cup
              {[nonce |-> sent, from |-> a, receiver_id |-> receiver_id, token_id |-> token_id,
                amount |-> AmountSent(whitelist[a][key], amount), result |-> None, orphan |-> FALSE]}
        /\ charged' = [charged EXCEPT ![a][key] = @ + amount]
        /\ sent' = sent + 1
        /\ UNCHANGED <<roles, edits, granted, revoked, paid, rolled_back, fees>>

transfer(a, caller, receiver_id, amount) == Send(a, caller, receiver_id, None, amount)

transfer_ft(a, caller, receiver_id, token_id, amount) ==
    token_id \in Tokens /\ Send(a, caller, receiver_id, token_id, amount)

\* The receipt runs at the receiver (NEAR) or at the token contract.
Credit(f, account, asset, amount) ==
    IF account \in SpendingAccounts THEN [f EXCEPT ![account][asset] = @ + amount] ELSE f

Succeeds(x) ==
    /\ x.result = None
    /\ x.token_id # None => funds[x.from][x.token_id] >= x.amount
    /\ LET taken == IF x.token_id = None THEN funds
                    ELSE [funds EXCEPT ![x.from][x.token_id] = @ - x.amount]
       IN  /\ funds' = Credit(taken, x.receiver_id, x.token_id, x.amount)
           /\ paid' = [paid EXCEPT ![x.from][KeyOf(x)] = @ + x.amount]
           /\ fees' = [fees EXCEPT ![x.from] = @ + IF x.token_id = None THEN 0 ELSE ONE_YOCTO]
    /\ transfers' = (transfers \ {x}) \cup {[x EXCEPT !.result = "ok"]}
    /\ UNCHANGED <<roles, whitelist, sent, edits, granted, revoked, events>>

\* Account deleted, receiver not registered with the token, too few tokens:
\* the protocol returns the attached NEAR before the callback runs.
Fails(x) ==
    /\ x.result = None
    /\ funds' = [funds EXCEPT ![x.from][None] = @ + Attached(x.token_id, x.amount)]
    /\ transfers' = (transfers \ {x}) \cup {[x EXCEPT !.result = "failed"]}
    /\ UNCHANGED <<roles, whitelist, sent, edits, history>>

SaturatingAdd(m, n) == IF m + n > U128_MAX THEN U128_MAX ELSE m + n

\* Mutant: the entry is created again when it has been removed.
RestoreAlways(w, x) ==
    [w EXCEPT ![AllowanceKey(x.receiver_id, x.token_id)] =
        SaturatingAdd(Limit(w, AllowanceKey(x.receiver_id, x.token_id)), x.amount)]

\* Mutant: + instead of saturating_add.
RestoreWrapping(w, x) ==
    LET key == AllowanceKey(x.receiver_id, x.token_id)
    IN  IF w[key] = None THEN w ELSE [w EXCEPT ![key] = (@ + x.amount) % (U128_MAX + 1)]

\* saturating_add to the limit of an entry that is still there.
Restore(w, x) ==
    LET key == AllowanceKey(x.receiver_id, x.token_id)
    IN  IF w[key] = None THEN w ELSE [w EXCEPT ![key] = SaturatingAdd(@, x.amount)]

\* Mutant: the limit is restored whatever the result was.
SettleAny(w, x) == Restore(w, x)

Settle(w, x) == IF x.result = "ok" THEN w ELSE Restore(w, x)

\* Mutant: no event when there is no entry to restore.
ReportRestored(x) == x.result = "failed" /\ whitelist[x.from][KeyOf(x)] # None

\* The events transfer_failed and ft_transfer_failed follow every failure.
ReportFailure(x) == x.result = "failed"

\* on_transfer and on_transfer_ft: what cannot be restored is lost to the
\* receiver, because its entry was removed or its limit is at the maximum.
OnTransfer(x) ==
    LET limit == whitelist[x.from][KeyOf(x)]
        lost  == IF x.result = "ok" THEN 0
                 ELSE IF limit = None THEN x.amount ELSE Excess(limit + x.amount, U128_MAX)
    IN  /\ x.result # None
        /\ transfers' = transfers \ {x}
        /\ whitelist' = [whitelist EXCEPT ![x.from] = Settle(@, x)]
        /\ revoked' = [revoked EXCEPT ![x.from][KeyOf(x)] = @ + lost]
        /\ rolled_back' = [rolled_back EXCEPT ![x.from][KeyOf(x)] =
                              @ + IF ReportFailure(x) THEN x.amount ELSE 0]
        /\ UNCHANGED <<roles, funds, sent, edits, granted, paid, charged, fees>>

\* Mutant: expect instead of if let, so the callback panics without an entry.
OnTransferExpect(x) == x.token_id = None /\ whitelist[x.from][KeyOf(x)] # None /\ OnTransfer(x)

on_transfer(x) == x.token_id = None /\ OnTransfer(x)

on_transfer_ft(x) == x.token_id # None /\ OnTransfer(x)

-----------------------------------------------------------------------------

Settles(x) == Succeeds(x) \/ Fails(x) \/ on_transfer(x) \/ on_transfer_ft(x)

Next ==
    \/ \E a \in SpendingAccounts, caller \in Holders :
         \/ \E entries \in EntryLists : AddToWhitelist(a, caller, entries) \/ SetLimit(a, caller, entries)
         \/ \E keys \in KeyLists : RemoveFromWhitelist(a, caller, keys)
         \/ \E changes \in ChangeLists : IncreaseLimit(a, caller, changes) \/ DecreaseLimit(a, caller, changes)
         \/ \E id \in Holders : \/ set_spender(a, caller, id)
                                \/ set_manager(a, caller, id)
                                \/ set_admin(a, caller, id)
         \/ \E receiver_id \in Recipients, amount \in Amounts :
              \/ transfer(a, caller, receiver_id, amount)
              \/ \E token_id \in Tokens : transfer_ft(a, caller, receiver_id, token_id, amount)
    \/ \E x \in transfers : Settles(x)

Spec == Init /\ [][Next]_vars

-----------------------------------------------------------------------------
(* Properties *)

Transfer ==
    [nonce : Nat, from : SpendingAccounts, receiver_id : Recipients, token_id : Assets,
     amount : 1 .. U128_MAX, result : {None, "ok", "failed"}, orphan : BOOLEAN]

\* Types; a limit never leaves the range of u128, whatever is restored when.
TypeOK ==
    /\ spender_id \in [SpendingAccounts -> Holders]
    /\ manager_id \in [SpendingAccounts -> Holders]
    /\ admin_id \in [SpendingAccounts -> Holders]
    /\ whitelist \in [SpendingAccounts -> [Keys -> (0 .. U128_MAX) \cup {None}]]
    /\ funds \in [SpendingAccounts -> [Assets -> Nat]]
    /\ transfers \subseteq Transfer
    /\ sent \in 0 .. MaxTransfers /\ edits \in 0 .. MaxEdits
    /\ {granted, revoked, paid, charged, rolled_back} \subseteq [SpendingAccounts -> [Keys -> Nat]]
    /\ fees \in [SpendingAccounts -> Nat]

\* The transfers that hold allowance of a for k, and how much.
Reserving(a, k) == {x \in transfers : x.from = a /\ KeyOf(x) = k /\ x.result # "ok"}

InFlight(a, k) == SumFunctionOnSet([x \in Reserving(a, k) |-> x.amount], Reserving(a, k))

\* Allowance is neither made nor lost by paying: all the manager ever granted
\* for a recipient and an asset is still unspent, on its way, paid out in that
\* asset to that recipient, or taken back; however transfers, their failures,
\* late callbacks and changes of the whitelist interleave (transfer.rs).
AllowanceConserved ==
    \A a \in SpendingAccounts, k \in Keys :
        granted[a][k] = Limit(whitelist[a], k) + InFlight(a, k) + paid[a][k] + revoked[a][k]

\* NEAR of a on its way.
UnderWay(a) == {x \in transfers : x.from = a /\ x.result = None}

NearUnderWay(a) ==
    SumFunctionOnSet([x \in UnderWay(a) |-> Attached(x.token_id, x.amount)], UnderWay(a))

PaidOut(a, asset) == SumFunctionOnSet(paid[a], {k \in Keys : k[2] = asset})

PaidTo(account, asset) ==
    SumFunctionOnSet([a \in SpendingAccounts |-> paid[a][<<account, asset>>]], SpendingAccounts)

\* Funds leave a spending account only as payments on some allowance, as NEAR on
\* its way, and as the yocto every successful ft_transfer costs (transfer.rs).
FundsAccounted ==
    \A a \in SpendingAccounts, asset \in Assets :
        funds[a][asset] + PaidOut(a, asset)
          + (IF asset = None THEN fees[a] + NearUnderWay(a) ELSE 0)
        = InitialFunds[a][asset] + (IF a \in Recipients THEN PaidTo(a, asset) ELSE 0)

\* The contract never has an allowance for itself (whitelist.rs: "Cannot
\* whitelist the contract itself"), not even one created by increase_limit.
SelfNotWhitelisted ==
    \A a \in SpendingAccounts, k \in Keys : k[1] = a => whitelist[a][k] = None

\* Whoever reads nothing but the events knows what was paid: the transfer events
\* less the failure events are the payments made and those still under way, and
\* no failure goes unreported, not even that of a recipient removed meanwhile.
EventsTellPayments ==
    \A a \in SpendingAccounts, k \in Keys :
        charged[a][k] = paid[a][k] + InFlight(a, k) + rolled_back[a][k]

\* The rollback of a failed transfer is skipped if its entry was removed since
\* the transfer was sent (spending-account/README.md, "The rollback is skipped if
\* the record was removed in the meantime").
RollbackSkippedAfterRemoval ==
    [][\A x \in transfers \ transfers' :
          x.result = "failed" /\ x.orphan
            => whitelist'[x.from][KeyOf(x)] = whitelist[x.from][KeyOf(x)]]_vars

\* A removed entry comes back only by a call of the manager: a callback that
\* arrives after remove_from_whitelist restores nothing (transfer.rs on_transfer).
NoResurrection ==
    [][\A a \in SpendingAccounts, k \in Keys :
          whitelist[a][k] = None /\ whitelist'[a][k] # None => edits' > edits]_vars

-----------------------------------------------------------------------------
(* Liveness: the protocol processes every receipt and every callback. *)

Fairness ==
    \A n \in 0 .. MaxTransfers - 1 : WF_vars(\E x \in transfers : x.nonce = n /\ Settles(x))

FairSpec == Spec /\ Fairness

\* No allowance stays on its way forever: every single transfer is settled, its
\* callback runs to the end, also when its entry was removed meanwhile and while
\* others are sent (transfer.rs on_transfer).
ReservationsEnd ==
    \A n \in 0 .. MaxTransfers - 1 :
        (\E x \in transfers : x.nonce = n) ~> (\A x \in transfers : x.nonce # n)

-----------------------------------------------------------------------------
(* Refinement *)

Available == [a \in SpendingAccounts |-> [k \in Keys |-> Limit(whitelist[a], k)]]

Reserved == [a \in SpendingAccounts |-> [k \in Keys |-> InFlight(a, k)]]

Ledger == INSTANCE AllowanceLedger WITH
              Accounts  <- SpendingAccounts,
              MaxLimit  <- U128_MAX,
              available <- Available,
              reserved  <- Reserved

\* The contract with its receipts and callbacks keeps the promise of the ledger:
\* allowance is paid once, reserved before it is paid, and comes back at most
\* once, after a failure, and never by itself (transfer.rs, whitelist.rs).
ImplementsLedger == Ledger!Spec
============================================================================
