------------------------------ MODULE Treasury ------------------------------
(***************************************************************************)
(* The deployed treasury (README.md, "Architecture"): spending accounts    *)
(* whose roles are held by timelocks.  The batch of an executed request is *)
(* one receipt: at a spending account its calls run one after the other    *)
(* with nothing in between, each as an action of SpendingAccount called by *)
(* the timelock; when one of them fails all of them are undone.  running   *)
(* has the batch being run, if any, with the number of its next call and   *)
(* the state it started from.  What the calls have sent settles later.     *)
(*                                                                         *)
(* calls is history: every call in effect at a spending account, with the  *)
(* request it belongs to and the nonce of the transfer it has sent.        *)
(***************************************************************************)
EXTENDS DaoTimelock

CONSTANTS
    SpendingAccounts, Recipients, Tokens, AccountDeployments, InitialFunds,
    AccountCalls,                \* the calls made by accounts that are no timelocks
    MaxTransfers, MaxEdits       \* bounds of SpendingAccount

\* Every spending account is deployed with its three roles.
ASSUME AccountDeployAssumption ==
    \A d \in AccountDeployments : /\ d.spender_id \in [SpendingAccounts -> Accounts]
                                  /\ d.manager_id \in [SpendingAccounts -> Accounts]
                                  /\ d.admin_id \in [SpendingAccounts -> Accounts]

VARIABLES
    spender_id, manager_id, account_admin, whitelist, funds, transfers, sent, edits,
    granted, revoked, paid, charged, rolled_back, fees,    \* of SpendingAccount
    running, calls

SA == INSTANCE SpendingAccount WITH
          admin_id <- account_admin, Deployments <- AccountDeployments, Holders <- Accounts,
          EntryLists <- {}, KeyLists <- {}, ChangeLists <- {}, Amounts <- {}

account  == <<spender_id, manager_id, account_admin, whitelist, funds, transfers, sent, edits,
              granted, revoked, paid, charged, rolled_back, fees>>
treasury == <<vars, account, running, calls>>

TreasuryInit ==
    /\ Init
    /\ SA!Init
    /\ running = {}
    /\ calls = << >>

\* One call at spending account a; no method of the contract is payable.
Dispatch(a, caller, call) ==
    /\ call.deposit = 0
    /\ LET args == call.args
       IN  \/ /\ call.method_name = "add_to_whitelist"
              /\ SA!AddToWhitelist(a, caller, args.entries)
           \/ /\ call.method_name = "remove_from_whitelist"
              /\ SA!RemoveFromWhitelist(a, caller, args.keys)
           \/ /\ call.method_name = "set_limit"
              /\ SA!SetLimit(a, caller, args.entries)
           \/ /\ call.method_name = "increase_limit"
              /\ SA!IncreaseLimit(a, caller, args.changes)
           \/ /\ call.method_name = "decrease_limit"
              /\ SA!DecreaseLimit(a, caller, args.changes)
           \/ /\ call.method_name = "set_spender"
              /\ SA!set_spender(a, caller, args.spender_id)
           \/ /\ call.method_name = "set_manager"
              /\ SA!set_manager(a, caller, args.manager_id)
           \/ /\ call.method_name = "set_admin"
              /\ SA!set_admin(a, caller, args.admin_id)
           \/ /\ call.method_name = "transfer"
              /\ SA!transfer(a, caller, args.receiver_id, args.amount)
           \/ /\ call.method_name = "transfer_ft"
              /\ SA!transfer_ft(a, caller, args.receiver_id, args.token_id, args.amount)

RecordCall(caller, request_id, index) ==
    calls' = Append(calls, [by |-> caller, request_id |-> request_id, index |-> index,
                            nonce |-> IF sent' = sent THEN None ELSE sent])

-----------------------------------------------------------------------------
(* A batch at a spending account *)

Begin(b) ==
    /\ running = {}
    /\ Arrives(b)
    /\ b.request.receiver_id \in SpendingAccounts
    /\ running' = {[batch |-> b, next |-> 1, spender_id |-> spender_id, manager_id |-> manager_id,
                    account_admin |-> account_admin, whitelist |-> whitelist, funds |-> funds,
                    transfers |-> transfers, sent |-> sent, edits |-> edits, granted |-> granted,
                    revoked |-> revoked, charged |-> charged, calls |-> calls]}
    /\ UNCHANGED <<vars, account, calls>>

Invoke(r) ==
    /\ r.next <= Len(r.batch.request.actions)
    /\ Dispatch(r.batch.request.receiver_id, r.batch.from, r.batch.request.actions[r.next])
    /\ RecordCall(r.batch.from, r.batch.request_id, r.next)
    /\ running' = {[r EXCEPT !.next = @ + 1]}
    /\ UNCHANGED vars

Commit(r) ==
    /\ r.next > Len(r.batch.request.actions)
    /\ ReceiveOther(r.batch)
    /\ running' = {}
    /\ UNCHANGED <<account, calls>>

\* Mutant: every call is a promise of its own, so what the earlier ones did stays.
KeepEarlierCalls(r) ==
    /\ r.next <= Len(r.batch.request.actions)
    /\ BatchFails(r.batch)
    /\ running' = {}
    /\ UNCHANGED <<account, calls>>

\* A call panics or runs out of gas.
Revert(r) ==
    /\ r.next <= Len(r.batch.request.actions)
    /\ BatchFails(r.batch)
    /\ spender_id' = r.spender_id
    /\ manager_id' = r.manager_id
    /\ account_admin' = r.account_admin
    /\ whitelist' = r.whitelist
    /\ funds' = r.funds
    /\ transfers' = r.transfers
    /\ sent' = r.sent
    /\ edits' = r.edits
    /\ granted' = r.granted
    /\ revoked' = r.revoked
    /\ charged' = r.charged
    /\ calls' = r.calls
    /\ running' = {}
    /\ UNCHANGED <<paid, rolled_back, fees>>

-----------------------------------------------------------------------------

\* Everything the timelocks do, but for batches that reach a spending account.
TimelockStep ==
    /\ running = {}
    /\ Next
    /\ \A b \in batches \ batches' : b.request.receiver_id \notin SpendingAccounts
    /\ UNCHANGED <<account, running, calls>>

\* An account that is no timelock calls a spending account.
DirectCall(a, caller, call) ==
    /\ running = {}
    /\ Dispatch(a, caller, call)
    /\ RecordCall(caller, None, None)
    /\ UNCHANGED <<vars, running>>

SettleStep ==
    /\ running = {}
    /\ \E x \in transfers : SA!Settles(x)
    /\ UNCHANGED <<vars, running, calls>>

TreasuryNext ==
    \/ TimelockStep
    \/ \E b \in batches : Begin(b)
    \/ \E r \in running : Invoke(r) \/ Commit(r) \/ Revert(r)
    \/ \E a \in SpendingAccounts, caller \in Daos \cup Users, call \in AccountCalls :
         DirectCall(a, caller, call)
    \/ SettleStep

TreasurySpec == TreasuryInit /\ [][TreasuryNext]_treasury

-----------------------------------------------------------------------------
(* Properties *)

\* The batch being run at a is one of timelock t that nobody has cancelled
\* before the delay in force at its scheduling was over.
Waited(a, t) ==
    \E r \in running :
        LET b == r.batch
            s == scheduled[t][b.request_id]
        IN  /\ b.from = t
            /\ b.request.receiver_id = a
            /\ b.request_id \notin CancelledIds(t)
            /\ \E i \in DOMAIN executed[t] :
                 executed[t][i].request_id = b.request_id /\ executed[t][i].at >= s.at + s.delay

RolesOf(a) == <<spender_id[a], manager_id[a], account_admin[a]>>

\* A transfer that is sent takes its amount off the entry of k.
Charges(a, k) ==
    \E x \in transfers' \ transfers :
        /\ x.from = a /\ SA!KeyOf(x) = k
        /\ whitelist[a][k] # None /\ whitelist'[a][k] = whitelist[a][k] - x.amount

\* A failed transfer that is settled gives its amount back to the entry of k.
Returns(a, k) ==
    \E x \in transfers \ transfers' :
        /\ x.from = a /\ SA!KeyOf(x) = k /\ x.result = "failed"
        /\ whitelist[a][k] # None
        /\ whitelist'[a][k] = SA!SaturatingAdd(whitelist[a][k], x.amount)

\* An entry is added, removed or given another limit.
Edited(a) ==
    \E k \in SA!Keys :
        whitelist'[a][k] # whitelist[a][k] /\ ~Charges(a, k) /\ ~Returns(a, k)

AccountChangeWaited ==
    \A a \in SpendingAccounts :
        /\ charged'[a] # charged[a] /\ spender_id[a] \in Timelocks => Waited(a, spender_id[a])
        /\ Edited(a) /\ manager_id[a] \in Timelocks => Waited(a, manager_id[a])
        /\ RolesOf(a)' # RolesOf(a) /\ account_admin[a] \in Timelocks => Waited(a, account_admin[a])

\* "Every fund movement requires a DAO vote, the timelock delay (during which
\* guardians can cancel), and a recipient that is already whitelisted"
\* (README.md): while a timelock holds a role, a payment, a new holder of a role,
\* and every entry added, removed, raised or lowered otherwise than by a payment
\* and its failure, is the doing of a batch of that timelock which has waited out
\* its delay uncancelled, even while the roles change hands (assert_admin,
\* assert_manager, the spender's check).  A batch undone is the matter of
\* BatchesAllOrNothing.
AccountChangesWait ==
    [][running = {} \/ running' # {} => AccountChangeWaited]_treasury

SameCall(c, d) == c.by = d.by /\ c.request_id = d.request_id /\ c.index = d.index

\* What is on its way to a recipient is what one call of one scheduled request
\* says, and no call of any request takes effect twice (lib.rs execute, transfer.rs).
PaymentsVoted ==
    /\ \A i, j \in DOMAIN calls :
         calls[i].request_id # None /\ SameCall(calls[i], calls[j]) => i = j
    /\ \A x \in transfers : \E i \in DOMAIN calls :
         /\ calls[i].nonce = x.nonce
         /\ calls[i].request_id # None =>
              LET request == scheduled[calls[i].by][calls[i].request_id].request
                  call    == request.actions[calls[i].index]
                  args    == call.args
              IN  /\ request.receiver_id = x.from
                  /\ args.receiver_id = x.receiver_id
                  /\ x.token_id = IF call.method_name = "transfer" THEN None ELSE args.token_id
                  /\ args.amount = x.amount

\* The calls of request id of timelock t that are in effect.
InEffect(t, id) ==
    {calls[i].index : i \in {j \in DOMAIN calls : calls[j].by = t /\ calls[j].request_id = id}}

\* "The actions run as one atomic batch" (lib.rs execute): of a batch that has
\* reached a spending account all calls are in effect, each edit and each
\* transfer the account counts being one of them or a direct call, and of a batch
\* that failed, however late, none is.
BatchesAllOrNothing ==
    /\ Len(calls) = sent + edits
    /\ \A t \in Timelocks : \A i \in DOMAIN delivered[t] :
         LET d       == delivered[t][i]
             request == scheduled[t][d.request_id].request
         IN  request.receiver_id \in SpendingAccounts
               => InEffect(t, d.request_id) = IF d.ok THEN DOMAIN request.actions ELSE {}

\* "Paying a new recipient costs two votes and two full delays" (README.md): no
\* request pays a recipient that was not whitelisted before its batch arrived.
NewRecipientTakesTwoVotes ==
    \A r \in running, x \in transfers :
        x.nonce >= r.sent => r.whitelist[x.from][SA!KeyOf(x)] # None
============================================================================
