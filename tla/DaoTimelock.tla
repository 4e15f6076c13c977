---------------------------- MODULE DaoTimelock ----------------------------
(***************************************************************************)
(* The dao-timelock contract (dao-timelock/src/lib.rs, admin.rs), as many  *)
(* deployed instances as Timelocks has elements, with the part of NEAR     *)
(* they run on: a clock, balances and the receipts in flight.              *)
(*                                                                         *)
(* A contract method is atomic: a failed require! or expect reverts all of *)
(* it, so a panic is a disabled action.  Everything a method sends (the    *)
(* batch of execute, its callback, the approving vote, a refund) travels   *)
(* as a receipt and is handled in a later step, in any order except that   *)
(* receipts of one sender to one receiver arrive in the order of sending.  *)
(*                                                                         *)
(* scheduled, executed, cancelled, delivered and stranded are history: the *)
(* first three record what the contract's EVENT_JSON logs say.             *)
(***************************************************************************)
EXTENDS Request

CONSTANTS
    Timelocks, Daos, Users,  \* accounts: dao-timelock contracts, Sputnik DAOs, all others
    MAX_DELAY_NS,            \* 30 days
    Deployments,             \* what new may be called with
    ScheduleArgs,            \* the [receiver_id, actions] DAOs schedule
    ProposalArgs,            \* the proposals DAOs schedule
    SetterCalls,             \* calls of set_dao, set_admin, set_guardians, set_delay
    Deposits,                \* amounts of NEAR a call may attach
    InitialBalance,          \* of every account
    StorageCost,             \* what the protocol locks for a pending request
    MaxRequests,             \* bound: request ids
    Capacity,                \* bound: how many of them each timelock hands out
    MaxTime, MaxProposals    \* bounds: the clock, the proposals of a DAO

Accounts == Timelocks \cup Daos \cup Users

RequestIds == 0 .. MaxRequests - 1

Times == 0 .. MaxTime

\* serde_json text of a proposal kind (lib.rs: kind.to_string(), from_str).
ToJson(kind) == [json |-> kind]

FromJson(text) == text.json

AddProposalCall(p) ==
    [method_name |-> "add_proposal", args |-> [kind |-> p.kind],
     deposit |-> p.proposal_bond, gas |-> p.add_proposal_gas]

Approval(p) == [kind |-> ToJson(p.kind), act_proposal_gas |-> p.act_proposal_gas]

ActionLists == {a.actions : a \in ScheduleArgs}
                 \cup {<<AddProposalCall(p)>> : p \in ProposalArgs}

Requests ==
    [receiver_id : Accounts, actions : ActionLists, funder_id : Accounts,
     execute_after : 0 .. U64_MAX, approve : {Approval(p) : p \in ProposalArgs} \cup {None},
     predecessor_id : RequestIds \cup {None}]

\* A schedule event: the request, its time, the delay then in force, the
\* caller and what it attached.
Scheduled ==
    [request : Requests, at : Times, delay : 0 .. MAX_DELAY_NS, by : Daos, deposit : Nat]

\* The arguments of a setter have the type its signature gives them.
WellTyped(call) ==
    /\ call.method_name = "set_dao"       => call.args.dao_id \in Daos
    /\ call.method_name = "set_admin"     => call.args.admin_id \in Accounts
    /\ call.method_name = "set_guardians" => call.args.guardians \in SUBSET Users
    /\ call.method_name = "set_delay"     => call.args.delay_ns \in Nat

ASSUME AccountAssumption ==
    Timelocks \cap Daos = {} /\ Timelocks \cap Users = {} /\ Daos \cap Users = {}

ASSUME NoneAssumption ==
    /\ None \notin Nat /\ None \notin Requests /\ None \notin Scheduled
    /\ \A p \in ProposalArgs : None # Approval(p)

\* The u64 nanosecond clock stays a maximal delay short of overflow.
ASSUME ClockAssumption ==
    MaxTime \in Nat /\ MAX_DELAY_NS \in Nat /\ MaxTime + MAX_DELAY_NS <= U64_MAX

ASSUME BoundAssumption ==
    MaxRequests \in Nat /\ MaxProposals \in Nat /\ Capacity \in [Timelocks -> 0 .. MaxRequests]

\* "The timelock should hold a small NEAR balance to cover storage for pending
\* requests" (dao-timelock/README.md).
ASSUME StorageAssumption ==
    /\ StorageCost \in Nat
    /\ \A t \in Timelocks : InitialBalance[t] >= StorageCost * Capacity[t]

ASSUME DeployAssumption ==
    /\ \A d \in Deployments :
         /\ d.dao_id \in [Timelocks -> Daos]
         /\ d.admin_id \in [Timelocks -> Accounts]
         /\ d.guardians \in [Timelocks -> SUBSET Users]
         /\ d.delay_ns \in [Timelocks -> Nat]
    /\ InitialBalance \in [Accounts -> Int]
    /\ Deposits \subseteq Nat

ASSUME ArgsAssumption ==
    /\ \A a \in ScheduleArgs : a.receiver_id \in Accounts /\ \A i \in DOMAIN a.actions : WellTyped(a.actions[i])
    /\ \A p \in ProposalArgs : p.dao_id \in Daos /\ p.proposal_bond \in 0 .. U128_MAX
    /\ \A call \in SetterCalls : WellTyped(call)

\* actions is a vector of calls, their deposits are amounts of NearToken.
ASSUME ActionsAssumption ==
    \A a \in ScheduleArgs :
      /\ Len(a.actions) \in Nat /\ DOMAIN a.actions = 1 .. Len(a.actions)
      /\ \A i \in DOMAIN a.actions : a.actions[i].deposit \in Nat

VARIABLES
    dao_id, admin_id, guardians, delay_ns, next_request_id, requests,  \* Contract
    block_timestamp, balance,                      \* the chain
    batches, callbacks, votes, refunds,            \* receipts in flight
    proposals,                                     \* of the Sputnik DAOs
    scheduled, executed, cancelled, delivered, stranded                \* history

config  == <<dao_id, admin_id, guardians, delay_ns>>
queue   == <<next_request_id, requests>>
history == <<scheduled, executed, cancelled, delivered, stranded>>
vars    == <<config, queue, block_timestamp, balance, batches, callbacks, votes, refunds,
             proposals, history>>

-----------------------------------------------------------------------------
(* Contract::new *)

new(d) ==
    /\ \A t \in Timelocks : d.delay_ns[t] <= MAX_DELAY_NS
    /\ dao_id = d.dao_id
    /\ admin_id = d.admin_id
    /\ guardians = d.guardians
    /\ delay_ns = d.delay_ns
    /\ next_request_id = [t \in Timelocks |-> 0]
    /\ requests = [t \in Timelocks |-> [id \in RequestIds |-> None]]

Init ==
    /\ \E d \in Deployments : new(d)
    /\ block_timestamp = 0
    /\ balance = InitialBalance
    /\ batches = {} /\ callbacks = {} /\ votes = {} /\ refunds = {}
    /\ proposals = [d \in Daos |-> << >>]
    /\ scheduled = [t \in Timelocks |-> [id \in RequestIds |-> None]]
    /\ executed  = [t \in Timelocks |-> << >>]
    /\ cancelled = [t \in Timelocks |-> << >>]
    /\ delivered = [t \in Timelocks |-> << >>]
    /\ stranded  = [t \in Timelocks |-> 0]

-----------------------------------------------------------------------------
(* Scheduling *)

Pending(t, id) == requests[t][id] # None

assert_dao(t, caller) == caller = dao_id[t]

\* Mutant: any request id may be named.
AnyPredecessor(t, predecessor_id) == predecessor_id \in RequestIds \cup {None}

assert_predecessor(t, predecessor_id) == predecessor_id # None => Pending(t, predecessor_id)

\* The protocol fails a call that leaves the account with less than its storage costs.
StorageCovered(t) ==
    balance'[t] >= StorageCost * Cardinality({id \in RequestIds : requests'[t][id] # None})

insert_request(t, request) ==
    /\ next_request_id[t] < Capacity[t]                     \* bound
    /\ block_timestamp + MAX_DELAY_NS <= MaxTime            \* bound: the clock can outlast the delay
    /\ requests' = [requests EXCEPT ![t][next_request_id[t]] = request]
    /\ next_request_id' = [next_request_id EXCEPT ![t] = @ + 1]

\* The attached deposit moves from the calling DAO to the timelock; the
\* schedule event records the request, its time and the delay then in force.
Escrow(t, caller, attached, request) ==
    /\ balance[caller] >= attached
    /\ insert_request(t, request)
    /\ balance' = [balance EXCEPT ![caller] = @ - attached, ![t] = @ + attached]
    /\ StorageCovered(t)
    /\ scheduled' = [scheduled EXCEPT ![t][next_request_id[t]] =
                        [request |-> request, at |-> block_timestamp, delay |-> delay_ns[t],
                         by |-> caller, deposit |-> attached]]
    /\ UNCHANGED <<config, block_timestamp, batches, callbacks, votes, refunds, proposals,
                   executed, cancelled, delivered, stranded>>

\* Mutant: at least the total.
DepositCovers(attached, total) == attached >= total

DepositMatches(attached, total) == attached = total

\* Mutant: the gas is not looked at.
AnyGas(request) == TRUE

GasFits(request) == total_gas(request) <= MAX_EXECUTION_GAS

\* Mutant: the wrong bound is added.
MaxDelayAfter(t) == SaturatingAdd(block_timestamp, MAX_DELAY_NS, U64_MAX)

execute_after(t) == SaturatingAdd(block_timestamp, delay_ns[t], U64_MAX)

schedule(t, caller, a, predecessor_id, attached) ==
    /\ assert_dao(t, caller)
    /\ a.actions # << >>
    /\ assert_predecessor(t, predecessor_id)
    /\ LET request == [receiver_id |-> a.receiver_id, actions |-> a.actions,
                       funder_id |-> caller, execute_after |-> execute_after(t),
                       approve |-> None, predecessor_id |-> predecessor_id]
       IN  /\ DepositMatches(attached, total_deposit(request))
           /\ GasFits(request)
           /\ Escrow(t, caller, attached, request)

schedule_proposal(t, caller, p, predecessor_id, attached) ==
    /\ assert_dao(t, caller)
    /\ assert_predecessor(t, predecessor_id)
    /\ DepositMatches(attached, p.proposal_bond)
    /\ LET request == [receiver_id |-> p.dao_id, actions |-> <<AddProposalCall(p)>>,
                       funder_id |-> caller, execute_after |-> execute_after(t),
                       approve |-> Approval(p), predecessor_id |-> predecessor_id]
       IN  /\ GasFits(request)
           /\ Escrow(t, caller, attached, request)

-----------------------------------------------------------------------------
(* Execution and cancellation *)

\* Mutant: the delay now configured instead of the one frozen at scheduling.
DelayPassedNow(t, id) == block_timestamp >= scheduled[t][id].at + delay_ns[t]

DelayPassed(t, id) == block_timestamp >= requests[t][id].execute_after

\* Mutant: ordering ignored.
NoPredecessorCheck(t, id) == TRUE

\* Evaluated after the request itself has been removed from the map.
PredecessorLeft(t, id) ==
    LET predecessor_id == requests[t][id].predecessor_id
    IN  predecessor_id \notin {None, id} => ~Pending(t, predecessor_id)

\* Mutant: the request stays in the map.
KeepRequest(t, id) == requests

RemoveRequest(t, id) == [requests EXCEPT ![t][id] = None]

execute(t, id) ==
    /\ Pending(t, id)
    /\ DelayPassed(t, id)
    /\ PredecessorLeft(t, id)
    /\ LET request == requests[t][id]
           sent    == total_deposit(request)
       IN  /\ GasCharged(request) <= MAX_PREPAID_GAS
           /\ balance[t] >= sent
           /\ requests' = RemoveRequest(t, id)
           /\ balance' = [balance EXCEPT ![t] = @ - sent]
           /\ StorageCovered(t)
           /\ executed' = [executed EXCEPT ![t] =
                              Append(@, [request_id |-> id, at |-> block_timestamp])]
           /\ batches' = batches \cup
                 {[from |-> t, request_id |-> id, nonce |-> Len(executed[t]) + 1,
                   request |-> request, deposit |-> sent]}
    /\ UNCHANGED <<config, next_request_id, block_timestamp, callbacks, votes, refunds,
                   proposals, scheduled, cancelled, delivered, stranded>>

Transfer(t, id, to, amount) ==
    refunds' = refunds \cup
        IF amount = 0 THEN {}
        ELSE {[from |-> t, request_id |-> id, to |-> to, amount |-> amount]}

\* Mutant: the refund goes to the DAO now in charge.
CurrentDao(t, request) == dao_id[t]

Funder(t, request) == request.funder_id

cancel(t, caller, id) ==
    /\ caller \in guardians[t]
    /\ Pending(t, id)
    /\ LET amount == total_deposit(requests[t][id])
       IN  /\ balance[t] >= amount
           /\ Transfer(t, id, Funder(t, requests[t][id]), amount)
           /\ balance' = [balance EXCEPT ![t] = @ - amount]
    /\ requests' = RemoveRequest(t, id)
    /\ StorageCovered(t)
    /\ cancelled' = [cancelled EXCEPT ![t] = Append(@, id)]
    /\ UNCHANGED <<config, next_request_id, block_timestamp, batches, callbacks, votes,
                   proposals, scheduled, executed, delivered, stranded>>

-----------------------------------------------------------------------------
(* Configuration (admin.rs).  calls is what one receipt carries: a single  *)
(* setter, or the batch of an executed request, which runs as one atomic   *)
(* sequence: of two calls of one setter the last one stands, and every     *)
(* call but the first sees the admin the calls before it left.             *)

\* Mutant: the contract may call its own setters whoever its admin is.
SelfOrAdmin(t, caller, calls) == caller \in {admin_id[t], t}

assert_admin(t, caller, calls) ==
    /\ caller = admin_id[t]
    /\ \A i \in 1 .. Len(calls) - 1 :
         calls[i].method_name = "set_admin" => calls[i].args.admin_id = caller

\* The arguments of the last call of method, or default when there is none.
LastArgs(calls, method, default) ==
    LET IsLast(i) == /\ calls[i].method_name = method
                   /\ \A j \in i + 1 .. Len(calls) : calls[j].method_name # method
    IN  IF \E i \in DOMAIN calls : IsLast(i)
        THEN calls[CHOOSE i \in DOMAIN calls : IsLast(i)].args
        ELSE default

set_dao(t, calls) == LastArgs(calls, "set_dao", [dao_id |-> dao_id[t]]).dao_id

set_admin(t, calls) == LastArgs(calls, "set_admin", [admin_id |-> admin_id[t]]).admin_id

set_guardians(t, calls) ==
    LastArgs(calls, "set_guardians", [guardians |-> guardians[t]]).guardians

set_delay(t, calls) == LastArgs(calls, "set_delay", [delay_ns |-> delay_ns[t]]).delay_ns

\* Mutant: set_delay without the cap.
Uncapped(call) ==
    /\ call.method_name \in {"set_dao", "set_admin", "set_guardians", "set_delay"}
    /\ call.deposit = 0

\* The setters are not payable and set_delay checks the cap.
Callable(call) ==
    /\ call.method_name \in {"set_dao", "set_admin", "set_guardians", "set_delay"}
    /\ call.deposit = 0
    /\ call.method_name = "set_delay" => call.args.delay_ns <= MAX_DELAY_NS

Configure(t, caller, calls) ==
    /\ assert_admin(t, caller, calls)
    /\ \A i \in DOMAIN calls : Callable(calls[i])
    /\ dao_id'    = [dao_id EXCEPT ![t] = set_dao(t, calls)]
    /\ admin_id'  = [admin_id EXCEPT ![t] = set_admin(t, calls)]
    /\ guardians' = [guardians EXCEPT ![t] = set_guardians(t, calls)]
    /\ delay_ns'  = [delay_ns EXCEPT ![t] = set_delay(t, calls)]

\* A setter called directly by an account that is not a timelock.
CallSetter(t, caller, call) ==
    /\ Configure(t, caller, <<call>>)
    /\ UNCHANGED <<queue, block_timestamp, balance, batches, callbacks, votes, refunds,
                   proposals, history>>

-----------------------------------------------------------------------------
(* Batches at their receivers *)

\* Receipts of one sender to one receiver arrive in the order of sending.
Arrives(b) ==
    /\ b \in batches
    /\ \A other \in batches :
         /\ other.from = b.from
         /\ other.request.receiver_id = b.request.receiver_id
         => other.nonce >= b.nonce

Receive(b, ok) ==
    /\ batches' = batches \ {b}
    /\ delivered' = [delivered EXCEPT ![b.from] =
                        Append(@, [request_id |-> b.request_id, ok |-> ok])]

\* Mutant: the callback unwraps the result, so an error makes it panic.
ResolveOk(b, result) ==
    callbacks' = callbacks \cup
        IF b.request.approve = None \/ result = None THEN {}
        ELSE {[from |-> b.from, request_id |-> b.request_id, dao_id |-> b.request.receiver_id,
               funder_id |-> b.request.funder_id, bond |-> b.deposit,
               kind |-> b.request.approve.kind, result |-> result]}

\* The callback execute has attached to a proposal request, with the result
\* of add_proposal: the id of the proposal, or None for a PromiseError.
Resolve(b, result) ==
    callbacks' = callbacks \cup
        IF b.request.approve = None THEN {}
        ELSE {[from |-> b.from, request_id |-> b.request_id, dao_id |-> b.request.receiver_id,
               funder_id |-> Funder(b.from, b.request), bond |-> b.deposit,
               kind |-> b.request.approve.kind, result |-> result]}

\* A batch of setters at a timelock.
ReceiveConfig(b) ==
    /\ Arrives(b)
    /\ b.request.receiver_id \in Timelocks
    /\ Configure(b.request.receiver_id, b.from, b.request.actions)
    /\ Receive(b, TRUE)
    /\ UNCHANGED <<queue, block_timestamp, balance, callbacks, votes, refunds, proposals,
                   scheduled, executed, cancelled, stranded>>

\* add_proposal at a Sputnik DAO: ids are handed out in order of arrival.
ReceiveProposal(b) ==
    /\ Arrives(b)
    /\ b.request.approve # None
    /\ LET d == b.request.receiver_id
       IN  /\ Len(proposals[d]) < MaxProposals                      \* bound
           /\ proposals' = [proposals EXCEPT ![d] =
                 Append(@, [kind |-> b.request.actions[1].args.kind,
                            origin |-> <<b.from, b.request_id>>, approved |-> FALSE])]
           /\ balance' = [balance EXCEPT ![d] = @ + b.deposit]
           /\ Resolve(b, Len(proposals[d]) + 1)
    /\ Receive(b, TRUE)
    /\ UNCHANGED <<config, queue, block_timestamp, votes, refunds, scheduled, executed,
                   cancelled, stranded>>

\* Any other contract: what its methods do is outside this module.
ReceiveOther(b) ==
    /\ Arrives(b)
    /\ b.request.approve = None
    /\ b.request.receiver_id \notin Timelocks
    /\ balance' = [balance EXCEPT ![b.request.receiver_id] = @ + b.deposit]
    /\ Receive(b, TRUE)
    /\ UNCHANGED <<config, queue, block_timestamp, callbacks, votes, refunds, proposals,
                   scheduled, executed, cancelled, stranded>>

\* Any call of a batch may fail, which undoes the whole batch; the protocol
\* returns its deposits to the timelock before the callback runs.
BatchFails(b) ==
    /\ Arrives(b)
    /\ balance' = [balance EXCEPT ![b.from] = @ + b.deposit]
    /\ stranded' = [stranded EXCEPT ![b.from] =
                       @ + IF b.request.approve = None THEN b.deposit ELSE 0]
    /\ Resolve(b, None)
    /\ Receive(b, FALSE)
    /\ UNCHANGED <<config, queue, block_timestamp, votes, refunds, proposals, scheduled,
                   executed, cancelled>>

-----------------------------------------------------------------------------
(* The callback of a proposal request and what it sends *)

\* Mutant: the newest proposal of the DAO is taken to be the one just added.
NewestProposal(c) == Len(proposals[c.dao_id])

ReturnedProposal(c) == c.result

on_proposal_added(c) ==
    /\ c \in callbacks
    /\ callbacks' = callbacks \ {c}
    /\ \/ /\ c.result # None
          /\ votes' = votes \cup
                {[from |-> c.from, request_id |-> c.request_id, dao_id |-> c.dao_id,
                  id |-> ReturnedProposal(c), kind |-> FromJson(c.kind)]}
          /\ UNCHANGED <<refunds, balance>>
       \/ /\ c.result = None
          /\ balance[c.from] >= c.bond
          /\ Transfer(c.from, c.request_id, c.funder_id, c.bond)
          /\ balance' = [balance EXCEPT ![c.from] = @ - c.bond]
          /\ UNCHANGED votes
    /\ UNCHANGED <<config, queue, block_timestamp, batches, proposals, history>>
    /\ StorageCovered(c.from)

\* act_proposal at the DAO: the kind sent must be the kind of the proposal.
\* The vote may also fail: no permission, or the proposal is already closed.
ReceiveVote(v) ==
    /\ v \in votes
    /\ votes' = votes \ {v}
    /\ \/ /\ proposals[v.dao_id][v.id].kind = v.kind
          /\ proposals' = [proposals EXCEPT ![v.dao_id][v.id].approved = TRUE]
       \/ UNCHANGED proposals
    /\ UNCHANGED <<config, queue, block_timestamp, balance, batches, callbacks, refunds, history>>

\* A transfer reaches its account, or bounces to the timelock (the account is gone).
ReceiveRefund(r) ==
    /\ r \in refunds
    /\ refunds' = refunds \ {r}
    /\ \/ /\ balance' = [balance EXCEPT ![r.to] = @ + r.amount]
          /\ UNCHANGED stranded
       \/ /\ balance' = [balance EXCEPT ![r.from] = @ + r.amount]
          /\ stranded' = [stranded EXCEPT ![r.from] = @ + r.amount]
    /\ UNCHANGED <<config, queue, block_timestamp, batches, callbacks, votes, proposals,
                   scheduled, executed, cancelled, delivered>>

\* Somebody else adds a proposal to a DAO.
OtherProposal(d, kind) ==
    /\ Len(proposals[d]) < MaxProposals                             \* bound
    /\ proposals' = [proposals EXCEPT ![d] =
                        Append(@, [kind |-> kind, origin |-> None, approved |-> FALSE])]
    /\ UNCHANGED <<config, queue, block_timestamp, balance, batches, callbacks, votes, refunds,
                   history>>

Tick ==
    /\ block_timestamp < MaxTime                                    \* bound
    /\ block_timestamp' = block_timestamp + 1
    /\ UNCHANGED <<config, queue, balance, batches, callbacks, votes, refunds, proposals, history>>

Next ==
    \/ \E t \in Timelocks :
         \/ \E caller \in Daos, predecessor_id \in RequestIds \cup {None}, attached \in Deposits :
              \/ \E a \in ScheduleArgs : schedule(t, caller, a, predecessor_id, attached)
              \/ \E p \in ProposalArgs : schedule_proposal(t, caller, p, predecessor_id, attached)
         \/ \E id \in RequestIds : execute(t, id)
         \/ \E caller \in Users, id \in RequestIds : cancel(t, caller, id)
         \/ \E caller \in Daos \cup Users, call \in SetterCalls : CallSetter(t, caller, call)
    \/ \E b \in batches : ReceiveConfig(b) \/ ReceiveProposal(b) \/ ReceiveOther(b) \/ BatchFails(b)
    \/ \E c \in callbacks : on_proposal_added(c)
    \/ \E v \in votes : ReceiveVote(v)
    \/ \E r \in refunds : ReceiveRefund(r)
    \/ \E p \in ProposalArgs : OtherProposal(p.dao_id, p.kind)
    \/ Tick

Spec == Init /\ [][Next]_vars

-----------------------------------------------------------------------------
(* Properties *)

\* Every variable has the type its declaration in lib.rs gives it; the delay
\* in force never exceeds MAX_DELAY_NS, whoever set it (lib.rs new, admin.rs set_delay).
TypeOK ==
    /\ dao_id \in [Timelocks -> Daos]
    /\ admin_id \in [Timelocks -> Accounts]
    /\ guardians \in [Timelocks -> SUBSET Users]
    /\ delay_ns \in [Timelocks -> 0 .. MAX_DELAY_NS]
    /\ next_request_id \in [Timelocks -> 0 .. MaxRequests]
    /\ requests \in [Timelocks -> [RequestIds -> Requests \cup {None}]]
    /\ block_timestamp \in Times
    /\ balance \in [Accounts -> Int]
    /\ batches \subseteq [from : Timelocks, request_id : RequestIds, nonce : Nat,
                          request : Requests, deposit : Nat]
    /\ callbacks \subseteq [from : Timelocks, request_id : RequestIds, dao_id : Daos,
                            funder_id : Accounts, bond : Nat,
                            kind : {ToJson(p.kind) : p \in ProposalArgs},
                            result : Nat \cup {None}]
    /\ votes \subseteq [from : Timelocks, request_id : RequestIds, dao_id : Daos,
                        id : Nat, kind : {p.kind : p \in ProposalArgs}]
    /\ refunds \subseteq [from : Timelocks, request_id : RequestIds, to : Accounts, amount : Nat]
    /\ proposals \in [Daos -> Seq([kind : {p.kind : p \in ProposalArgs},
                                   origin : (Timelocks \X RequestIds) \cup {None},
                                   approved : BOOLEAN])]
    /\ scheduled \in [Timelocks -> [RequestIds -> Scheduled \cup {None}]]
    /\ executed \in [Timelocks -> Seq([request_id : RequestIds, at : Times])]
    /\ cancelled \in [Timelocks -> Seq(RequestIds)]
    /\ delivered \in [Timelocks -> Seq([request_id : RequestIds, ok : BOOLEAN])]
    /\ stranded \in [Timelocks -> Nat]

\* A request is plain or has the form schedule_proposal gives it.
ProposalShape ==
    \A t \in Timelocks, id \in RequestIds :
        /\ scheduled[t][id] # None
        /\ scheduled[t][id].request.approve # None
        => \E p \in ProposalArgs :
             /\ scheduled[t][id].request.receiver_id = p.dao_id
             /\ scheduled[t][id].request.actions = <<AddProposalCall(p)>>
             /\ scheduled[t][id].request.approve = Approval(p)

ExecutedIds(t) == {executed[t][i].request_id : i \in DOMAIN executed[t]}

CancelledIds(t) == {cancelled[t][i] : i \in DOMAIN cancelled[t]}

Failed(t, id) ==
    \E i \in DOMAIN delivered[t] : delivered[t][i] = [request_id |-> id, ok |-> FALSE]

\* The veto window: no request is executed before the delay that was in force
\* when it was scheduled has passed, whatever set_delay or set_dao did since
\* (lib.rs execute: block_timestamp() >= request.execute_after).
VetoWindow ==
    \A t \in Timelocks : \A i \in DOMAIN executed[t] :
        LET s == scheduled[t][executed[t][i].request_id]
        IN  s # None /\ executed[t][i].at >= s.at + s.delay

\* What waits in the queue and what is on its way to a receiver is the request
\* exactly as the DAO scheduled it, due when the delay of that moment ends
\* (lib.rs schedule: execute_after is computed once and never changed).
FrozenAtScheduling ==
    /\ \A t \in Timelocks, id \in RequestIds :
         scheduled[t][id] # None =>
           LET s == scheduled[t][id]
           IN  /\ s.request.execute_after = s.at + s.delay
               /\ Pending(t, id) => requests[t][id] = s.request
    /\ \A b \in batches :
         /\ b.nonce \in DOMAIN executed[b.from]
         /\ executed[b.from][b.nonce].request_id = b.request_id
         /\ scheduled[b.from][b.request_id] # None
         /\ b.request = scheduled[b.from][b.request_id].request

\* An id once handed out is at any time in exactly one of three states:
\* pending, executed once, or cancelled once; nothing runs twice and nothing
\* cancelled runs (lib.rs: remove() before the promise is created).
OneFate ==
    \A t \in Timelocks :
        /\ \A i, j \in DOMAIN executed[t] :
             executed[t][i].request_id = executed[t][j].request_id => i = j
        /\ \A i, j \in DOMAIN cancelled[t] : cancelled[t][i] = cancelled[t][j] => i = j
        /\ ExecutedIds(t) \cap CancelledIds(t) = {}
        /\ \A id \in ExecutedIds(t) \cup CancelledIds(t) : scheduled[t][id] # None
        /\ \A id \in RequestIds :
             /\ Pending(t, id) <=> /\ scheduled[t][id] # None
                                   /\ id \notin ExecutedIds(t) \cup CancelledIds(t)
             /\ scheduled[t][id] # None <=> id < next_request_id[t]

\* A request that names a predecessor runs only when that one has left the
\* queue, and after the predecessor's batch where both go to one receiver
\* (lib.rs execute; dao-timelock/README.md, "Optional ordering between requests").
PredecessorRunsFirst ==
    \A t \in Timelocks : \A j \in DOMAIN delivered[t] :
        LET request == scheduled[t][delivered[t][j].request_id].request
            p       == request.predecessor_id
        IN  p # None =>
              /\ ~Pending(t, p)
              /\ /\ p \in ExecutedIds(t)
                 /\ scheduled[t][p].request.receiver_id = request.receiver_id
                 => \E i \in 1 .. j - 1 : delivered[t][i].request_id = p

\* The approving vote is cast on the very proposal the request has added, with
\* its kind, however many proposals others added in between
\* (lib.rs on_proposal_added).
VoteOnOwnProposal ==
    \A v \in votes :
        /\ v.id \in DOMAIN proposals[v.dao_id]
        /\ proposals[v.dao_id][v.id].origin = <<v.from, v.request_id>>
        /\ proposals[v.dao_id][v.id].kind = v.kind
        /\ ToJson(v.kind) = scheduled[v.from][v.request_id].request.approve.kind

\* A refund returns what was attached at scheduling to the DAO that attached
\* it, even when set_dao has replaced that DAO, and only for a request that was
\* cancelled or whose add_proposal failed (lib.rs cancel, on_proposal_added).
RefundsReachFunder ==
    \A r \in refunds :
        LET s == scheduled[r.from][r.request_id]
        IN  /\ r.to = s.by
            /\ r.amount = s.deposit
            /\ \/ r.request_id \in CancelledIds(r.from)
               \/ s.request.approve # None /\ Failed(r.from, r.request_id)

\* The inductive invariant behind the safety theorems.
IInv == TypeOK /\ ProposalShape /\ FrozenAtScheduling /\ OneFate /\ VetoWindow

PendingIds(t) == {id \in RequestIds : Pending(t, id)}

PendingDeposit(t) ==
    SumFunctionOnSet([id \in PendingIds(t) |-> scheduled[t][id].deposit], PendingIds(t))

\* The callbacks that will send the bond back.
Owing(t) == {c \in callbacks : c.from = t /\ c.result = None}

OwedBonds(t) == SumFunctionOnSet([c \in Owing(t) |-> c.bond], Owing(t))

\* The timelock holds, beyond what it was deployed with, exactly the deposits
\* of pending requests, the bonds its callbacks still have to return and what
\* failed batches and bounced refunds have left on it: every cancel and every
\* refund can be paid (dao-timelock/README.md, "Deposit semantics").
EscrowExact ==
    \A t \in Timelocks :
        balance[t] = InitialBalance[t] + PendingDeposit(t) + OwedBonds(t) + stranded[t]

ConfigOf(t) == <<dao_id[t], admin_id[t], guardians[t], delay_ns[t]>>

\* The configuration of a timelock whose admin is a timelock (itself, or the
\* Policy Timelock) changes only by a batch of that admin which has waited out
\* the admin's own delay uncancelled (admin.rs assert_admin; README.md,
\* "every change must be scheduled through a timelock and wait out its delay").
ConfigChangeWaited ==
    \A t \in Timelocks :
        /\ admin_id[t] \in Timelocks
        /\ ConfigOf(t)' # ConfigOf(t)
        => \E b \in batches \ batches' :
             LET s == scheduled[b.from][b.request_id]
             IN  /\ b.from = admin_id[t]
                 /\ b.request.receiver_id = t
                 /\ b.request_id \notin CancelledIds(b.from)
                 /\ \E i \in DOMAIN executed[b.from] :
                      /\ executed[b.from][i].request_id = b.request_id
                      /\ executed[b.from][i].at >= s.at + s.delay

ConfigChangesWait == [][ConfigChangeWaited]_vars

-----------------------------------------------------------------------------
(* Liveness: blocks are produced, receipts are processed, and somebody calls *)
(* execute on what has become executable (anyone may).                       *)

Fairness ==
    /\ WF_vars(Tick)
    /\ \A t \in Timelocks, id \in RequestIds : WF_vars(execute(t, id))
    /\ WF_vars(\E b \in batches : ReceiveConfig(b) \/ ReceiveProposal(b) \/ ReceiveOther(b)
                                    \/ BatchFails(b))
    /\ WF_vars(\E c \in callbacks : on_proposal_added(c))
    /\ WF_vars(\E v \in votes : ReceiveVote(v))
    /\ WF_vars(\E r \in refunds : ReceiveRefund(r))

FairSpec == Spec /\ Fairness

\* Every request leaves the queue: gas, funds and predecessors accepted at
\* scheduling can never make it unexecutable (lib.rs schedule, execute).
QueueDrains ==
    \A t \in Timelocks, id \in RequestIds : Pending(t, id) ~> ~Pending(t, id)

\* An executed proposal request comes to its end: its callback runs, and either
\* a vote on its proposal is sent or the bond starts its way back (lib.rs
\* on_proposal_added).
ProposalsSettle ==
    \A t \in Timelocks, id \in RequestIds :
        (\E b \in batches : b.from = t /\ b.request_id = id /\ b.request.approve # None)
          ~> \/ \E v \in votes : v.from = t /\ v.request_id = id
             \/ \E r \in refunds : r.from = t /\ r.request_id = id
             \/ Failed(t, id) /\ scheduled[t][id].deposit = 0
============================================================================
