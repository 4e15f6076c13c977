------------------------- MODULE DaoTimelockProofs -------------------------
(***************************************************************************)
(* Safety of the timelock queue for every set of timelocks, DAOs, accounts *)
(* and arguments and every bound.  Three parts: the invariant IInv of      *)
(* DaoTimelock is inductive; executed batches reach their receivers once   *)
(* and in order; the timelocks implement the abstract queue VetoQueue.     *)
(***************************************************************************)
EXTENDS QueueRefinement, SumLemmas, SequenceTheorems

-----------------------------------------------------------------------------
(* The queue: IInv gives TypeOK, VetoWindow, OneFate and FrozenAtScheduling, *)
(* and from it that configuration changes wait.                              *)

\* The elements of a sequence over S are in S.
LEMMA SeqElement ==
    ASSUME NEW S, NEW s \in Seq(S)
    PROVE  \A i \in DOMAIN s : s[i] \in S
  BY ElementOfSeq, LenProperties

\* Append keeps what is there and adds one element after it.
LEMMA SeqAppend ==
    ASSUME NEW S, NEW s \in Seq(S), NEW e \in S
    PROVE  /\ Append(s, e) \in Seq(S)
           /\ Len(s) + 1 \notin DOMAIN s
           /\ DOMAIN Append(s, e) = DOMAIN s \cup {Len(s) + 1}
           /\ Append(s, e)[Len(s) + 1] = e
           /\ \A i \in DOMAIN s : Append(s, e)[i] = s[i]
  BY AppendProperties, LenProperties

\* The contract starts in a state of the invariant (lib.rs new).
LEMMA InitIInv == Init => IInv
  <1> SUFFICES ASSUME Init PROVE IInv
    OBVIOUS
  <1>1. PICK d \in Deployments : new(d)
    BY DEF Init
  <1>2. TypeOK
    BY <1>1, DeployAssumption, ClockAssumption, BoundAssumption
    DEF Init, new, TypeOK, Times, RequestIds
  <1>3. ProposalShape /\ FrozenAtScheduling /\ VetoWindow
    BY <1>1 DEF Init, new, ProposalShape, FrozenAtScheduling, VetoWindow, Pending
  <1>4. OneFate
    BY <1>1 DEF Init, new, OneFate, Pending, ExecutedIds, CancelledIds, RequestIds
  <1> QED
    BY <1>2, <1>3, <1>4 DEF IInv

\* The parts of the invariant that speak about the queue.
QueueInv == ProposalShape /\ FrozenAtScheduling /\ OneFate /\ VetoWindow

\* A step that leaves the queue and its history alone keeps them, also when it
\* takes batches out of flight.
LEMMA QueueUntouched ==
    ASSUME QueueInv, batches' \subseteq batches,
           UNCHANGED <<requests, next_request_id, scheduled, executed, cancelled>>
    PROVE  QueueInv'
  <1>1. ProposalShape'
    BY DEF QueueInv, ProposalShape
  <1>2. FrozenAtScheduling'
    BY DEF QueueInv, FrozenAtScheduling, Pending
  <1>3. OneFate'
    BY DEF QueueInv, OneFate, Pending, ExecutedIds, CancelledIds
  <1>4. VetoWindow'
    BY DEF QueueInv, VetoWindow
  <1> QED
    BY <1>1, <1>2, <1>3, <1>4 DEF QueueInv

\* Executed and cancelled ids are ids.
LEMMA HistoryIds ==
    ASSUME TypeOK, NEW t \in Timelocks
    PROVE  ExecutedIds(t) \subseteq RequestIds /\ CancelledIds(t) \subseteq RequestIds
  <1>1. /\ executed[t] \in Seq([request_id : RequestIds, at : Times])
        /\ cancelled[t] \in Seq(RequestIds)
    BY DEF TypeOK
  <1>2. \A i \in DOMAIN executed[t] : executed[t][i] \in [request_id : RequestIds, at : Times]
    BY <1>1, SeqElement
  <1>3. \A i \in DOMAIN cancelled[t] : cancelled[t][i] \in RequestIds
    BY <1>1, SeqElement
  <1> QED
    BY <1>2, <1>3 DEF ExecutedIds, CancelledIds

\* Inserting a request with its escrow (lib.rs insert_request, the end of
\* schedule and schedule_proposal) keeps the invariant.
LEMMA EscrowIInv ==
    ASSUME IInv,
           NEW t \in Timelocks, NEW caller \in Daos, NEW attached \in Deposits,
           NEW request \in Requests, Escrow(t, caller, attached, request),
           request.execute_after = execute_after(t),
           request.approve # None => \E p \in ProposalArgs :
             /\ request.receiver_id = p.dao_id
             /\ request.actions = <<AddProposalCall(p)>>
             /\ request.approve = Approval(p)
    PROVE  IInv'
  <1> DEFINE id == next_request_id[t]
             entry == [request |-> request, at |-> block_timestamp, delay |-> delay_ns[t],
                       by |-> caller, deposit |-> attached]
  <1>1. id \in RequestIds /\ id + 1 \in 0 .. MaxRequests
    <2>1. next_request_id[t] \in 0 .. MaxRequests
      BY DEF IInv, TypeOK
    <2>2. next_request_id[t] < Capacity[t] /\ Capacity[t] \in 0 .. MaxRequests
      BY BoundAssumption DEF Escrow, insert_request
    <2> QED
      BY <2>1, <2>2, BoundAssumption DEF RequestIds
  <1>2. entry \in Scheduled
    BY DeployAssumption DEF IInv, TypeOK, Scheduled
  <1>3. entry # None /\ request # None
    BY <1>2, NoneAssumption
  <1>4. request.execute_after = entry.at + entry.delay
    <2>1. block_timestamp \in Times /\ delay_ns[t] \in 0 .. MAX_DELAY_NS
      BY DEF IInv, TypeOK
    <2> QED
      BY <2>1, ClockAssumption, WidthAssumption DEF execute_after, SaturatingAdd, Times
  <1>5. /\ requests' = [requests EXCEPT ![t][id] = request]
        /\ next_request_id' = [next_request_id EXCEPT ![t] = id + 1]
        /\ scheduled' = [scheduled EXCEPT ![t][id] = entry]
        /\ balance' = [balance EXCEPT ![caller] = @ - attached, ![t] = @ + attached]
        /\ UNCHANGED <<dao_id, admin_id, guardians, delay_ns, block_timestamp, batches,
                       callbacks, votes, refunds, proposals, executed, cancelled, delivered, stranded>>
    BY DEF Escrow, insert_request, config
  <1>6. TypeOK'
    <2>1. TypeOK /\ attached \in Int /\ t \in Accounts /\ caller \in Accounts
      BY DeployAssumption DEF IInv, Accounts
    <2>2. balance' \in [Accounts -> Int]
      BY <2>1, <1>5 DEF TypeOK
    <2>3. requests' \in [Timelocks -> [RequestIds -> Requests \cup {None}]]
      BY <2>1, <1>1, <1>5 DEF TypeOK
    <2>4. scheduled' \in [Timelocks -> [RequestIds -> Scheduled \cup {None}]]
      BY <2>1, <1>1, <1>2, <1>5 DEF TypeOK
    <2>5. next_request_id' \in [Timelocks -> 0 .. MaxRequests]
      BY <2>1, <1>1, <1>5 DEF TypeOK
    <2> QED
      BY <2>1, <2>2, <2>3, <2>4, <2>5, <1>5 DEF TypeOK
  <1>7. /\ ~Pending(t, id) /\ scheduled[t][id] = None
        /\ id \notin ExecutedIds(t) \cup CancelledIds(t)
    <2>1. /\ Pending(t, id) => scheduled[t][id] # None
          /\ scheduled[t][id] # None <=> id < id
          /\ \A x \in ExecutedIds(t) \cup CancelledIds(t) : scheduled[t][x] # None
      BY <1>1 DEF IInv, OneFate
    <2>2. ~(id < id)
      BY <1>1 DEF RequestIds
    <2> QED
      BY <2>1, <2>2
  <1>8. /\ requests'[t][id] = request /\ scheduled'[t][id] = entry
        /\ \A s \in Timelocks, x \in RequestIds :
             s # t \/ x # id => /\ requests'[s][x] = requests[s][x]
                               /\ scheduled'[s][x] = scheduled[s][x]
    BY <1>1, <1>5 DEF IInv, TypeOK
  <1>9. \A s \in Timelocks : ExecutedIds(s)' = ExecutedIds(s) /\ CancelledIds(s)' = CancelledIds(s)
    BY <1>5 DEF ExecutedIds, CancelledIds
  <1>10. ProposalShape'
    BY <1>8 DEF IInv, ProposalShape
  <1>11. FrozenAtScheduling'
    <2>1. ASSUME NEW s \in Timelocks, NEW x \in RequestIds, scheduled'[s][x] # None
          PROVE  LET e == scheduled'[s][x]
                 IN  /\ e.request.execute_after = e.at + e.delay
                     /\ requests'[s][x] # None => requests'[s][x] = e.request
      BY <2>1, <1>4, <1>8 DEF IInv, FrozenAtScheduling, Pending
    <2>2. ASSUME NEW b \in batches'
          PROVE  /\ b.nonce \in DOMAIN executed'[b.from]
                 /\ executed'[b.from][b.nonce].request_id = b.request_id
                 /\ scheduled'[b.from][b.request_id] # None
                 /\ b.request = scheduled'[b.from][b.request_id].request
      <3>1. b \in batches /\ b.from \in Timelocks /\ b.request_id \in RequestIds
        BY <1>5 DEF IInv, TypeOK
      <3>2. scheduled[b.from][b.request_id] # None
        BY <3>1 DEF IInv, FrozenAtScheduling
      <3>3. scheduled'[b.from][b.request_id] = scheduled[b.from][b.request_id]
        BY <3>1, <3>2, <1>7, <1>8
      <3> QED
        BY <3>1, <3>2, <3>3, <1>5 DEF IInv, FrozenAtScheduling
    <2> QED
      BY <2>1, <2>2 DEF FrozenAtScheduling, Pending
  <1>12. OneFate'
    <2> SUFFICES ASSUME NEW s \in Timelocks
                 PROVE  /\ \A x \in ExecutedIds(s) \cup CancelledIds(s) : scheduled'[s][x] # None
                        /\ \A x \in RequestIds :
                             /\ requests'[s][x] # None
                                  <=> /\ scheduled'[s][x] # None
                                      /\ x \notin ExecutedIds(s) \cup CancelledIds(s)
                             /\ scheduled'[s][x] # None <=> x < next_request_id'[s]
      BY <1>5, <1>9 DEF IInv, OneFate, Pending
    <2>1. /\ \A x \in ExecutedIds(s) \cup CancelledIds(s) : scheduled[s][x] # None /\ x \in RequestIds
          /\ \A x \in RequestIds :
               /\ requests[s][x] # None
                    <=> /\ scheduled[s][x] # None
                        /\ x \notin ExecutedIds(s) \cup CancelledIds(s)
               /\ scheduled[s][x] # None <=> x < next_request_id[s]
      BY HistoryIds DEF IInv, OneFate, Pending
    <2>2. CASE s # t
      <3>1. next_request_id'[s] = next_request_id[s]
        BY <2>2, <1>5 DEF IInv, TypeOK
      <3> QED
        BY <2>1, <2>2, <3>1, <1>8
    <2>3. CASE s = t
      <3>1. next_request_id'[t] = id + 1
        BY <1>5 DEF IInv, TypeOK
      <3>2. \A x \in RequestIds : x < id + 1 <=> x < id \/ x = id
        BY <1>1 DEF RequestIds
      <3> QED
        BY <2>1, <2>3, <3>1, <3>2, <1>1, <1>3, <1>7, <1>8
    <2> QED
      BY <2>2, <2>3
  <1>13. VetoWindow'
    BY <1>5, <1>7, <1>8, <1>9 DEF IInv, VetoWindow, TypeOK, ExecutedIds
  <1> QED
    BY <1>6, <1>10, <1>11, <1>12, <1>13 DEF IInv

\* The due time fits the u64 field.
LEMMA DueTime ==
    ASSUME TypeOK, NEW t \in Timelocks
    PROVE  execute_after(t) \in 0 .. U64_MAX
  <1>1. block_timestamp \in Times /\ delay_ns[t] \in 0 .. MAX_DELAY_NS
    BY DEF TypeOK
  <1> QED
    BY <1>1, ClockAssumption, WidthAssumption DEF execute_after, SaturatingAdd, Times

\* schedule keeps the invariant.
LEMMA ScheduleIInv ==
    ASSUME IInv, NEW t \in Timelocks, NEW caller \in Daos, NEW a \in ScheduleArgs,
           NEW predecessor_id \in RequestIds \cup {None}, NEW attached \in Deposits,
           schedule(t, caller, a, predecessor_id, attached)
    PROVE  IInv'
  <1>1. PICK request : request = [receiver_id |-> a.receiver_id, actions |-> a.actions,
                                  funder_id |-> caller, execute_after |-> execute_after(t),
                                  approve |-> None, predecessor_id |-> predecessor_id]
    OBVIOUS
  <1>2. execute_after(t) \in 0 .. U64_MAX
    BY DueTime DEF IInv
  <1>3. request \in Requests
    BY <1>1, <1>2, ArgsAssumption DEF Requests, ActionLists, Accounts
  <1>4. Escrow(t, caller, attached, request)
    BY <1>1 DEF schedule
  <1> QED
    BY <1>1, <1>3, <1>4, EscrowIInv

\* schedule_proposal keeps the invariant.
LEMMA ScheduleProposalIInv ==
    ASSUME IInv, NEW t \in Timelocks, NEW caller \in Daos, NEW p \in ProposalArgs,
           NEW predecessor_id \in RequestIds \cup {None}, NEW attached \in Deposits,
           schedule_proposal(t, caller, p, predecessor_id, attached)
    PROVE  IInv'
  <1>1. PICK request : request = [receiver_id |-> p.dao_id, actions |-> <<AddProposalCall(p)>>,
                                  funder_id |-> caller, execute_after |-> execute_after(t),
                                  approve |-> Approval(p), predecessor_id |-> predecessor_id]
    OBVIOUS
  <1>2. execute_after(t) \in 0 .. U64_MAX
    BY DueTime DEF IInv
  <1>3. request \in Requests
    BY <1>1, <1>2, ArgsAssumption DEF Requests, ActionLists, Accounts
  <1>4. Escrow(t, caller, attached, request)
    BY <1>1 DEF schedule_proposal
  <1> QED
    BY <1>1, <1>3, <1>4, EscrowIInv

\* The fold of sum_deposits is the exact sum, unless that saturates.
LEMMA DepositsAddUp ==
    ASSUME NEW n \in Nat, NEW actions, DOMAIN actions = 1 .. n,
           \A i \in 1 .. n : actions[i].deposit \in Nat,
           NEW f, f = [i \in 1 .. n |-> actions[i].deposit]
    PROVE  /\ SumFunctionOnSet(f, 1 .. n) \in Nat
           /\ sum_deposits(actions) = IF SumFunctionOnSet(f, 1 .. n) > U128_MAX THEN U128_MAX
                                      ELSE SumFunctionOnSet(f, 1 .. n)
  <1>1. sum_deposits(actions) = SaturatingSum(f, U128_MAX)
    BY Zenon DEF sum_deposits
  <1>2. SaturatingSum(f, U128_MAX) = SaturatingFold(f, U128_MAX)[DOMAIN f]
    BY Zenon DEF SaturatingSum, FoldLeft, MapThenFoldSet, SaturatingFold, SaturatingAdd
  <1>3. DOMAIN f = 1 .. n /\ f \in [1 .. n -> Nat]
    OBVIOUS
  <1> QED
    BY <1>1, <1>2, <1>3, WidthAssumption, SaturatingFoldIsSum

\* The actions of a request are a vector of calls with deposits.
LEMMA ActionsHaveDeposits ==
    ASSUME NEW actions \in ActionLists
    PROVE  \E n \in Nat : DOMAIN actions = 1 .. n /\ \A i \in 1 .. n : actions[i].deposit \in Nat
  <1>1. ASSUME NEW a \in ScheduleArgs, actions = a.actions
        PROVE  \E n \in Nat : DOMAIN actions = 1 .. n /\ \A i \in 1 .. n : actions[i].deposit \in Nat
    BY <1>1, ActionsAssumption
  <1>2. ASSUME NEW p \in ProposalArgs, actions = <<AddProposalCall(p)>>
        PROVE  \E n \in Nat : DOMAIN actions = 1 .. n /\ \A i \in 1 .. n : actions[i].deposit \in Nat
    <2>1. AddProposalCall(p).deposit \in Nat
      BY ArgsAssumption, WidthAssumption DEF AddProposalCall
    <2>2. DOMAIN actions = 1 .. 1 /\ \A i \in 1 .. 1 : actions[i].deposit \in Nat
      BY <1>2, <2>1
    <2> QED
      BY <2>2
  <1> QED
    BY <1>1, <1>2 DEF ActionLists

\* A request's deposit is a NearToken.
LEMMA DepositType ==
    ASSUME NEW request \in Requests
    PROVE  total_deposit(request) \in Nat
  <1>1. PICK actions \in ActionLists : actions = request.actions
    BY DEF Requests
  <1>2. PICK n \in Nat : DOMAIN actions = 1 .. n /\ \A i \in 1 .. n : actions[i].deposit \in Nat
    BY ActionsHaveDeposits
  <1>3. PICK f : f = [i \in 1 .. n |-> actions[i].deposit]
    OBVIOUS
  <1>4. sum_deposits(actions) \in Nat
    <2>1. /\ SumFunctionOnSet(f, 1 .. n) \in Nat
          /\ sum_deposits(actions) = IF SumFunctionOnSet(f, 1 .. n) > U128_MAX THEN U128_MAX
                                     ELSE SumFunctionOnSet(f, 1 .. n)
      BY <1>2, <1>3, DepositsAddUp, Zenon
    <2>2. PICK total : total = SumFunctionOnSet(f, 1 .. n)
      OBVIOUS
    <2> QED
      BY <2>1, <2>2, WidthAssumption
  <1> QED
    BY <1>1, <1>4 DEF total_deposit

\* execute keeps the invariant: the id moves from the queue to the executed
\* ones, at a time the frozen delay allows.
LEMMA ExecuteIInv ==
    ASSUME IInv, NEW t \in Timelocks, NEW id \in RequestIds, execute(t, id)
    PROVE  IInv'
  <1> DEFINE request == requests[t][id]
             entry   == [request_id |-> id, at |-> block_timestamp]
             batch   == [from |-> t, request_id |-> id, nonce |-> Len(executed[t]) + 1,
                         request |-> request, deposit |-> total_deposit(request)]
  <1>1. /\ Pending(t, id) /\ DelayPassed(t, id)
        /\ requests' = [requests EXCEPT ![t][id] = None]
        /\ balance' = [balance EXCEPT ![t] = @ - total_deposit(request)]
        /\ executed' = [executed EXCEPT ![t] = Append(executed[t], entry)]
        /\ batches' = batches \cup {batch}
        /\ UNCHANGED <<dao_id, admin_id, guardians, delay_ns, next_request_id, block_timestamp,
                       callbacks, votes, refunds, proposals, scheduled, cancelled, delivered, stranded>>
    BY DEF execute, RemoveRequest, config
  <1>2. /\ request \in Requests /\ total_deposit(request) \in Nat
        /\ block_timestamp \in Times
        /\ executed[t] \in Seq([request_id : RequestIds, at : Times])
        /\ entry \in [request_id : RequestIds, at : Times]
    BY <1>1, DepositType DEF IInv, TypeOK, Pending
  <1>3. Len(executed[t]) \in Nat
    BY <1>2, LenProperties
  <1>4. /\ executed'[t] = Append(executed[t], entry)
        /\ \A s \in Timelocks : s # t => executed'[s] = executed[s]
    BY <1>1 DEF IInv, TypeOK
  <1>5. /\ executed'[t] \in Seq([request_id : RequestIds, at : Times])
        /\ Len(executed[t]) + 1 \notin DOMAIN executed[t]
        /\ DOMAIN executed'[t] = DOMAIN executed[t] \cup {Len(executed[t]) + 1}
        /\ executed'[t][Len(executed[t]) + 1] = entry
        /\ \A i \in DOMAIN executed[t] : executed'[t][i] = executed[t][i]
    BY <1>2, <1>4, SeqAppend
  <1>6. /\ ExecutedIds(t)' = ExecutedIds(t) \cup {id}
        /\ \A s \in Timelocks : s # t => ExecutedIds(s)' = ExecutedIds(s)
        /\ \A s \in Timelocks : CancelledIds(s)' = CancelledIds(s)
    BY <1>1, <1>4, <1>5 DEF ExecutedIds, CancelledIds
  <1>7. /\ requests'[t][id] = None
        /\ \A s \in Timelocks, x \in RequestIds : s # t \/ x # id => requests'[s][x] = requests[s][x]
    BY <1>1 DEF IInv, TypeOK
  <1>8. /\ scheduled[t][id] # None /\ request = scheduled[t][id].request
        /\ request.execute_after = scheduled[t][id].at + scheduled[t][id].delay
        /\ id \notin ExecutedIds(t) \cup CancelledIds(t)
    BY <1>1 DEF IInv, OneFate, FrozenAtScheduling
  <1>9. TypeOK'
    <2>1. balance' \in [Accounts -> Int]
      BY <1>1, <1>2 DEF IInv, TypeOK, Accounts
    <2>2. requests' \in [Timelocks -> [RequestIds -> Requests \cup {None}]]
      BY <1>1 DEF IInv, TypeOK
    <2>3. executed' \in [Timelocks -> Seq([request_id : RequestIds, at : Times])]
      BY <1>1, <1>4, <1>5 DEF IInv, TypeOK
    <2>4. batch \in [from : Timelocks, request_id : RequestIds, nonce : Nat,
                     request : Requests, deposit : Nat]
      BY <1>2, <1>3
    <2> QED
      BY <1>1, <2>1, <2>2, <2>3, <2>4 DEF IInv, TypeOK
  <1>10. ProposalShape'
    BY <1>1 DEF IInv, ProposalShape
  <1>11. FrozenAtScheduling'
    <2>1. ASSUME NEW b \in batches'
          PROVE  /\ b.nonce \in DOMAIN executed'[b.from]
                 /\ executed'[b.from][b.nonce].request_id = b.request_id
                 /\ scheduled[b.from][b.request_id] # None
                 /\ b.request = scheduled[b.from][b.request_id].request
      <3>1. CASE b = batch
        BY <3>1, <1>5, <1>8
      <3>2. CASE b \in batches
        <4>1. /\ b.from \in Timelocks
              /\ b.nonce \in DOMAIN executed[b.from]
              /\ executed[b.from][b.nonce].request_id = b.request_id
              /\ scheduled[b.from][b.request_id] # None
              /\ b.request = scheduled[b.from][b.request_id].request
          BY <3>2 DEF IInv, TypeOK, FrozenAtScheduling
        <4> QED
          BY <4>1, <1>4, <1>5
      <3> QED
        BY <3>1, <3>2, <1>1
    <2> QED
      BY <2>1, <1>1, <1>7 DEF IInv, FrozenAtScheduling, Pending
  <1>12. OneFate'
    <2>1. OneFate /\ UNCHANGED <<scheduled, cancelled, next_request_id>>
      BY <1>1 DEF IInv
    <2>2. ASSUME NEW s \in Timelocks, NEW i \in DOMAIN executed'[s], NEW j \in DOMAIN executed'[s],
                 executed'[s][i].request_id = executed'[s][j].request_id
          PROVE  i = j
      <3>1. \A k \in DOMAIN executed[t] : executed[t][k].request_id # id
        BY <1>8 DEF ExecutedIds
      <3>2. entry.request_id = id
        OBVIOUS
      <3> HIDE DEF entry
      <3>3. \A k \in DOMAIN executed'[t] : \/ k = Len(executed[t]) + 1 /\ executed'[t][k].request_id = id
                                           \/ k \in DOMAIN executed[t] /\ executed'[t][k] = executed[t][k]
        BY <3>2, <1>5
      <3>4. \A k, l \in DOMAIN executed[s] : executed[s][k].request_id = executed[s][l].request_id => k = l
        BY <2>1 DEF OneFate
      <3>5. CASE s # t
        <4>1. executed'[s] = executed[s]
          BY <3>5, <1>4
        <4> QED
          BY <4>1, <2>2, <3>4
      <3>6. CASE s = t
        BY <3>1, <3>3, <3>4, <3>6, <2>2
      <3> QED
        BY <3>5, <3>6
    <2>3. ASSUME NEW s \in Timelocks
          PROVE  /\ ExecutedIds(s)' \cap CancelledIds(s)' = {}
                 /\ \A x \in ExecutedIds(s)' \cup CancelledIds(s)' : scheduled[s][x] # None
                 /\ \A x \in RequestIds :
                      requests'[s][x] # None <=> /\ scheduled[s][x] # None
                                                 /\ x \notin ExecutedIds(s)' \cup CancelledIds(s)'
      BY <2>1, <1>6, <1>7, <1>8 DEF OneFate, Pending
    <2> QED
      BY <2>1, <2>2, <2>3 DEF OneFate, Pending
  <1>13. VetoWindow'
    <2>1. ASSUME NEW s \in Timelocks, NEW i \in DOMAIN executed'[s]
          PROVE  LET x == scheduled[s][executed'[s][i].request_id]
                 IN  x # None /\ executed'[s][i].at >= x.at + x.delay
      <3>1. \A k \in DOMAIN executed[s] : LET x == scheduled[s][executed[s][k].request_id]
                                          IN  x # None /\ executed[s][k].at >= x.at + x.delay
        BY DEF IInv, VetoWindow
      <3>2. CASE s = t /\ i = Len(executed[t]) + 1
        BY <3>2, <1>1, <1>5, <1>8 DEF DelayPassed
      <3>3. CASE i \in DOMAIN executed[s] /\ executed'[s][i] = executed[s][i]
        BY <3>1, <3>3
      <3> QED
        BY <3>2, <3>3, <1>4, <1>5
    <2>2. scheduled' = scheduled
      BY <1>1
    <2> QED
      BY <2>1, <2>2, Zenon DEF VetoWindow
  <1> QED
    BY <1>9, <1>10, <1>11, <1>12, <1>13 DEF IInv

\* cancel keeps the invariant: the id moves from the queue to the cancelled ones.
LEMMA CancelIInv ==
    ASSUME IInv, NEW t \in Timelocks, NEW caller \in Users, NEW id \in RequestIds,
           cancel(t, caller, id)
    PROVE  IInv'
  <1> DEFINE request == requests[t][id]
             amount  == total_deposit(request)
  <1>1. /\ Pending(t, id)
        /\ requests' = [requests EXCEPT ![t][id] = None]
        /\ balance' = [balance EXCEPT ![t] = @ - amount]
        /\ Transfer(t, id, request.funder_id, amount)
        /\ cancelled' = [cancelled EXCEPT ![t] = Append(cancelled[t], id)]
        /\ UNCHANGED <<dao_id, admin_id, guardians, delay_ns, next_request_id, block_timestamp,
                       batches, callbacks, votes, proposals, scheduled, executed, delivered, stranded>>
    BY DEF cancel, RemoveRequest, Funder, config
  <1>2. /\ request \in Requests /\ amount \in Nat /\ request.funder_id \in Accounts
        /\ cancelled[t] \in Seq(RequestIds)
    <2>1. request \in Requests /\ cancelled[t] \in Seq(RequestIds)
      BY <1>1 DEF IInv, TypeOK, Pending
    <2> QED
      BY <2>1, DepositType DEF Requests
  <1>3. /\ cancelled'[t] = Append(cancelled[t], id)
        /\ \A s \in Timelocks : s # t => cancelled'[s] = cancelled[s]
    BY <1>1 DEF IInv, TypeOK
  <1>4. /\ cancelled'[t] \in Seq(RequestIds)
        /\ Len(cancelled[t]) + 1 \notin DOMAIN cancelled[t]
        /\ DOMAIN cancelled'[t] = DOMAIN cancelled[t] \cup {Len(cancelled[t]) + 1}
        /\ cancelled'[t][Len(cancelled[t]) + 1] = id
        /\ \A i \in DOMAIN cancelled[t] : cancelled'[t][i] = cancelled[t][i]
    BY <1>2, <1>3, SeqAppend
  <1>5. /\ CancelledIds(t)' = CancelledIds(t) \cup {id}
        /\ \A s \in Timelocks : s # t => CancelledIds(s)' = CancelledIds(s)
        /\ \A s \in Timelocks : ExecutedIds(s)' = ExecutedIds(s)
    BY <1>1, <1>3, <1>4 DEF ExecutedIds, CancelledIds
  <1>6. /\ requests'[t][id] = None
        /\ \A s \in Timelocks, x \in RequestIds : s # t \/ x # id => requests'[s][x] = requests[s][x]
    BY <1>1 DEF IInv, TypeOK
  <1>7. scheduled[t][id] # None /\ id \notin ExecutedIds(t) \cup CancelledIds(t)
    BY <1>1 DEF IInv, OneFate
  <1>8. TypeOK'
    <2>1. balance' \in [Accounts -> Int]
      BY <1>1, <1>2 DEF IInv, TypeOK, Accounts
    <2>2. requests' \in [Timelocks -> [RequestIds -> Requests \cup {None}]]
      BY <1>1 DEF IInv, TypeOK
    <2>3. cancelled' \in [Timelocks -> Seq(RequestIds)]
      BY <1>1, <1>3, <1>4 DEF IInv, TypeOK
    <2>4. refunds' \subseteq [from : Timelocks, request_id : RequestIds, to : Accounts, amount : Nat]
      BY <1>1, <1>2 DEF IInv, TypeOK, Transfer
    <2> QED
      BY <1>1, <2>1, <2>2, <2>3, <2>4 DEF IInv, TypeOK
  <1>9. ProposalShape' /\ VetoWindow'
    BY <1>1 DEF IInv, ProposalShape, VetoWindow
  <1>10. FrozenAtScheduling'
    BY <1>1, <1>6 DEF IInv, FrozenAtScheduling, Pending
  <1>11. OneFate'
    BY <1>1, <1>3, <1>4, <1>5, <1>6, <1>7 DEF IInv, OneFate, Pending, CancelledIds
  <1> QED
    BY <1>8, <1>9, <1>10, <1>11 DEF IInv

\* What LastArgs returns is the arguments of some call of the method, or the default.
LEMMA LastArgsOrigin ==
    ASSUME NEW calls, NEW method, NEW default
    PROVE  \/ LastArgs(calls, method, default) = default
           \/ \E i \in DOMAIN calls : /\ calls[i].method_name = method
                                      /\ LastArgs(calls, method, default) = calls[i].args
  BY DEF LastArgs

\* The setters leave a configuration of the right type, with a capped delay.
LEMMA ConfigureType ==
    ASSUME TypeOK, NEW t \in Timelocks, NEW caller, NEW calls,
           \A i \in DOMAIN calls : WellTyped(calls[i]),
           Configure(t, caller, calls)
    PROVE  /\ dao_id' \in [Timelocks -> Daos]
           /\ admin_id' \in [Timelocks -> Accounts]
           /\ guardians' \in [Timelocks -> SUBSET Users]
           /\ delay_ns' \in [Timelocks -> 0 .. MAX_DELAY_NS]
  <1>1. set_dao(t, calls) \in Daos
    <2> DEFINE default == [dao_id |-> dao_id[t]]
               args    == LastArgs(calls, "set_dao", default)
    <2>1. default.dao_id \in Daos
      BY DEF TypeOK
    <2>2. \A i \in DOMAIN calls : calls[i].method_name = "set_dao" => calls[i].args.dao_id \in Daos
      BY DEF WellTyped
    <2>3. \/ args = default
          \/ \E i \in DOMAIN calls : calls[i].method_name = "set_dao" /\ args = calls[i].args
      BY LastArgsOrigin
    <2>4. args.dao_id \in Daos
      <3> HIDE DEF default, args
      <3> QED  BY <2>1, <2>2, <2>3
    <2> QED
      BY <2>4 DEF set_dao
  <1>2. set_admin(t, calls) \in Accounts
    <2> DEFINE default == [admin_id |-> admin_id[t]]
               args    == LastArgs(calls, "set_admin", default)
    <2>1. default.admin_id \in Accounts
      BY DEF TypeOK
    <2>2. \A i \in DOMAIN calls : calls[i].method_name = "set_admin" => calls[i].args.admin_id \in Accounts
      BY DEF WellTyped
    <2>3. \/ args = default
          \/ \E i \in DOMAIN calls : calls[i].method_name = "set_admin" /\ args = calls[i].args
      BY LastArgsOrigin
    <2>4. args.admin_id \in Accounts
      <3> HIDE DEF default, args
      <3> QED  BY <2>1, <2>2, <2>3
    <2> QED
      BY <2>4 DEF set_admin
  <1>3. set_guardians(t, calls) \in SUBSET Users
    <2> DEFINE default == [guardians |-> guardians[t]]
               args    == LastArgs(calls, "set_guardians", default)
    <2>1. default.guardians \in SUBSET Users
      BY DEF TypeOK
    <2>2. \A i \in DOMAIN calls : calls[i].method_name = "set_guardians" => calls[i].args.guardians \in SUBSET Users
      BY DEF WellTyped
    <2>3. \/ args = default
          \/ \E i \in DOMAIN calls : calls[i].method_name = "set_guardians" /\ args = calls[i].args
      BY LastArgsOrigin
    <2>4. args.guardians \in SUBSET Users
      <3> HIDE DEF default, args
      <3> QED  BY <2>1, <2>2, <2>3
    <2> QED
      BY <2>4 DEF set_guardians
  <1>4. set_delay(t, calls) \in 0 .. MAX_DELAY_NS
    <2> DEFINE default == [delay_ns |-> delay_ns[t]]
               args    == LastArgs(calls, "set_delay", default)
    <2>1. default.delay_ns \in 0 .. MAX_DELAY_NS
      BY DEF TypeOK
    <2>2. \A i \in DOMAIN calls : calls[i].method_name = "set_delay" => calls[i].args.delay_ns \in 0 .. MAX_DELAY_NS
      BY ClockAssumption DEF WellTyped, Configure, Callable
    <2>3. \/ args = default
          \/ \E i \in DOMAIN calls : calls[i].method_name = "set_delay" /\ args = calls[i].args
      BY LastArgsOrigin
    <2>4. args.delay_ns \in 0 .. MAX_DELAY_NS
      <3> HIDE DEF default, args
      <3> QED  BY <2>1, <2>2, <2>3
    <2> QED
      BY <2>4 DEF set_delay
  <1> QED
    BY <1>1, <1>2, <1>3, <1>4 DEF Configure, TypeOK

\* Every call a request can carry has arguments of the right type.
LEMMA ActionsWellTyped ==
    ASSUME NEW calls \in ActionLists
    PROVE  \A i \in DOMAIN calls : WellTyped(calls[i])
  <1>1. CASE \E a \in ScheduleArgs : calls = a.actions
    BY <1>1, ArgsAssumption
  <1>2. CASE \E p \in ProposalArgs : calls = <<AddProposalCall(p)>>
    BY <1>2 DEF AddProposalCall, WellTyped
  <1> QED
    BY <1>1, <1>2 DEF ActionLists

\* A setter called directly keeps the invariant (admin.rs).
LEMMA CallSetterIInv ==
    ASSUME IInv, NEW t \in Timelocks, NEW caller, NEW call \in SetterCalls,
           CallSetter(t, caller, call)
    PROVE  IInv'
  <1>1. \A i \in DOMAIN <<call>> : WellTyped(<<call>>[i])
    BY ArgsAssumption
  <1>2. /\ dao_id' \in [Timelocks -> Daos]
        /\ admin_id' \in [Timelocks -> Accounts]
        /\ guardians' \in [Timelocks -> SUBSET Users]
        /\ delay_ns' \in [Timelocks -> 0 .. MAX_DELAY_NS]
    BY <1>1, ConfigureType DEF IInv, CallSetter
  <1>3. TypeOK'
    BY <1>2 DEF IInv, TypeOK, CallSetter, queue, history
  <1> QED
    BY <1>3, QueueUntouched DEF IInv, QueueInv, CallSetter, queue, history

\* What is known of a batch in flight.
LEMMA BatchFacts ==
    ASSUME IInv, NEW b \in batches
    PROVE  /\ b.from \in Timelocks /\ b.request_id \in RequestIds
           /\ b.request \in Requests /\ b.deposit \in Nat
           /\ b.request.receiver_id \in Accounts /\ b.request.funder_id \in Accounts
           /\ b.request.actions \in ActionLists
           /\ b.request.approve # None => \E p \in ProposalArgs :
                /\ b.request.receiver_id = p.dao_id
                /\ b.request.actions = <<AddProposalCall(p)>>
                /\ b.request.approve = Approval(p)
  <1>1. /\ b.from \in Timelocks /\ b.request_id \in RequestIds
        /\ b.request \in Requests /\ b.deposit \in Nat
    BY DEF IInv, TypeOK
  <1>2. /\ scheduled[b.from][b.request_id] # None
        /\ b.request = scheduled[b.from][b.request_id].request
    BY DEF IInv, FrozenAtScheduling
  <1>3. /\ b.request.receiver_id \in Accounts /\ b.request.funder_id \in Accounts
        /\ b.request.actions \in ActionLists
    BY <1>1 DEF Requests
  <1> QED
    BY <1>1, <1>2, <1>3 DEF IInv, ProposalShape

\* The record of a delivery has its type.
LEMMA ReceiveType ==
    ASSUME TypeOK, NEW b \in batches, NEW ok \in BOOLEAN, Receive(b, ok)
    PROVE  /\ batches' \subseteq batches
           /\ batches' \subseteq [from : Timelocks, request_id : RequestIds, nonce : Nat,
                                  request : Requests, deposit : Nat]
           /\ delivered' \in [Timelocks -> Seq([request_id : RequestIds, ok : BOOLEAN])]
  <1> DEFINE D == [request_id : RequestIds, ok : BOOLEAN]
             entry == [request_id |-> b.request_id, ok |-> ok]
  <1>1. b.from \in Timelocks /\ entry \in D /\ delivered \in [Timelocks -> Seq(D)]
    BY DEF TypeOK
  <1>2. Append(delivered[b.from], entry) \in Seq(D)
    <2>1. delivered[b.from] \in Seq(D)
      BY <1>1
    <2> HIDE DEF D, entry
    <2> QED
      BY <1>1, <2>1, SeqAppend
  <1>3. delivered' \in [Timelocks -> Seq(D)]
    <2>1. delivered' = [delivered EXCEPT ![b.from] = Append(delivered[b.from], entry)]
      BY DEF Receive
    <2> HIDE DEF D, entry
    <2> QED
      BY <1>1, <1>2, <2>1
  <1> QED
    BY <1>3 DEF TypeOK, Receive

\* A batch of setters at its timelock keeps the invariant.
LEMMA ReceiveConfigIInv ==
    ASSUME IInv, NEW b \in batches, ReceiveConfig(b)
    PROVE  IInv'
  <1>1. \A i \in DOMAIN b.request.actions : WellTyped(b.request.actions[i])
    BY BatchFacts, ActionsWellTyped
  <1>2. /\ dao_id' \in [Timelocks -> Daos]
        /\ admin_id' \in [Timelocks -> Accounts]
        /\ guardians' \in [Timelocks -> SUBSET Users]
        /\ delay_ns' \in [Timelocks -> 0 .. MAX_DELAY_NS]
    <2>1. PICK t \in Timelocks : t = b.request.receiver_id
      BY DEF ReceiveConfig
    <2>2. Configure(t, b.from, b.request.actions)
      BY <2>1 DEF ReceiveConfig
    <2> QED
      BY <2>2, <1>1, ConfigureType DEF IInv
  <1>3. /\ batches' \subseteq batches
        /\ batches' \subseteq [from : Timelocks, request_id : RequestIds, nonce : Nat,
                               request : Requests, deposit : Nat]
        /\ delivered' \in [Timelocks -> Seq([request_id : RequestIds, ok : BOOLEAN])]
    BY ReceiveType DEF IInv, ReceiveConfig
  <1>4. TypeOK'
    BY <1>2, <1>3 DEF IInv, TypeOK, ReceiveConfig, queue
  <1> QED
    BY <1>3, <1>4, QueueUntouched DEF IInv, QueueInv, ReceiveConfig, queue

\* NEAR that is credited to or taken from an account.
LEMMA BalanceType ==
    ASSUME TypeOK, NEW a \in Accounts, NEW amount \in Int,
           balance' = [balance EXCEPT ![a] = balance[a] + amount]
    PROVE  balance' \in [Accounts -> Int]
  BY DEF TypeOK

\* The callback of a proposal request has its type.
LEMMA ResolveType ==
    ASSUME IInv, NEW b \in batches, NEW result \in Nat \cup {None}, Resolve(b, result)
    PROVE  callbacks' \subseteq [from : Timelocks, request_id : RequestIds, dao_id : Daos,
                                 funder_id : Accounts, bond : Nat,
                                 kind : {ToJson(p.kind) : p \in ProposalArgs},
                                 result : Nat \cup {None}]
  <1>1. CASE b.request.approve = None
    BY <1>1 DEF Resolve, IInv, TypeOK
  <1>2. CASE b.request.approve # None
    <2>1. PICK p \in ProposalArgs : /\ b.request.receiver_id = p.dao_id
                                    /\ b.request.approve = Approval(p)
      BY <1>2, BatchFacts
    <2>2. b.request.receiver_id \in Daos /\ b.request.approve.kind = ToJson(p.kind)
      BY <2>1, ArgsAssumption DEF Approval
    <2>3. QED
      <3> DEFINE C == [from : Timelocks, request_id : RequestIds, dao_id : Daos,
                       funder_id : Accounts, bond : Nat,
                       kind : {ToJson(q.kind) : q \in ProposalArgs}, result : Nat \cup {None}]
                 c == [from |-> b.from, request_id |-> b.request_id,
                       dao_id |-> b.request.receiver_id, funder_id |-> b.request.funder_id,
                       bond |-> b.deposit, kind |-> b.request.approve.kind, result |-> result]
      <3>1. c \in C
        BY <2>2, BatchFacts
      <3>2. callbacks' = callbacks \cup {c}
        BY <1>2 DEF Resolve, Funder
      <3>3. callbacks \subseteq C
        BY DEF IInv, TypeOK
      <3> HIDE DEF C, c
      <3>4. callbacks' \subseteq C
        BY <3>1, <3>2, <3>3
      <3> QED
        BY <3>4 DEF C
  <1> QED
    BY <1>1, <1>2

\* A proposal that is appended keeps the DAO's list of its type.
LEMMA ProposalType ==
    ASSUME TypeOK, NEW d \in Daos, NEW p \in ProposalArgs,
           NEW origin \in (Timelocks \X RequestIds) \cup {None},
           proposals' = [proposals EXCEPT ![d] =
               Append(proposals[d], [kind |-> p.kind, origin |-> origin, approved |-> FALSE])]
    PROVE  proposals' \in [Daos -> Seq([kind : {q.kind : q \in ProposalArgs},
                                       origin : (Timelocks \X RequestIds) \cup {None},
                                       approved : BOOLEAN])]
  <1> DEFINE P == [kind : {q.kind : q \in ProposalArgs},
                   origin : (Timelocks \X RequestIds) \cup {None}, approved : BOOLEAN]
             new_proposal == [kind |-> p.kind, origin |-> origin, approved |-> FALSE]
  <1>1. proposals \in [Daos -> Seq(P)] /\ new_proposal \in P
    BY DEF TypeOK
  <1>2. proposals' = [proposals EXCEPT ![d] = Append(proposals[d], new_proposal)]
    OBVIOUS
  <1>3. proposals' \in [Daos -> Seq(P)]
    <2> HIDE DEF P, new_proposal
    <2>1. proposals[d] \in Seq(P)
      BY <1>1
    <2>2. Append(proposals[d], new_proposal) \in Seq(P)
      BY <1>1, <2>1, SeqAppend
    <2> QED
      BY <1>1, <1>2, <2>2
  <1> QED
    BY <1>3

\* A proposal request at its DAO keeps the invariant.
LEMMA ReceiveProposalIInv ==
    ASSUME IInv, NEW b \in batches, ReceiveProposal(b)
    PROVE  IInv'
  <1>1. PICK p \in ProposalArgs : /\ b.request.receiver_id = p.dao_id
                                  /\ b.request.actions = <<AddProposalCall(p)>>
    BY BatchFacts DEF ReceiveProposal
  <1>2. /\ p.dao_id \in Daos /\ p.dao_id \in Accounts
        /\ b.request.actions[1].args.kind = p.kind
        /\ <<b.from, b.request_id>> \in Timelocks \X RequestIds
    BY <1>1, BatchFacts, ArgsAssumption DEF Accounts, AddProposalCall
  <1>3. proposals' = [proposals EXCEPT ![p.dao_id] =
            Append(proposals[p.dao_id], [kind |-> p.kind, origin |-> <<b.from, b.request_id>>,
                                         approved |-> FALSE])]
    BY <1>1, <1>2 DEF ReceiveProposal
  <1>4. proposals' \in [Daos -> Seq([kind : {q.kind : q \in ProposalArgs},
                                    origin : (Timelocks \X RequestIds) \cup {None},
                                    approved : BOOLEAN])]
    BY <1>2, <1>3, ProposalType DEF IInv
  <1>5. balance' \in [Accounts -> Int]
    <2>1. balance' = [balance EXCEPT ![p.dao_id] = balance[p.dao_id] + b.deposit]
      BY <1>1 DEF ReceiveProposal
    <2>2. b.deposit \in Int
      BY BatchFacts
    <2> QED
      BY <1>2, <2>1, <2>2, BalanceType DEF IInv
  <1>6. callbacks' \subseteq [from : Timelocks, request_id : RequestIds, dao_id : Daos,
                              funder_id : Accounts, bond : Nat,
                              kind : {ToJson(q.kind) : q \in ProposalArgs},
                              result : Nat \cup {None}]
    <2>1. proposals[p.dao_id] \in Seq([kind : {q.kind : q \in ProposalArgs},
                                       origin : (Timelocks \X RequestIds) \cup {None},
                                       approved : BOOLEAN])
      BY <1>2 DEF IInv, TypeOK
    <2>2. Len(proposals[p.dao_id]) \in Nat
      BY <2>1, LenProperties
    <2>3. PICK result \in Nat \cup {None} : result = Len(proposals[p.dao_id]) + 1
      BY <2>2
    <2>4. Resolve(b, result)
      BY <1>1, <2>3 DEF ReceiveProposal
    <2> QED
      BY <2>4, ResolveType
  <1>7. /\ batches' \subseteq batches
        /\ batches' \subseteq [from : Timelocks, request_id : RequestIds, nonce : Nat,
                               request : Requests, deposit : Nat]
        /\ delivered' \in [Timelocks -> Seq([request_id : RequestIds, ok : BOOLEAN])]
    BY ReceiveType DEF IInv, ReceiveProposal
  <1>8. TypeOK'
    BY <1>4, <1>5, <1>6, <1>7 DEF IInv, TypeOK, ReceiveProposal, config, queue
  <1> QED
    BY <1>7, <1>8, QueueUntouched DEF IInv, QueueInv, ReceiveProposal, queue

\* A plain batch at any other contract keeps the invariant.
LEMMA ReceiveOtherIInv ==
    ASSUME IInv, NEW b \in batches, ReceiveOther(b)
    PROVE  IInv'
  <1>1. balance' \in [Accounts -> Int]
    <2>1. balance' = [balance EXCEPT ![b.request.receiver_id] =
                         balance[b.request.receiver_id] + b.deposit]
      BY DEF ReceiveOther
    <2>2. b.request.receiver_id \in Accounts /\ b.deposit \in Int
      BY BatchFacts
    <2> QED
      BY <2>1, <2>2, BalanceType DEF IInv
  <1>2. /\ batches' \subseteq batches
        /\ batches' \subseteq [from : Timelocks, request_id : RequestIds, nonce : Nat,
                               request : Requests, deposit : Nat]
        /\ delivered' \in [Timelocks -> Seq([request_id : RequestIds, ok : BOOLEAN])]
    BY ReceiveType DEF IInv, ReceiveOther
  <1>3. TypeOK'
    BY <1>1, <1>2 DEF IInv, TypeOK, ReceiveOther, config, queue
  <1> QED
    BY <1>2, <1>3, QueueUntouched DEF IInv, QueueInv, ReceiveOther, queue

\* A batch that fails keeps the invariant.
LEMMA BatchFailsIInv ==
    ASSUME IInv, NEW b \in batches, BatchFails(b)
    PROVE  IInv'
  <1>1. balance' \in [Accounts -> Int] /\ stranded' \in [Timelocks -> Nat]
    <2>1. b.from \in Timelocks /\ b.from \in Accounts /\ b.deposit \in Nat /\ b.deposit \in Int
      BY BatchFacts DEF Accounts
    <2>2. balance' = [balance EXCEPT ![b.from] = balance[b.from] + b.deposit]
      BY DEF BatchFails
    <2>3. PICK left \in Nat : stranded' = [stranded EXCEPT ![b.from] = stranded[b.from] + left]
      BY <2>1 DEF BatchFails
    <2>4. stranded' \in [Timelocks -> Nat]
      BY <2>1, <2>3 DEF IInv, TypeOK
    <2> QED
      BY <2>1, <2>2, <2>4, BalanceType DEF IInv
  <1>2. callbacks' \subseteq [from : Timelocks, request_id : RequestIds, dao_id : Daos,
                              funder_id : Accounts, bond : Nat,
                              kind : {ToJson(p.kind) : p \in ProposalArgs},
                              result : Nat \cup {None}]
    BY ResolveType DEF BatchFails
  <1>3. /\ batches' \subseteq batches
        /\ batches' \subseteq [from : Timelocks, request_id : RequestIds, nonce : Nat,
                               request : Requests, deposit : Nat]
        /\ delivered' \in [Timelocks -> Seq([request_id : RequestIds, ok : BOOLEAN])]
    BY ReceiveType DEF IInv, BatchFails
  <1>4. TypeOK'
    BY <1>1, <1>2, <1>3 DEF IInv, TypeOK, BatchFails, config, queue
  <1> QED
    BY <1>3, <1>4, QueueUntouched DEF IInv, QueueInv, BatchFails, queue

\* The callback keeps the invariant (lib.rs on_proposal_added).
LEMMA OnProposalAddedIInv ==
    ASSUME IInv, NEW c \in callbacks, on_proposal_added(c)
    PROVE  IInv'
  <1>1. /\ c.from \in Timelocks /\ c.from \in Accounts /\ c.request_id \in RequestIds
        /\ c.dao_id \in Daos /\ c.funder_id \in Accounts /\ c.bond \in Nat
        /\ c.result \in Nat \cup {None}
        /\ \E p \in ProposalArgs : c.kind = ToJson(p.kind)
    BY DEF IInv, TypeOK, Accounts
  <1>2. FromJson(c.kind) \in {p.kind : p \in ProposalArgs}
    BY <1>1 DEF ToJson, FromJson
  <1>3. CASE c.result # None
    <2> DEFINE V == [from : Timelocks, request_id : RequestIds, dao_id : Daos,
                     id : Nat, kind : {p.kind : p \in ProposalArgs}]
               v == [from |-> c.from, request_id |-> c.request_id, dao_id |-> c.dao_id,
                     id |-> c.result, kind |-> FromJson(c.kind)]
    <2>1. v \in V
      BY <1>1, <1>2, <1>3
    <2>2. votes \subseteq V
      BY DEF IInv, TypeOK
    <2>3. votes' = votes \cup {v} /\ UNCHANGED <<refunds, balance>>
      BY <1>3 DEF on_proposal_added, ReturnedProposal
    <2>4. votes' \subseteq V
      <3> HIDE DEF V, v
      <3> QED  BY <2>1, <2>2, <2>3
    <2>5. TypeOK'
      BY <2>3, <2>4 DEF IInv, TypeOK, on_proposal_added, config, queue, history
    <2> QED
      BY <2>5, QueueUntouched DEF IInv, QueueInv, on_proposal_added, queue, history
  <1>4. CASE c.result = None
    <2>1. balance' = [balance EXCEPT ![c.from] = balance[c.from] + (0 - c.bond)]
      <3>1. balance[c.from] \in Int
        BY <1>1 DEF IInv, TypeOK
      <3>2. balance' = [balance EXCEPT ![c.from] = balance[c.from] - c.bond]
        BY <1>4 DEF on_proposal_added
      <3>3. balance[c.from] - c.bond = balance[c.from] + (0 - c.bond)
        BY <1>1, <3>1
      <3> QED
        BY <3>2, <3>3
    <2>2. balance' \in [Accounts -> Int]
      <3>1. 0 - c.bond \in Int
        BY <1>1
      <3> QED
        BY <1>1, <2>1, <3>1, BalanceType DEF IInv
    <2>3. refunds' \subseteq [from : Timelocks, request_id : RequestIds, to : Accounts, amount : Nat]
      <3> DEFINE R == [from : Timelocks, request_id : RequestIds, to : Accounts, amount : Nat]
                 r == [from |-> c.from, request_id |-> c.request_id, to |-> c.funder_id,
                       amount |-> c.bond]
      <3>1. r \in R /\ refunds \subseteq R
        BY <1>1 DEF IInv, TypeOK
      <3>2. refunds' = refunds \/ refunds' = refunds \cup {r}
        BY <1>4 DEF on_proposal_added, Transfer
      <3>3. refunds' \subseteq R
        <4> HIDE DEF R, r
        <4> QED  BY <3>1, <3>2
      <3> QED
        BY <3>3
    <2>4. TypeOK'
      BY <1>4, <2>2, <2>3 DEF IInv, TypeOK, on_proposal_added, config, queue, history
    <2> QED
      BY <2>4, QueueUntouched DEF IInv, QueueInv, on_proposal_added, queue, history
  <1> QED
    BY <1>3, <1>4

\* A vote that reaches its DAO keeps the invariant.
LEMMA ReceiveVoteIInv ==
    ASSUME IInv, NEW v \in votes, ReceiveVote(v)
    PROVE  IInv'
  <1> DEFINE P == [kind : {q.kind : q \in ProposalArgs},
                   origin : (Timelocks \X RequestIds) \cup {None}, approved : BOOLEAN]
  <1>1. proposals \in [Daos -> Seq(P)] /\ v.dao_id \in Daos
    BY DEF IInv, TypeOK
  <1>2. proposals' \in [Daos -> Seq(P)]
    <2>1. CASE UNCHANGED proposals
      BY <1>1, <2>1
    <2>2. CASE proposals' = [proposals EXCEPT ![v.dao_id][v.id].approved = TRUE]
      <3> DEFINE list == proposals[v.dao_id]
      <3>1. list \in Seq(P)
        BY <1>1
      <3>2. [list EXCEPT ![v.id].approved = TRUE] \in Seq(P)
        <4>1. CASE v.id \in 1 .. Len(list)
          <5>1. list[v.id] \in P
            BY <3>1, <4>1, ElementOfSeq
          <5>2. PICK e \in P : e = [list[v.id] EXCEPT !.approved = TRUE]
            BY <5>1
          <5>3. [list EXCEPT ![v.id] = e] \in Seq(P)
            <6> HIDE DEF P, list
            <6> QED  BY <3>1, <4>1, ExceptSeq
          <5> QED
            BY <5>2, <5>3
        <4>2. CASE v.id \notin 1 .. Len(list)
          <5>1. list \in [1 .. Len(list) -> P]
            BY <3>1, LenProperties
          <5>2. [list EXCEPT ![v.id].approved = TRUE] = list
            BY <4>2, <5>1
          <5> QED
            BY <3>1, <5>2
        <4> QED
          BY <4>1, <4>2
      <3>3. proposals' = [proposals EXCEPT ![v.dao_id] = [list EXCEPT ![v.id].approved = TRUE]]
        BY <2>2
      <3> QED
        BY <1>1, <3>2, <3>3
    <2> QED
      BY <2>1, <2>2 DEF ReceiveVote
  <1>3. TypeOK'
    BY <1>2 DEF IInv, TypeOK, ReceiveVote, config, queue, history
  <1> QED
    BY <1>3, QueueUntouched DEF IInv, QueueInv, ReceiveVote, queue, history

\* A refund that arrives or bounces keeps the invariant.
LEMMA ReceiveRefundIInv ==
    ASSUME IInv, NEW r \in refunds, ReceiveRefund(r)
    PROVE  IInv'
  <1>1. /\ r.from \in Timelocks /\ r.from \in Accounts /\ r.to \in Accounts
        /\ r.amount \in Nat /\ r.amount \in Int
    <2>1. r.from \in Timelocks /\ r.to \in Accounts /\ r.amount \in Nat
      BY DEF IInv, TypeOK
    <2> QED
      BY <2>1 DEF Accounts
  <1>2. balance' \in [Accounts -> Int]
    <2>1. \/ balance' = [balance EXCEPT ![r.to] = balance[r.to] + r.amount]
          \/ balance' = [balance EXCEPT ![r.from] = balance[r.from] + r.amount]
      BY DEF ReceiveRefund
    <2> QED
      BY <1>1, <2>1, BalanceType DEF IInv
  <1>3. stranded' \in [Timelocks -> Nat]
    <2>1. \/ stranded' = stranded
          \/ stranded' = [stranded EXCEPT ![r.from] = stranded[r.from] + r.amount]
      BY DEF ReceiveRefund
    <2>2. stranded \in [Timelocks -> Nat]
      BY DEF IInv, TypeOK
    <2>3. stranded[r.from] + r.amount \in Nat
      BY <1>1, <2>2
    <2> QED
      BY <1>1, <2>1, <2>2, <2>3
  <1>4. TypeOK'
    BY <1>2, <1>3 DEF IInv, TypeOK, ReceiveRefund, config, queue
  <1> QED
    BY <1>4, QueueUntouched DEF IInv, QueueInv, ReceiveRefund, queue

\* Other people's proposals keep the invariant.
LEMMA OtherProposalIInv ==
    ASSUME IInv, NEW p \in ProposalArgs, OtherProposal(p.dao_id, p.kind)
    PROVE  IInv'
  <1>1. p.dao_id \in Daos
    BY ArgsAssumption
  <1>2. proposals' = [proposals EXCEPT ![p.dao_id] =
            Append(proposals[p.dao_id], [kind |-> p.kind, origin |-> None, approved |-> FALSE])]
    BY DEF OtherProposal
  <1>3. proposals' \in [Daos -> Seq([kind : {q.kind : q \in ProposalArgs},
                                    origin : (Timelocks \X RequestIds) \cup {None},
                                    approved : BOOLEAN])]
    BY <1>1, <1>2, ProposalType DEF IInv
  <1>4. TypeOK'
    BY <1>3 DEF IInv, TypeOK, OtherProposal, config, queue, history
  <1> QED
    BY <1>4, QueueUntouched DEF IInv, QueueInv, OtherProposal, queue, history

\* The clock keeps the invariant.
LEMMA TickIInv ==
    ASSUME IInv, Tick
    PROVE  IInv'
  <1>1. block_timestamp' \in Times
    BY ClockAssumption DEF IInv, TypeOK, Tick, Times
  <1>2. TypeOK'
    BY <1>1 DEF IInv, TypeOK, Tick, config, queue, history
  <1> QED
    BY <1>2, QueueUntouched DEF IInv, QueueInv, Tick, queue, history

\* Every step of the timelocks and of what runs around them keeps the invariant.
LEMMA NextIInv ==
    ASSUME IInv, [Next]_vars
    PROVE  IInv'
  <1>1. ASSUME NEW t \in Timelocks, NEW caller \in Daos,
               NEW predecessor_id \in RequestIds \cup {None}, NEW attached \in Deposits,
               \/ \E a \in ScheduleArgs : schedule(t, caller, a, predecessor_id, attached)
               \/ \E p \in ProposalArgs : schedule_proposal(t, caller, p, predecessor_id, attached)
        PROVE  IInv'
    BY <1>1, ScheduleIInv, ScheduleProposalIInv
  <1>2. ASSUME NEW t \in Timelocks, NEW id \in RequestIds, execute(t, id)
        PROVE  IInv'
    BY <1>2, ExecuteIInv
  <1>3. ASSUME NEW t \in Timelocks, NEW caller \in Users, NEW id \in RequestIds,
               cancel(t, caller, id)
        PROVE  IInv'
    BY <1>3, CancelIInv
  <1>4. ASSUME NEW t \in Timelocks, NEW caller \in Daos \cup Users, NEW call \in SetterCalls,
               CallSetter(t, caller, call)
        PROVE  IInv'
    BY <1>4, CallSetterIInv
  <1>5. ASSUME NEW b \in batches,
               ReceiveConfig(b) \/ ReceiveProposal(b) \/ ReceiveOther(b) \/ BatchFails(b)
        PROVE  IInv'
    BY <1>5, ReceiveConfigIInv, ReceiveProposalIInv, ReceiveOtherIInv, BatchFailsIInv
  <1>6. ASSUME NEW c \in callbacks, on_proposal_added(c) PROVE IInv'
    BY <1>6, OnProposalAddedIInv
  <1>7. ASSUME NEW v \in votes, ReceiveVote(v) PROVE IInv'
    BY <1>7, ReceiveVoteIInv
  <1>8. ASSUME NEW r \in refunds, ReceiveRefund(r) PROVE IInv'
    BY <1>8, ReceiveRefundIInv
  <1>9. ASSUME NEW p \in ProposalArgs, OtherProposal(p.dao_id, p.kind) PROVE IInv'
    BY <1>9, OtherProposalIInv
  <1>10. CASE Tick
    BY <1>10, TickIInv
  <1>11. CASE UNCHANGED vars
    <2>1. TypeOK'
      BY <1>11 DEF IInv, TypeOK, vars, config, queue, history
    <2> QED
      BY <1>11, <2>1, QueueUntouched DEF IInv, QueueInv, vars, queue, history
  <1> QED
    BY <1>1, <1>2, <1>3, <1>4, <1>5, <1>6, <1>7, <1>8, <1>9, <1>10, <1>11 DEF Next

\* IInv is an inductive invariant of the timelocks: all that follows rests on it.
THEOREM Invariance == Spec => []IInv
  <1>1. IInv /\ [Next]_vars => IInv'
    BY NextIInv
  <1> QED
    BY <1>1, InitIInv, PTL DEF Spec

\* The types hold in every reachable state, and no timelock ever has a delay
\* above MAX_DELAY_NS.
THEOREM TypeCorrect == Spec => []TypeOK
  BY Invariance, PTL DEF IInv

\* The veto window is respected by every execution of every timelock.
THEOREM VetoWindowHolds == Spec => []VetoWindow
  BY Invariance, PTL DEF IInv

\* No request is executed twice, cancelled twice, or executed and cancelled.
THEOREM OneFateHolds == Spec => []OneFate
  BY Invariance, PTL DEF IInv

\* Nothing changes a request, or when it is due, between its scheduling and
\* the arrival of its batch.
THEOREM FrozenAtSchedulingHolds == Spec => []FrozenAtScheduling
  BY Invariance, PTL DEF IInv

\* A batch in flight has waited: its execution is recorded, after the delay,
\* and it was not cancelled.
LEMMA BatchWaited ==
    ASSUME IInv, NEW b \in batches
    PROVE  /\ b.request_id \notin CancelledIds(b.from)
           /\ \E i \in DOMAIN executed[b.from] :
                /\ executed[b.from][i].request_id = b.request_id
                /\ executed[b.from][i].at >= scheduled[b.from][b.request_id].at
                                               + scheduled[b.from][b.request_id].delay
  <1>1. /\ b.from \in Timelocks
        /\ b.nonce \in DOMAIN executed[b.from]
        /\ executed[b.from][b.nonce].request_id = b.request_id
    BY DEF IInv, TypeOK, FrozenAtScheduling
  <1>2. b.request_id \in ExecutedIds(b.from)
    BY <1>1 DEF ExecutedIds
  <1>3. b.request_id \notin CancelledIds(b.from)
    BY <1>1, <1>2 DEF IInv, OneFate
  <1> QED
    BY <1>1, <1>3 DEF IInv, VetoWindow

\* A step that leaves the configuration alone satisfies ConfigChangeWaited.
LEMMA ConfigUntouched ==
    ASSUME UNCHANGED config
    PROVE  ConfigChangeWaited
  BY DEF ConfigChangeWaited, ConfigOf, config

\* Configure changes one timelock only, and only for its admin.
LEMMA ConfigureScope ==
    ASSUME IInv, NEW t \in Timelocks, NEW caller, NEW calls, Configure(t, caller, calls)
    PROVE  /\ caller = admin_id[t]
           /\ \A s \in Timelocks : s # t => UNCHANGED ConfigOf(s)
  <1>1. \A s \in Timelocks : s # t => /\ dao_id'[s] = dao_id[s] /\ admin_id'[s] = admin_id[s]
                                      /\ guardians'[s] = guardians[s] /\ delay_ns'[s] = delay_ns[s]
    BY DEF Configure, IInv, TypeOK
  <1> QED
    BY <1>1 DEF Configure, assert_admin, ConfigOf

\* Every configuration change of a timelock that a timelock administers has
\* waited out the admin's delay, so guardians of the admin could veto it.
THEOREM ConfigChangesWaitHolds == Spec => ConfigChangesWait
  <1>1. IInv /\ [Next]_vars => [ConfigChangeWaited]_vars
    <2> SUFFICES ASSUME IInv, Next PROVE ConfigChangeWaited
      OBVIOUS
    <2>1. ASSUME NEW t \in Timelocks, NEW caller \in Daos \cup Users, NEW call \in SetterCalls,
                 CallSetter(t, caller, call)
          PROVE  ConfigChangeWaited
      <3>1. /\ caller = admin_id[t]
            /\ \A s \in Timelocks : s # t => UNCHANGED ConfigOf(s)
        BY <2>1, ConfigureScope DEF CallSetter
      <3>2. admin_id[t] \notin Timelocks
        BY <3>1, AccountAssumption
      <3> QED
        BY <3>1, <3>2 DEF ConfigChangeWaited
    <2>2. ASSUME NEW b \in batches, ReceiveConfig(b)
          PROVE  ConfigChangeWaited
      <3>1. PICK t \in Timelocks : t = b.request.receiver_id
        BY <2>2 DEF ReceiveConfig
      <3>2. Configure(t, b.from, b.request.actions)
        BY <2>2, <3>1 DEF ReceiveConfig
      <3>3. /\ b.from = admin_id[t]
            /\ \A s \in Timelocks : s # t => UNCHANGED ConfigOf(s)
        BY <3>2, ConfigureScope
      <3>4. b \in batches \ batches'
        BY <2>2 DEF ReceiveConfig, Receive
      <3> QED
        BY <3>1, <3>3, <3>4, BatchWaited DEF ConfigChangeWaited
    <2>3. CASE UNCHANGED config
      BY <2>3, ConfigUntouched
    <2>4. ASSUME NEW t \in Timelocks,
                 \/ \E caller \in Daos, predecessor_id \in RequestIds \cup {None}, attached \in Deposits :
                      \/ \E a \in ScheduleArgs : schedule(t, caller, a, predecessor_id, attached)
                      \/ \E p \in ProposalArgs : schedule_proposal(t, caller, p, predecessor_id, attached)
                 \/ \E id \in RequestIds : execute(t, id)
                 \/ \E caller \in Users, id \in RequestIds : cancel(t, caller, id)
          PROVE  UNCHANGED config
      <3>1. ASSUME NEW caller, NEW a, NEW predecessor_id, NEW attached,
                   \/ schedule(t, caller, a, predecessor_id, attached)
                   \/ schedule_proposal(t, caller, a, predecessor_id, attached)
            PROVE  UNCHANGED config
        BY <3>1, Zenon DEF schedule, schedule_proposal, Escrow
      <3>2. ASSUME NEW id, execute(t, id) PROVE UNCHANGED config
        BY <3>2 DEF execute
      <3>3. ASSUME NEW caller, NEW id, cancel(t, caller, id) PROVE UNCHANGED config
        BY <3>3 DEF cancel
      <3> QED
        BY <2>4, <3>1, <3>2, <3>3
    <2>5. ASSUME \/ \E b \in batches : ReceiveProposal(b) \/ ReceiveOther(b) \/ BatchFails(b)
                 \/ \E c \in callbacks : on_proposal_added(c)
                 \/ \E v \in votes : ReceiveVote(v)
                 \/ \E r \in refunds : ReceiveRefund(r)
                 \/ \E p \in ProposalArgs : OtherProposal(p.dao_id, p.kind)
                 \/ Tick
          PROVE  UNCHANGED config
      BY <2>5, Zenon DEF ReceiveProposal, ReceiveOther, BatchFails, on_proposal_added, ReceiveVote,
                  ReceiveRefund, OtherProposal, Tick
    <2> QED
      BY <2>1, <2>2, <2>3, <2>4, <2>5 DEF Next
  <1> QED
    BY <1>1, Invariance, PTL DEF Spec, ConfigChangesWait

-----------------------------------------------------------------------------
(* The way to the receivers: each batch is delivered once, and a request   *)
(* that names a predecessor is executed and delivered after it.  The order *)
(* of delivery rests on the order of execution, which the nonces of the    *)
(* batches keep, and that on ids being handed out in order.                *)

DeliveredIds(t) == {delivered[t][i].request_id : i \in DOMAIN delivered[t]}

\* What was executed is either on its way or has been delivered, once.
DeliveredOnce ==
    \A t \in Timelocks :
        /\ \A i, j \in DOMAIN delivered[t] :
             delivered[t][i].request_id = delivered[t][j].request_id => i = j
        /\ DeliveredIds(t) \subseteq ExecutedIds(t)
        /\ \A id \in ExecutedIds(t) \ DeliveredIds(t) :
             \E b \in batches : b.from = t /\ b.request_id = id
        /\ \A b \in batches : b.from = t =>
             /\ b.request_id \notin DeliveredIds(t)
             /\ \A c \in batches : c.from = t /\ c.request_id = b.request_id => c = b

\* Request p was executed, if at all, before the j-th execution.
ExecutedEarlier(t, p, j) ==
    p \in ExecutedIds(t) => \E i \in 1 .. j - 1 : executed[t][i].request_id = p

\* A predecessor was there before: it has the smaller id and, once its
\* successor was executed, has left the queue, by an earlier execution if by one.
ExecutedInOrder ==
    \A t \in Timelocks :
        /\ \A id \in RequestIds :
             scheduled[t][id] # None /\ scheduled[t][id].request.predecessor_id # None => scheduled[t][id].request.predecessor_id < id
        /\ \A j \in DOMAIN executed[t] :
             LET p == scheduled[t][executed[t][j].request_id].request.predecessor_id
             IN  p # None => requests[t][p] = None /\ ExecutedEarlier(t, p, j)

\* The inductive invariant behind the order of deliveries.
DeliveryInv == IInv /\ DeliveredOnce /\ ExecutedInOrder /\ PredecessorRunsFirst

\* No batch has been sent or delivered when the contracts start.
LEMMA InitDeliveryInv == Init => DeliveryInv
  <1> SUFFICES ASSUME Init PROVE DeliveryInv
    OBVIOUS
  <1>1. IInv
    BY InitIInv
  <1>2. DeliveredOnce
    BY DEF Init, DeliveredOnce, DeliveredIds, ExecutedIds
  <1>3. ExecutedInOrder /\ PredecessorRunsFirst
    BY DEF Init, ExecutedInOrder, PredecessorRunsFirst
  <1> QED
    BY <1>1, <1>2, <1>3 DEF DeliveryInv

\* What delivered ids are.
LEMMA DeliveredType ==
    ASSUME IInv, NEW t \in Timelocks
    PROVE  /\ delivered[t] \in Seq([request_id : RequestIds, ok : BOOLEAN])
           /\ \A i \in DOMAIN delivered[t] : delivered[t][i].request_id \in DeliveredIds(t)
           /\ DeliveredIds(t) \subseteq RequestIds
  <1>1. delivered[t] \in Seq([request_id : RequestIds, ok : BOOLEAN])
    BY DEF IInv, TypeOK
  <1>2. \A i \in DOMAIN delivered[t] : delivered[t][i] \in [request_id : RequestIds, ok : BOOLEAN]
    BY <1>1, SeqElement
  <1> QED
    BY <1>1, <1>2 DEF DeliveredIds

\* A batch in flight carries what was executed under its nonce.
LEMMA BatchExecuted ==
    ASSUME IInv, NEW b \in batches
    PROVE  /\ b.from \in Timelocks /\ b.request_id \in RequestIds
           /\ b.nonce \in DOMAIN executed[b.from]
           /\ executed[b.from][b.nonce].request_id = b.request_id
           /\ b.request_id \in ExecutedIds(b.from)
           /\ scheduled[b.from][b.request_id] # None
           /\ b.request = scheduled[b.from][b.request_id].request
  <1>1. /\ b.from \in Timelocks /\ b.request_id \in RequestIds
        /\ b.nonce \in DOMAIN executed[b.from]
        /\ executed[b.from][b.nonce].request_id = b.request_id
        /\ scheduled[b.from][b.request_id] # None
        /\ b.request = scheduled[b.from][b.request_id].request
    BY DEF IInv, TypeOK, FrozenAtScheduling
  <1> QED
    BY <1>1 DEF ExecutedIds

\* A predecessor is an id.
LEMMA PredecessorType ==
    ASSUME IInv, NEW t \in Timelocks, NEW id \in RequestIds, scheduled[t][id] # None
    PROVE  scheduled[t][id].request.predecessor_id \in RequestIds \cup {None}
  <1>1. scheduled[t][id] \in Scheduled
    BY DEF IInv, TypeOK
  <1>2. scheduled[t][id].request \in Requests
    BY <1>1 DEF Scheduled
  <1> QED
    BY <1>2 DEF Requests

\* A step that leaves batches, the queue and its history alone keeps the invariant.
LEMMA DeliveryUntouched ==
    ASSUME DeliveryInv, IInv',
           UNCHANGED <<requests, scheduled, executed, delivered, batches>>
    PROVE  DeliveryInv'
  <1>1. DeliveredOnce'
    <2>1. \A t \in Timelocks : ExecutedIds(t)' = ExecutedIds(t) /\ DeliveredIds(t)' = DeliveredIds(t)
      BY DEF ExecutedIds, DeliveredIds
    <2> QED
      BY <2>1 DEF DeliveryInv, DeliveredOnce
  <1>2. ExecutedInOrder'
    <2>1. ExecutedInOrder /\ requests' = requests /\ scheduled' = scheduled /\ executed' = executed
      BY DEF DeliveryInv
    <2>2. \A t \in Timelocks : \A p, j : ExecutedEarlier(t, p, j)' <=> ExecutedEarlier(t, p, j)
      BY <2>1 DEF ExecutedEarlier, ExecutedIds
    <2> QED
      BY <2>1, <2>2, Zenon DEF ExecutedInOrder
  <1>3. PredecessorRunsFirst'
    <2>1. /\ PredecessorRunsFirst /\ delivered' = delivered
          /\ requests' = requests /\ scheduled' = scheduled /\ executed' = executed
      BY DEF DeliveryInv
    <2>2. \A t \in Timelocks : \A p : (p \in ExecutedIds(t)' <=> p \in ExecutedIds(t)) /\ (Pending(t, p)' <=> Pending(t, p))
      BY <2>1 DEF ExecutedIds, Pending
    <2> QED
      BY <2>1, <2>2, Zenon DEF PredecessorRunsFirst
  <1> QED
    BY <1>1, <1>2, <1>3 DEF DeliveryInv

\* What insert_request and the schedule event do to the queue and its history.
LEMMA EscrowFrame ==
    ASSUME IInv, NEW t \in Timelocks, NEW caller, NEW attached, NEW request,
           Escrow(t, caller, attached, request), NEW id, id = next_request_id[t]
    PROVE  /\ id \in RequestIds /\ scheduled[t][id] = None /\ requests[t][id] = None
           /\ \A x \in RequestIds : scheduled[t][x] # None <=> x < id
           /\ requests'[t][id] = request /\ scheduled'[t][id].request = request
           /\ scheduled'[t][id].at = block_timestamp /\ scheduled'[t][id].delay = delay_ns[t]
           /\ scheduled'[t][id].by = caller /\ scheduled'[t][id].deposit = attached
           /\ \A s \in Timelocks, x \in RequestIds :
                s # t \/ x # id => /\ requests'[s][x] = requests[s][x]
                                  /\ scheduled'[s][x] = scheduled[s][x]
  <1>1. id \in RequestIds
    <2>1. next_request_id[t] \in 0 .. MaxRequests
      BY DEF IInv, TypeOK
    <2>2. next_request_id[t] < Capacity[t] /\ Capacity[t] \in 0 .. MaxRequests
      BY BoundAssumption DEF Escrow, insert_request
    <2> QED
      BY <2>1, <2>2, BoundAssumption DEF RequestIds
  <1>2. \A x \in RequestIds : scheduled[t][x] # None <=> x < id
    BY DEF IInv, OneFate
  <1>3. ~(id < id)
    BY <1>1 DEF RequestIds
  <1>4. scheduled[t][id] = None /\ requests[t][id] = None
    BY <1>1, <1>2, <1>3 DEF IInv, OneFate, Pending
  <1> DEFINE e == [request |-> request, at |-> block_timestamp, delay |-> delay_ns[t],
                   by |-> caller, deposit |-> attached]
  <1>5. /\ requests' = [requests EXCEPT ![t][id] = request]
        /\ scheduled' = [scheduled EXCEPT ![t][id] = e]
    BY DEF Escrow, insert_request
  <1>6. /\ e.request = request /\ e.at = block_timestamp /\ e.delay = delay_ns[t]
        /\ e.by = caller /\ e.deposit = attached
    OBVIOUS
  <1>7. /\ requests'[t][id] = request /\ scheduled'[t][id] = e
        /\ \A s \in Timelocks, x \in RequestIds :
             s # t \/ x # id => /\ requests'[s][x] = requests[s][x]
                               /\ scheduled'[s][x] = scheduled[s][x]
    <2> HIDE DEF e
    <2> QED
      BY <1>1, <1>5 DEF IInv, TypeOK
  <1> HIDE DEF e
  <1> QED
    BY <1>1, <1>2, <1>4, <1>6, <1>7

\* Scheduling keeps the invariant: nobody is waiting for the new id, and the
\* predecessor it names is an earlier one (lib.rs assert_predecessor).
LEMMA EscrowDelivery ==
    ASSUME DeliveryInv, IInv', NEW t \in Timelocks, NEW caller, NEW attached,
           NEW request, Escrow(t, caller, attached, request),
           request.predecessor_id \in RequestIds \cup {None},
           assert_predecessor(t, request.predecessor_id)
    PROVE  DeliveryInv'
  <1> DEFINE id == next_request_id[t]
  <1>1. /\ id \in RequestIds /\ scheduled[t][id] = None
        /\ \A x \in RequestIds : scheduled[t][x] # None <=> x < id
        /\ scheduled'[t][id].request = request
        /\ \A s \in Timelocks, x \in RequestIds :
             s # t \/ x # id => /\ requests'[s][x] = requests[s][x]
                               /\ scheduled'[s][x] = scheduled[s][x]
    BY EscrowFrame DEF DeliveryInv
  <1>2. UNCHANGED <<executed, delivered, batches>>
    BY DEF Escrow
  <1>3. \A s \in Timelocks : ExecutedIds(s)' = ExecutedIds(s) /\ DeliveredIds(s)' = DeliveredIds(s)
    BY <1>2 DEF ExecutedIds, DeliveredIds
  <1>4. \A s \in Timelocks, x \in RequestIds : scheduled[s][x] # None => s # t \/ x # id
    BY <1>1
  <1>5. ASSUME NEW s \in Timelocks, NEW x \in ExecutedIds(s)
        PROVE  /\ x \in RequestIds /\ scheduled[s][x] # None
               /\ scheduled'[s][x] = scheduled[s][x]
               /\ scheduled'[s][x].request.predecessor_id = scheduled[s][x].request.predecessor_id
               /\ scheduled[s][x].request.predecessor_id \in RequestIds \cup {None}
               /\ scheduled[s][x].request.predecessor_id # None =>
                    /\ scheduled[s][scheduled[s][x].request.predecessor_id] # None
                    /\ requests'[s][scheduled[s][x].request.predecessor_id] = requests[s][scheduled[s][x].request.predecessor_id]
                    /\ scheduled'[s][scheduled[s][x].request.predecessor_id] = scheduled[s][scheduled[s][x].request.predecessor_id]
    <2>1. x \in RequestIds /\ scheduled[s][x] # None
      BY HistoryIds DEF DeliveryInv, IInv, OneFate
    <2>2. scheduled'[s][x] = scheduled[s][x] /\ scheduled'[s][x].request.predecessor_id = scheduled[s][x].request.predecessor_id
      BY <1>1, <1>4, <2>1
    <2>3. scheduled[s][x].request.predecessor_id \in RequestIds \cup {None}
      BY <2>1, PredecessorType DEF DeliveryInv
    <2>4. ASSUME scheduled[s][x].request.predecessor_id # None
          PROVE  scheduled[s][scheduled[s][x].request.predecessor_id] # None
      <3>1. scheduled[s][x].request.predecessor_id < x
        BY <2>1, <2>4, Zenon DEF DeliveryInv, ExecutedInOrder
      <3>2. x < next_request_id[s] /\ next_request_id[s] \in 0 .. MaxRequests
        BY <2>1 DEF DeliveryInv, IInv, OneFate, TypeOK
      <3>3. scheduled[s][x].request.predecessor_id < next_request_id[s]
        BY <3>1, <3>2, <2>1, <2>3, <2>4 DEF RequestIds
      <3> QED
        BY <3>3, <2>3, <2>4 DEF DeliveryInv, IInv, OneFate
    <2> QED
      BY <2>1, <2>2, <2>3, <2>4, <1>1, <1>4
  <1>6. DeliveredOnce'
    BY <1>2, <1>3 DEF DeliveryInv, DeliveredOnce
  <1>7. ExecutedInOrder'
    <2>1. ASSUME NEW s \in Timelocks, NEW x \in RequestIds,
                 scheduled'[s][x] # None, scheduled'[s][x].request.predecessor_id # None
          PROVE  scheduled'[s][x].request.predecessor_id < x
      <3>1. CASE s = t /\ x = id
        BY <3>1, <2>1, <1>1 DEF assert_predecessor, DeliveryInv, IInv, OneFate
      <3>2. CASE s # t \/ x # id
        <4>1. scheduled'[s][x] = scheduled[s][x] /\ ExecutedInOrder
          BY <3>2, <1>1 DEF DeliveryInv
        <4> QED
          BY <4>1, <2>1, Zenon DEF ExecutedInOrder
      <3> QED
        BY <3>1, <3>2
    <2>2. ASSUME NEW s \in Timelocks, NEW j \in DOMAIN executed[s],
                 scheduled'[s][executed[s][j].request_id].request.predecessor_id # None
          PROVE  LET p == scheduled'[s][executed[s][j].request_id].request.predecessor_id
                 IN  requests'[s][p] = None /\ ExecutedEarlier(s, p, j)
      <3> DEFINE x == executed[s][j].request_id
                 p == scheduled[s][x].request.predecessor_id
      <3>1. x \in ExecutedIds(s) /\ scheduled'[s][x].request.predecessor_id # None
        BY <2>2 DEF ExecutedIds
      <3>2. scheduled'[s][x].request.predecessor_id = p /\ p # None /\ requests'[s][p] = requests[s][p]
        <4> HIDE DEF x
        <4>1. scheduled'[s][x].request.predecessor_id = scheduled[s][x].request.predecessor_id
          BY <3>1, <1>5
        <4>2. p # None
          BY <3>1, <4>1
        <4> QED
          BY <3>1, <4>1, <4>2, <1>5
      <3>3. requests[s][p] = None /\ ExecutedEarlier(s, p, j)
        BY <3>2, Zenon DEF DeliveryInv, ExecutedInOrder
      <3> HIDE DEF x, p
      <3>4. QED
        BY <3>2, <3>3 DEF x
    <2>3. \A s \in Timelocks : \A p, j : ExecutedEarlier(s, p, j)' <=> ExecutedEarlier(s, p, j)
      BY <1>2, <1>3 DEF ExecutedEarlier
    <2> QED
      BY <2>1, <2>2, <2>3, <1>2, Zenon DEF ExecutedInOrder
  <1>8. PredecessorRunsFirst'
    <2> SUFFICES ASSUME NEW s \in Timelocks, NEW j \in DOMAIN delivered[s],
                        scheduled'[s][delivered[s][j].request_id].request.predecessor_id # None
                 PROVE  LET x == delivered[s][j].request_id
                            p == scheduled'[s][x].request.predecessor_id
                        IN  /\ requests'[s][p] = None
                            /\ /\ p \in ExecutedIds(s)
                               /\ scheduled'[s][p].request.receiver_id = scheduled'[s][x].request.receiver_id
                               => \E i \in 1 .. j - 1 : delivered[s][i].request_id = p
      BY <1>2, <1>3, Zenon DEF PredecessorRunsFirst, Pending
    <2> DEFINE x == delivered[s][j].request_id
    <2>1. x \in ExecutedIds(s)
      BY DeliveredType DEF DeliveryInv, DeliveredOnce
    <2>2. /\ scheduled'[s][x].request.predecessor_id = scheduled[s][x].request.predecessor_id
          /\ scheduled'[s][x] = scheduled[s][x]
          /\ requests'[s][scheduled[s][x].request.predecessor_id] = requests[s][scheduled[s][x].request.predecessor_id]
          /\ scheduled'[s][scheduled[s][x].request.predecessor_id] = scheduled[s][scheduled[s][x].request.predecessor_id]
      <3>1. scheduled'[s][x].request.predecessor_id # None
        OBVIOUS
      <3> HIDE DEF x
      <3>2. scheduled'[s][x].request.predecessor_id = scheduled[s][x].request.predecessor_id
        BY <2>1, <1>5
      <3> QED
        BY <2>1, <3>1, <3>2, <1>5, Zenon
    <2>3. PredecessorRunsFirst /\ scheduled[s][x].request.predecessor_id # None
      BY <2>2, Zenon DEF DeliveryInv
    <2> QED
      BY <2>2, <2>3, Zenon DEF PredecessorRunsFirst, Pending
  <1> QED
    BY <1>6, <1>7, <1>8 DEF DeliveryInv

\* Appending to a sequence, by positions.
LEMMA AppendAt ==
    ASSUME NEW S, NEW s \in Seq(S), NEW e \in S, NEW n, n = Len(s) + 1
    PROVE  /\ n \in Nat \ {0}
           /\ DOMAIN s = 1 .. n - 1 /\ DOMAIN Append(s, e) = 1 .. n
           /\ Append(s, e)[n] = e
           /\ \A i \in 1 .. n - 1 : Append(s, e)[i] = s[i]
  BY AppendProperties, LenProperties

\* Request ids are compared as numbers.
LEMMA IdsAreNumbers == \A a, b \in RequestIds : a < b => a # b
  BY DEF RequestIds

\* What execute does to the queue, the history and the batches.
LEMMA ExecuteFrame ==
    ASSUME IInv, NEW t \in Timelocks, NEW id \in RequestIds, execute(t, id),
           NEW n, n = Len(executed[t]) + 1
    PROVE  /\ Pending(t, id) /\ scheduled[t][id] # None
           /\ requests[t][id] = scheduled[t][id].request
           /\ id \notin ExecutedIds(t) \cup CancelledIds(t)
           /\ n \in Nat \ {0} /\ DOMAIN executed[t] = 1 .. n - 1 /\ DOMAIN executed'[t] = 1 .. n
           /\ executed'[t][n].request_id = id /\ executed'[t][n].at = block_timestamp
           /\ \A i \in 1 .. n - 1 : executed'[t][i] = executed[t][i]
           /\ ExecutedIds(t)' = ExecutedIds(t) \cup {id}
           /\ \A s \in Timelocks : s # t => /\ executed'[s] = executed[s]
                                            /\ ExecutedIds(s)' = ExecutedIds(s)
           /\ requests'[t][id] = None
           /\ \A s \in Timelocks, x \in RequestIds : s # t \/ x # id => requests'[s][x] = requests[s][x]
           /\ \E batch : /\ batches' = batches \cup {batch}
                         /\ batch.from = t /\ batch.request_id = id /\ batch.nonce = n
                         /\ batch.request = scheduled[t][id].request
                         /\ batch.deposit = total_deposit(batch.request)
           /\ UNCHANGED <<scheduled, cancelled, delivered, callbacks, votes, refunds, proposals,
                          next_request_id, block_timestamp, stranded>>
  <1> DEFINE entry == [request_id |-> id, at |-> block_timestamp]
             batch == [from |-> t, request_id |-> id, nonce |-> n,
                       request |-> requests[t][id], deposit |-> total_deposit(requests[t][id])]
             E == [request_id : RequestIds, at : Times]
  <1>1. /\ Pending(t, id)
        /\ requests' = [requests EXCEPT ![t][id] = None]
        /\ executed' = [executed EXCEPT ![t] = Append(executed[t], entry)]
        /\ batches' = batches \cup {batch}
        /\ UNCHANGED <<scheduled, cancelled, delivered, callbacks, votes, refunds, proposals,
                       next_request_id, block_timestamp, stranded>>
    BY DEF execute, RemoveRequest
  <1>2. /\ scheduled[t][id] # None /\ requests[t][id] = scheduled[t][id].request
        /\ id \notin ExecutedIds(t) \cup CancelledIds(t)
    BY <1>1 DEF IInv, OneFate, FrozenAtScheduling
  <1>3. /\ executed[t] \in Seq(E) /\ entry \in E
        /\ entry.request_id = id /\ entry.at = block_timestamp
    BY DEF IInv, TypeOK
  <1>4. executed'[t] = Append(executed[t], entry) /\ \A s \in Timelocks : s # t => executed'[s] = executed[s]
    <2> HIDE DEF entry
    <2> QED
      BY <1>1 DEF IInv, TypeOK
  <1>5. /\ n \in Nat \ {0} /\ DOMAIN executed[t] = 1 .. n - 1 /\ DOMAIN executed'[t] = 1 .. n
        /\ executed'[t][n] = entry
        /\ \A i \in 1 .. n - 1 : executed'[t][i] = executed[t][i]
    <2> HIDE DEF entry, E
    <2> QED
      BY <1>3, <1>4, AppendAt
  <1>6. /\ ExecutedIds(t)' = ExecutedIds(t) \cup {id}
        /\ \A s \in Timelocks : s # t => ExecutedIds(s)' = ExecutedIds(s)
    <2>1. 1 .. n = (1 .. n - 1) \cup {n}
      BY <1>5
    <2> HIDE DEF entry
    <2> QED
      BY <1>3, <1>4, <1>5, <2>1 DEF ExecutedIds
  <1>7. /\ requests'[t][id] = None
        /\ \A s \in Timelocks, x \in RequestIds : s # t \/ x # id => requests'[s][x] = requests[s][x]
    BY <1>1 DEF IInv, TypeOK
  <1>8. /\ batch.from = t /\ batch.request_id = id /\ batch.nonce = n
        /\ batch.request = scheduled[t][id].request
        /\ batch.deposit = total_deposit(batch.request)
    BY <1>2
  <1> HIDE DEF entry, batch, E
  <1>9. executed'[t][n].request_id = id /\ executed'[t][n].at = block_timestamp
    BY <1>3, <1>5
  <1> QED
    BY <1>1, <1>2, <1>4, <1>5, <1>6, <1>7, <1>8, <1>9

\* execute keeps the invariant: nothing executed before waits for id, which was
\* still pending, and what id waits for has left the queue (lib.rs execute).
LEMMA ExecuteDelivery ==
    ASSUME DeliveryInv, IInv', NEW t \in Timelocks, NEW id \in RequestIds, execute(t, id)
    PROVE  DeliveryInv'
  <1>1. PICK n : n = Len(executed[t]) + 1
    OBVIOUS
  <1>2. IInv /\ DeliveredOnce /\ ExecutedInOrder /\ PredecessorRunsFirst
    BY DEF DeliveryInv
  <1>3. /\ Pending(t, id) /\ scheduled[t][id] # None
        /\ requests[t][id] = scheduled[t][id].request
        /\ id \notin ExecutedIds(t)
        /\ n \in Nat \ {0} /\ DOMAIN executed[t] = 1 .. n - 1 /\ DOMAIN executed'[t] = 1 .. n
        /\ executed'[t][n].request_id = id
        /\ \A i \in 1 .. n - 1 : executed'[t][i] = executed[t][i]
        /\ ExecutedIds(t)' = ExecutedIds(t) \cup {id}
        /\ \A s \in Timelocks : s # t => /\ executed'[s] = executed[s]
                                         /\ ExecutedIds(s)' = ExecutedIds(s)
        /\ requests'[t][id] = None
        /\ \A s \in Timelocks, x \in RequestIds : s # t \/ x # id => requests'[s][x] = requests[s][x]
        /\ scheduled' = scheduled /\ delivered' = delivered
    BY <1>1, <1>2, ExecuteFrame
  <1>4. PICK batch : /\ batches' = batches \cup {batch}
                     /\ batch.from = t /\ batch.request_id = id
    BY <1>1, <1>2, ExecuteFrame
  <1>5. \A s \in Timelocks : DeliveredIds(s)' = DeliveredIds(s)
    BY <1>3 DEF DeliveredIds
  <1>6. DeliveredOnce'
    <2> SUFFICES ASSUME NEW s \in Timelocks
                 PROVE  /\ \A i, j \in DOMAIN delivered[s] :
                             delivered[s][i].request_id = delivered[s][j].request_id => i = j
                        /\ DeliveredIds(s) \subseteq ExecutedIds(s)'
                        /\ \A x \in ExecutedIds(s)' \ DeliveredIds(s) :
                             \E b \in batches' : b.from = s /\ b.request_id = x
                        /\ \A b \in batches' : b.from = s =>
                             /\ b.request_id \notin DeliveredIds(s)
                             /\ \A c \in batches' : c.from = s /\ c.request_id = b.request_id => c = b
      BY <1>3, <1>5 DEF DeliveredOnce
    <2>1. \A b \in batches : b.from \in Timelocks /\ b.request_id \in ExecutedIds(b.from)
      BY <1>2, BatchExecuted
    <2>2. /\ \A i, j \in DOMAIN delivered[s] :
               delivered[s][i].request_id = delivered[s][j].request_id => i = j
          /\ DeliveredIds(s) \subseteq ExecutedIds(s)
          /\ \A x \in ExecutedIds(s) \ DeliveredIds(s) :
               \E b \in batches : b.from = s /\ b.request_id = x
          /\ \A b \in batches : b.from = s =>
               /\ b.request_id \notin DeliveredIds(s)
               /\ \A c \in batches : c.from = s /\ c.request_id = b.request_id => c = b
      BY <1>2 DEF DeliveredOnce
    <2>3. CASE s = t
      BY <2>1, <2>2, <2>3, <1>3, <1>4
    <2>4. CASE s # t
      BY <2>2, <2>4, <1>3, <1>4
    <2> QED
      BY <2>3, <2>4
  <1>7. ASSUME NEW x \in ExecutedIds(t)
        PROVE  LET p == scheduled[t][x].request.predecessor_id
               IN  p # None => /\ p # id /\ requests'[t][p] = None
                               /\ p \in ExecutedIds(t)' => p \in ExecutedIds(t)
    <2> DEFINE p == scheduled[t][x].request.predecessor_id
    <2> SUFFICES ASSUME p # None
                 PROVE  p # id /\ requests'[t][p] = None /\ (p \in ExecutedIds(t)' => p \in ExecutedIds(t))
      OBVIOUS
    <2>1. PICK j \in DOMAIN executed[t] : x = executed[t][j].request_id
      BY DEF ExecutedIds
    <2>2. requests[t][p] = None
      BY <2>1, <1>2, Zenon DEF ExecutedInOrder
    <2>3. p \in RequestIds
      <3>1. x \in RequestIds /\ scheduled[t][x] # None
        BY <1>2, HistoryIds DEF IInv, OneFate
      <3> QED
        BY <3>1, <1>2, PredecessorType
    <2>4. p # id
      BY <2>2, <1>3 DEF Pending
    <2> HIDE DEF p
    <2> QED
      BY <2>2, <2>3, <2>4, <1>3
  <1>8. ExecutedInOrder'
    <2> SUFFICES ASSUME NEW s \in Timelocks, NEW j \in DOMAIN executed'[s], NEW p,
                        p = scheduled[s][executed'[s][j].request_id].request.predecessor_id,
                        p # None
                 PROVE  requests'[s][p] = None /\ ExecutedEarlier(s, p, j)'
      <3>1. \A s \in Timelocks, x \in RequestIds :
              scheduled'[s][x] # None /\ scheduled'[s][x].request.predecessor_id # None
                => scheduled'[s][x].request.predecessor_id < x
        <4>1. scheduled' = scheduled /\ ExecutedInOrder
          BY <1>2, <1>3
        <4> QED
          BY <4>1, Zenon DEF ExecutedInOrder
      <3>2. scheduled' = scheduled
        BY <1>3
      <3> QED
        BY <3>1, <3>2, Zenon DEF ExecutedInOrder
    <2> DEFINE x == executed'[s][j].request_id
    <2>0. p = scheduled[s][x].request.predecessor_id
      OBVIOUS
    <2>1. CASE s # t
      <3>1. executed'[s] = executed[s] /\ ExecutedIds(s)' = ExecutedIds(s)
        BY <2>1, <1>3
      <3>2. requests[s][p] = None /\ ExecutedEarlier(s, p, j)
        BY <3>1, <1>2, Zenon DEF ExecutedInOrder
      <3>3. p \in RequestIds
        <4>1. x \in ExecutedIds(s)
          BY <3>1 DEF ExecutedIds
        <4>2. x \in RequestIds /\ scheduled[s][x] # None
          BY <4>1, <1>2, HistoryIds DEF IInv, OneFate
        <4> QED
          BY <4>2, <1>2, PredecessorType
      <3> HIDE DEF x
      <3>4. requests'[s][p] = None
        BY <2>1, <3>2, <3>3, <1>3, Zenon
      <3> QED
        BY <3>1, <3>2, <3>4, Zenon DEF ExecutedEarlier
    <2>2. CASE s = t /\ j \in 1 .. n - 1
      <3>1. x = executed[t][j].request_id /\ j \in DOMAIN executed[t] /\ x \in ExecutedIds(t)
        BY <2>2, <1>3 DEF ExecutedIds
      <3>2. /\ p # id /\ requests'[t][p] = None
            /\ p \in ExecutedIds(t)' => p \in ExecutedIds(t)
        BY <2>2, <3>1, <1>7, Zenon
      <3>3. p # None /\ ExecutedEarlier(t, p, j)
        BY <2>2, <3>1, <1>2, Zenon DEF ExecutedInOrder
      <3>4. \A i \in 1 .. j - 1 : executed'[t][i] = executed[t][i]
        BY <2>2, <1>3
      <3> HIDE DEF x
      <3>5. requests'[t][p] = None /\ ExecutedEarlier(t, p, j)'
        BY <3>2, <3>3, <3>4, Zenon DEF ExecutedEarlier
      <3> QED
        BY <3>5, <2>2, Zenon
    <2>3. CASE s = t /\ j = n
      <3>1. x = id
        BY <2>3, <1>3
      <3>2. p \in RequestIds /\ p < id
        <4>1. p = scheduled[t][id].request.predecessor_id /\ p # None
          BY <3>1, <2>3
        <4> HIDE DEF x
        <4>2. scheduled[t][id] # None /\ IInv /\ ExecutedInOrder
          BY <1>2, <1>3
        <4>3. p \in RequestIds
          BY <4>1, <4>2, PredecessorType
        <4>4. p < id
          BY <4>1, <4>2, Zenon DEF ExecutedInOrder
        <4> QED
          BY <4>3, <4>4, Zenon
      <3>3. p # id
        BY <3>2, IdsAreNumbers
      <3>4. requests[t][p] = None
        <4>1. PredecessorLeft(t, id)
          BY Zenon DEF execute
        <4>2. p = scheduled[t][x].request.predecessor_id
          BY <2>3
        <4> HIDE DEF x
        <4>3. p = requests[t][id].predecessor_id
          BY <4>2, <3>1, <1>3
        <4> QED
          BY <4>1, <4>3, <3>3 DEF PredecessorLeft, Pending
      <3>5. requests'[t][p] = None
        BY <3>2, <3>3, <3>4, <1>3, Zenon
      <3>6. p \in ExecutedIds(t)' => \E i \in 1 .. n - 1 : executed'[t][i].request_id = p
        <4> HIDE DEF x
        <4>1. p \in ExecutedIds(t) => \E i \in 1 .. n - 1 : executed[t][i].request_id = p
          <5>1. DOMAIN executed[t] = 1 .. n - 1
            BY <1>3
          <5> QED
            BY <5>1, Zenon DEF ExecutedIds
        <4>2. p \in ExecutedIds(t)' => p \in ExecutedIds(t)
          BY <3>3, <1>3
        <4>3. \A i \in 1 .. n - 1 : executed'[t][i] = executed[t][i]
          BY <1>3
        <4> QED
          BY <4>1, <4>2, <4>3, Zenon
      <3> QED
        BY <3>5, <3>6, <2>3, Zenon DEF ExecutedEarlier
    <2>4. s = t => j \in 1 .. n - 1 \/ j = n
      BY <1>3
    <2> HIDE DEF x
    <2> QED
      BY <2>1, <2>2, <2>3, <2>4, Zenon
  <1>9. PredecessorRunsFirst'
    <2> SUFFICES ASSUME NEW s \in Timelocks, NEW j \in DOMAIN delivered[s],
                        scheduled[s][delivered[s][j].request_id].request.predecessor_id # None
                 PROVE  LET x == delivered[s][j].request_id
                            p == scheduled[s][x].request.predecessor_id
                        IN  /\ requests'[s][p] = None
                            /\ /\ p \in ExecutedIds(s)'
                               /\ scheduled[s][p].request.receiver_id = scheduled[s][x].request.receiver_id
                               => \E i \in 1 .. j - 1 : delivered[s][i].request_id = p
      <3>1. scheduled' = scheduled /\ delivered' = delivered
        BY <1>3, Zenon
      <3> QED
        BY <3>1, Zenon DEF PredecessorRunsFirst, Pending
    <2> DEFINE x == delivered[s][j].request_id
               p == scheduled[s][x].request.predecessor_id
    <2>1. x \in ExecutedIds(s)
      BY <1>2, DeliveredType DEF DeliveredOnce
    <2>2. /\ requests[s][p] = None
          /\ /\ p \in ExecutedIds(s)
             /\ scheduled[s][p].request.receiver_id = scheduled[s][x].request.receiver_id
             => \E i \in 1 .. j - 1 : delivered[s][i].request_id = p
      BY <1>2, Zenon DEF PredecessorRunsFirst, Pending
    <2>3. requests'[s][p] = None /\ (p \in ExecutedIds(s)' => p \in ExecutedIds(s))
      <3>1. CASE s = t
        BY <3>1, <2>1, <1>7, Zenon
      <3>2. CASE s # t
        <4>1. x \in RequestIds /\ scheduled[s][x] # None
          BY <2>1, <1>2, HistoryIds DEF IInv, OneFate
        <4>2. p \in RequestIds
          BY <4>1, <1>2, PredecessorType
        <4> HIDE DEF x, p
        <4> QED
          BY <3>2, <4>2, <2>2, <1>3
      <3> QED
        BY <3>1, <3>2, Zenon
    <2> HIDE DEF x, p
    <2>4. /\ requests'[s][p] = None
          /\ /\ p \in ExecutedIds(s)'
             /\ scheduled[s][p].request.receiver_id = scheduled[s][x].request.receiver_id
             => \E i \in 1 .. j - 1 : delivered[s][i].request_id = p
      BY <2>2, <2>3
    <2> QED
      BY <2>4, Zenon DEF x, p
  <1> QED
    BY <1>6, <1>8, <1>9 DEF DeliveryInv

\* What cancel does to the queue.
LEMMA CancelFrame ==
    ASSUME IInv, NEW t \in Timelocks, NEW caller, NEW id \in RequestIds, cancel(t, caller, id)
    PROVE  /\ Pending(t, id) /\ scheduled[t][id] # None
           /\ requests[t][id] = scheduled[t][id].request
           /\ id \notin ExecutedIds(t) \cup CancelledIds(t)
           /\ CancelledIds(t)' = CancelledIds(t) \cup {id}
           /\ \A s \in Timelocks : s # t => CancelledIds(s)' = CancelledIds(s)
           /\ requests'[t][id] = None
           /\ \A s \in Timelocks, x \in RequestIds : s # t \/ x # id => requests'[s][x] = requests[s][x]
           /\ UNCHANGED <<scheduled, executed, delivered, batches, callbacks, votes, proposals,
                          next_request_id, block_timestamp, stranded>>
  <1>1. /\ Pending(t, id)
        /\ requests' = [requests EXCEPT ![t][id] = None]
        /\ cancelled' = [cancelled EXCEPT ![t] = Append(cancelled[t], id)]
        /\ UNCHANGED <<scheduled, executed, delivered, batches, callbacks, votes, proposals,
                       next_request_id, block_timestamp, stranded>>
    BY DEF cancel, RemoveRequest
  <1>2. /\ scheduled[t][id] # None /\ requests[t][id] = scheduled[t][id].request
        /\ id \notin ExecutedIds(t) \cup CancelledIds(t)
    BY <1>1 DEF IInv, OneFate, FrozenAtScheduling
  <1>3. /\ cancelled'[t] = Append(cancelled[t], id)
        /\ \A s \in Timelocks : s # t => cancelled'[s] = cancelled[s]
        /\ cancelled[t] \in Seq(RequestIds)
    BY <1>1 DEF IInv, TypeOK
  <1>4. /\ DOMAIN cancelled'[t] = DOMAIN cancelled[t] \cup {Len(cancelled[t]) + 1}
        /\ cancelled'[t][Len(cancelled[t]) + 1] = id
        /\ \A i \in DOMAIN cancelled[t] : cancelled'[t][i] = cancelled[t][i]
    BY <1>3, SeqAppend
  <1>5. /\ CancelledIds(t)' = CancelledIds(t) \cup {id}
        /\ \A s \in Timelocks : s # t => CancelledIds(s)' = CancelledIds(s)
    BY <1>3, <1>4 DEF CancelledIds
  <1>6. /\ requests'[t][id] = None
        /\ \A s \in Timelocks, x \in RequestIds : s # t \/ x # id => requests'[s][x] = requests[s][x]
    BY <1>1 DEF IInv, TypeOK
  <1> QED
    BY <1>1, <1>2, <1>5, <1>6

\* cancel keeps the invariant: a predecessor that has left stays away.
LEMMA CancelDelivery ==
    ASSUME DeliveryInv, IInv', NEW t \in Timelocks, NEW caller, NEW id \in RequestIds,
           cancel(t, caller, id)
    PROVE  DeliveryInv'
  <1>1. IInv /\ DeliveredOnce /\ ExecutedInOrder /\ PredecessorRunsFirst
    BY DEF DeliveryInv
  <1>2. /\ UNCHANGED <<scheduled, executed, delivered, batches>>
        /\ \A s \in Timelocks, x \in RequestIds : requests[s][x] = None => requests'[s][x] = None
    BY <1>1, CancelFrame
  <1>3. \A s \in Timelocks : ExecutedIds(s)' = ExecutedIds(s) /\ DeliveredIds(s)' = DeliveredIds(s)
    BY <1>2 DEF ExecutedIds, DeliveredIds
  <1>4. DeliveredOnce'
    BY <1>1, <1>2, <1>3 DEF DeliveredOnce
  <1>5. ASSUME NEW s \in Timelocks, NEW x \in ExecutedIds(s),
               scheduled[s][x].request.predecessor_id # None
        PROVE  /\ scheduled[s][x].request.predecessor_id \in RequestIds
               /\ requests'[s][scheduled[s][x].request.predecessor_id] = None
    <2>1. PICK j \in DOMAIN executed[s] : x = executed[s][j].request_id
      BY DEF ExecutedIds
    <2>2. requests[s][scheduled[s][x].request.predecessor_id] = None
      BY <1>5, <2>1, <1>1, Zenon DEF ExecutedInOrder
    <2>3. x \in RequestIds /\ scheduled[s][x] # None
      BY <1>1, HistoryIds DEF IInv, OneFate
    <2>4. scheduled[s][x].request.predecessor_id \in RequestIds
      BY <2>3, <1>1, <1>5, PredecessorType
    <2> QED
      BY <2>2, <2>4, <1>2
  <1>6. \A s \in Timelocks : /\ \A j \in DOMAIN executed[s] : executed[s][j].request_id \in ExecutedIds(s)
                             /\ \A j \in DOMAIN delivered[s] : delivered[s][j].request_id \in ExecutedIds(s)
    BY <1>1 DEF DeliveredOnce, DeliveredIds, ExecutedIds
  <1>7. ExecutedInOrder'
    <2>1. \A s \in Timelocks : \A p, j : ExecutedEarlier(s, p, j)' <=> ExecutedEarlier(s, p, j)
      BY <1>2, <1>3 DEF ExecutedEarlier
    <2> QED
      BY <2>1, <1>1, <1>2, <1>5, <1>6, Zenon DEF ExecutedInOrder
  <1>8. PredecessorRunsFirst'
    BY <1>1, <1>2, <1>3, <1>5, <1>6, Zenon DEF PredecessorRunsFirst, Pending
  <1> QED
    BY <1>4, <1>7, <1>8 DEF DeliveryInv

\* The n-th delivery from b's timelock is that of b.
DeliveredAs(b, ok, n) ==
    /\ batches' = batches \ {b}
    /\ n \in Nat \ {0} /\ DOMAIN delivered[b.from] = 1 .. n - 1 /\ DOMAIN delivered'[b.from] = 1 .. n
    /\ delivered'[b.from][n] = [request_id |-> b.request_id, ok |-> ok]
    /\ delivered'[b.from][n].request_id = b.request_id
    /\ \A i \in 1 .. n - 1 : delivered'[b.from][i] = delivered[b.from][i]
    /\ \A s \in Timelocks : s # b.from => delivered'[s] = delivered[s]

\* What the arrival of a batch does to the batches and the deliveries.
LEMMA ReceiveFrame ==
    ASSUME IInv, NEW b \in batches, NEW ok \in BOOLEAN, Receive(b, ok),
           NEW n, n = Len(delivered[b.from]) + 1
    PROVE  DeliveredAs(b, ok, n)
  <1> DEFINE entry == [request_id |-> b.request_id, ok |-> ok]
             D == [request_id : RequestIds, ok : BOOLEAN]
  <1>1. /\ batches' = batches \ {b}
        /\ delivered' = [delivered EXCEPT ![b.from] = Append(delivered[b.from], entry)]
    BY DEF Receive
  <1>2. /\ b.from \in Timelocks /\ entry \in D /\ entry.request_id = b.request_id
        /\ delivered[b.from] \in Seq(D)
    BY DEF IInv, TypeOK
  <1> HIDE DEF D
  <1>3. /\ delivered'[b.from] = Append(delivered[b.from], entry)
        /\ \A s \in Timelocks : s # b.from => delivered'[s] = delivered[s]
    <2> HIDE DEF entry
    <2> QED
      BY <1>1, <1>2 DEF IInv, TypeOK
  <1>4. /\ n \in Nat \ {0} /\ DOMAIN delivered[b.from] = 1 .. n - 1 /\ DOMAIN delivered'[b.from] = 1 .. n
        /\ delivered'[b.from][n] = entry
        /\ \A i \in 1 .. n - 1 : delivered'[b.from][i] = delivered[b.from][i]
    <2> HIDE DEF entry
    <2> QED
      BY <1>2, <1>3, AppendAt
  <1> QED
    BY <1>1, <1>2, <1>3, <1>4 DEF DeliveredAs

\* A batch that arrives keeps the invariant: the batch of its predecessor was
\* sent before it and, to the same receiver, has arrived before it.
LEMMA ReceiveDelivery ==
    ASSUME DeliveryInv, IInv', NEW b \in batches, NEW ok \in BOOLEAN,
           Arrives(b), Receive(b, ok), UNCHANGED <<requests, scheduled, executed>>
    PROVE  DeliveryInv'
  <1>1. IInv /\ DeliveredOnce /\ ExecutedInOrder /\ PredecessorRunsFirst
    BY DEF DeliveryInv
  <1>2. PICK n : n = Len(delivered[b.from]) + 1
    OBVIOUS
  <1>3. PICK t \in Timelocks : t = b.from
    BY <1>1, BatchExecuted
  <1>4. /\ batches' = batches \ {b}
        /\ n \in Nat \ {0} /\ DOMAIN delivered[t] = 1 .. n - 1 /\ DOMAIN delivered'[t] = 1 .. n
        /\ delivered'[t][n].request_id = b.request_id
        /\ \A i \in 1 .. n - 1 : delivered'[t][i] = delivered[t][i]
        /\ \A s \in Timelocks : s # t => delivered'[s] = delivered[s]
    <2>1. DeliveredAs(b, ok, n)
      BY <1>1, <1>2, ReceiveFrame
    <2> QED
      BY <2>1, <1>3 DEF DeliveredAs
  <1>5. /\ b.request_id \in ExecutedIds(t) /\ b.request_id \in RequestIds
        /\ b.nonce \in DOMAIN executed[t] /\ executed[t][b.nonce].request_id = b.request_id
        /\ b.request = scheduled[t][b.request_id].request
        /\ scheduled[t][b.request_id] # None
    BY <1>1, <1>3, BatchExecuted
  <1>6. \A s \in Timelocks : ExecutedIds(s)' = ExecutedIds(s)
    BY DEF ExecutedIds
  <1>7. /\ DeliveredIds(t)' = DeliveredIds(t) \cup {b.request_id}
        /\ \A s \in Timelocks : s # t => DeliveredIds(s)' = DeliveredIds(s)
    <2>1. 1 .. n = (1 .. n - 1) \cup {n}
      BY <1>4
    <2> QED
      BY <2>1, <1>4 DEF DeliveredIds
  <1>8. DeliveredOnce'
    <2> SUFFICES ASSUME NEW s \in Timelocks
                 PROVE  /\ \A i, j \in DOMAIN delivered'[s] :
                             delivered'[s][i].request_id = delivered'[s][j].request_id => i = j
                        /\ DeliveredIds(s)' \subseteq ExecutedIds(s)
                        /\ \A x \in ExecutedIds(s) \ DeliveredIds(s)' :
                             \E c \in batches' : c.from = s /\ c.request_id = x
                        /\ \A c \in batches' : c.from = s =>
                             /\ c.request_id \notin DeliveredIds(s)'
                             /\ \A d \in batches' : d.from = s /\ d.request_id = c.request_id => d = c
      BY <1>6 DEF DeliveredOnce
    <2>1. /\ \A i, j \in DOMAIN delivered[s] :
               delivered[s][i].request_id = delivered[s][j].request_id => i = j
          /\ DeliveredIds(s) \subseteq ExecutedIds(s)
          /\ \A x \in ExecutedIds(s) \ DeliveredIds(s) :
               \E c \in batches : c.from = s /\ c.request_id = x
          /\ \A c \in batches : c.from = s =>
               /\ c.request_id \notin DeliveredIds(s)
               /\ \A d \in batches : d.from = s /\ d.request_id = c.request_id => d = c
      BY <1>1 DEF DeliveredOnce
    <2>2. CASE s # t
      BY <2>1, <2>2, <1>3, <1>4, <1>7
    <2>3. CASE s = t
      <3>1. \A i \in 1 .. n - 1 : delivered[t][i].request_id # b.request_id
        BY <2>1, <2>3, <1>3, <1>4 DEF DeliveredIds
      <3>2. \A i, j \in 1 .. n : delivered'[t][i].request_id = delivered'[t][j].request_id => i = j
        <4>1. \A i \in 1 .. n : i \in 1 .. n - 1 \/ i = n
          BY <1>4
        <4>2. \A i, j \in 1 .. n - 1 : delivered[t][i].request_id = delivered[t][j].request_id => i = j
          BY <2>1, <2>3, <1>4
        <4> QED
          BY <4>1, <4>2, <3>1, <1>4, Zenon
      <3> QED
        BY <2>1, <2>3, <3>2, <1>3, <1>4, <1>5, <1>7
    <2> QED
      BY <2>2, <2>3
  <1>9. ExecutedInOrder'
    <2>1. \A s \in Timelocks : \A p, j : ExecutedEarlier(s, p, j)' <=> ExecutedEarlier(s, p, j)
      BY <1>6 DEF ExecutedEarlier
    <2> QED
      BY <1>1, <2>1, Zenon DEF ExecutedInOrder
  <1>10. PredecessorRunsFirst'
    <2> SUFFICES ASSUME NEW s \in Timelocks, NEW j \in DOMAIN delivered'[s],
                        scheduled[s][delivered'[s][j].request_id].request.predecessor_id # None
                 PROVE  LET x == delivered'[s][j].request_id
                            p == scheduled[s][x].request.predecessor_id
                        IN  /\ requests[s][p] = None
                            /\ /\ p \in ExecutedIds(s)
                               /\ scheduled[s][p].request.receiver_id = scheduled[s][x].request.receiver_id
                               => \E i \in 1 .. j - 1 : delivered'[s][i].request_id = p
      BY <1>6, Zenon DEF PredecessorRunsFirst, Pending
    <2> DEFINE x == delivered'[s][j].request_id
               p == scheduled[s][x].request.predecessor_id
    <2>1. CASE s # t
      <3>1. delivered'[s] = delivered[s]
        BY <2>1, <1>4
      <3>2. x = delivered[s][j].request_id /\ j \in DOMAIN delivered[s] /\ p # None
        BY <3>1
      <3>3. p = scheduled[s][x].request.predecessor_id
        OBVIOUS
      <3> HIDE DEF x, p
      <3>4. /\ requests[s][p] = None
            /\ /\ p \in ExecutedIds(s)
               /\ scheduled[s][p].request.receiver_id = scheduled[s][x].request.receiver_id
               => \E i \in 1 .. j - 1 : delivered[s][i].request_id = p
        BY <3>2, <3>3, <1>1, Zenon DEF PredecessorRunsFirst, Pending
      <3> QED
        BY <3>1, <3>4, Zenon DEF x, p
    <2>2. CASE s = t /\ j \in 1 .. n - 1
      <3>1. x = delivered[t][j].request_id /\ \A i \in 1 .. j - 1 : delivered'[t][i] = delivered[t][i]
        BY <2>2, <1>4
      <3>2. j \in DOMAIN delivered[t] /\ p = scheduled[t][x].request.predecessor_id /\ p # None
        BY <2>2, <1>4
      <3> HIDE DEF x, p
      <3>3. /\ requests[t][p] = None
            /\ /\ p \in ExecutedIds(t)
               /\ scheduled[t][p].request.receiver_id = scheduled[t][x].request.receiver_id
               => \E i \in 1 .. j - 1 : delivered[t][i].request_id = p
        BY <3>1, <3>2, <1>1, Zenon DEF PredecessorRunsFirst, Pending
      <3> QED
        BY <2>2, <3>1, <3>3, Zenon DEF x, p
    <2>3. CASE s = t /\ j = n
      <3>1. x = b.request_id
        BY <2>3, <1>4
      <3>2. p = scheduled[t][x].request.predecessor_id /\ p # None
        BY <2>3
      <3> HIDE DEF x, p
      <3>3. /\ requests[t][p] = None
            /\ p \in ExecutedIds(t) => \E i \in 1 .. b.nonce - 1 : executed[t][i].request_id = p
        <4>1. p = scheduled[t][executed[t][b.nonce].request_id].request.predecessor_id
          BY <3>1, <3>2, <1>5
        <4>2. requests[t][p] = None /\ ExecutedEarlier(t, p, b.nonce)
          BY <4>1, <3>2, <1>1, <1>5, Zenon DEF ExecutedInOrder
        <4> QED
          BY <4>2 DEF ExecutedEarlier
      <3>4. ASSUME p \in ExecutedIds(t), p \notin DeliveredIds(t),
                   scheduled[t][p].request.receiver_id = scheduled[t][x].request.receiver_id
            PROVE  FALSE
        <4>1. PICK c \in batches : c.from = t /\ c.request_id = p
          BY <3>4, <1>1 DEF DeliveredOnce
        <4>2. PICK i \in 1 .. b.nonce - 1 : executed[t][i].request_id = p
          BY <3>3, <3>4
        <4>3. /\ c.nonce \in DOMAIN executed[t] /\ executed[t][c.nonce].request_id = p
              /\ c.request = scheduled[t][p].request
          BY <4>1, <1>1, BatchExecuted
        <4>4. /\ executed[t] \in Seq([request_id : RequestIds, at : Times])
              /\ Len(executed[t]) \in Nat /\ DOMAIN executed[t] = 1 .. Len(executed[t])
          <5>1. executed[t] \in Seq([request_id : RequestIds, at : Times])
            BY <1>1 DEF IInv, TypeOK
          <5> QED
            BY <5>1, LenProperties
        <4>5. c.nonce = i
          <5>1. i \in DOMAIN executed[t]
            BY <1>5, <4>4
          <5> QED
            BY <5>1, <4>2, <4>3, <1>1 DEF IInv, OneFate
        <4>6. c.request.receiver_id = b.request.receiver_id
          BY <4>3, <3>1, <3>4, <1>5
        <4>7. c.nonce >= b.nonce
          BY <4>1, <4>6, <1>3 DEF Arrives
        <4> QED
          BY <4>2, <4>4, <4>5, <4>7, <1>5
      <3>5. p \in DeliveredIds(t) => \E i \in 1 .. n - 1 : delivered'[t][i].request_id = p
        BY <1>4 DEF DeliveredIds
      <3> QED
        BY <2>3, <3>3, <3>4, <3>5, Zenon DEF x, p
    <2> HIDE DEF x, p
    <2>4. s = t => j \in 1 .. n - 1 \/ j = n
      BY <1>4
    <2> QED
      BY <2>1, <2>2, <2>3, <2>4, Zenon DEF x, p
  <1> QED
    BY <1>8, <1>9, <1>10 DEF DeliveryInv

\* Every step keeps the invariant.
LEMMA NextDeliveryInv ==
    ASSUME DeliveryInv, [Next]_vars
    PROVE  DeliveryInv'
  <1>1. IInv /\ IInv'
    BY NextIInv DEF DeliveryInv
  <1>2. ASSUME NEW t \in Timelocks, NEW caller \in Daos,
               NEW predecessor_id \in RequestIds \cup {None}, NEW attached \in Deposits,
               \/ \E a \in ScheduleArgs : schedule(t, caller, a, predecessor_id, attached)
               \/ \E p \in ProposalArgs : schedule_proposal(t, caller, p, predecessor_id, attached)
        PROVE  DeliveryInv'
    <2>1. assert_predecessor(t, predecessor_id)
      BY <1>2 DEF schedule, schedule_proposal
    <2>2. PICK request : /\ request.predecessor_id = predecessor_id
                         /\ Escrow(t, caller, attached, request)
      <3>1. ASSUME NEW a \in ScheduleArgs, schedule(t, caller, a, predecessor_id, attached)
            PROVE  \E request : /\ request.predecessor_id = predecessor_id
                                /\ Escrow(t, caller, attached, request)
        BY <3>1 DEF schedule
      <3>2. ASSUME NEW p \in ProposalArgs, schedule_proposal(t, caller, p, predecessor_id, attached)
            PROVE  \E request : /\ request.predecessor_id = predecessor_id
                                /\ Escrow(t, caller, attached, request)
        BY <3>2 DEF schedule_proposal
      <3> QED
        BY <1>2, <3>1, <3>2
    <2> QED
      BY <2>1, <2>2, <1>1, EscrowDelivery
  <1>3. ASSUME NEW t \in Timelocks, NEW id \in RequestIds, execute(t, id)
        PROVE  DeliveryInv'
    BY <1>1, <1>3, ExecuteDelivery
  <1>4. ASSUME NEW t \in Timelocks, NEW caller \in Users, NEW id \in RequestIds,
               cancel(t, caller, id)
        PROVE  DeliveryInv'
    BY <1>1, <1>4, CancelDelivery
  <1>5. ASSUME NEW t \in Timelocks, NEW caller \in Daos \cup Users, NEW call \in SetterCalls,
               CallSetter(t, caller, call)
        PROVE  DeliveryInv'
    BY <1>1, <1>5, DeliveryUntouched DEF CallSetter, queue, history
  <1>6. ASSUME NEW b \in batches,
               ReceiveConfig(b) \/ ReceiveProposal(b) \/ ReceiveOther(b) \/ BatchFails(b)
        PROVE  DeliveryInv'
    <2>1. Arrives(b) /\ UNCHANGED <<requests, scheduled, executed>>
      BY <1>6 DEF ReceiveConfig, ReceiveProposal, ReceiveOther, BatchFails, queue
    <2>2. Receive(b, TRUE) \/ Receive(b, FALSE)
      BY <1>6 DEF ReceiveConfig, ReceiveProposal, ReceiveOther, BatchFails
    <2> QED
      BY <2>1, <2>2, <1>1, ReceiveDelivery
  <1>7. ASSUME \/ \E c \in callbacks : on_proposal_added(c)
               \/ \E v \in votes : ReceiveVote(v)
               \/ \E r \in refunds : ReceiveRefund(r)
               \/ \E p \in ProposalArgs : OtherProposal(p.dao_id, p.kind)
               \/ Tick
               \/ UNCHANGED vars
        PROVE  DeliveryInv'
    <2>1. UNCHANGED <<requests, scheduled, executed, delivered, batches>>
      BY <1>7 DEF on_proposal_added, ReceiveVote, ReceiveRefund, OtherProposal, Tick, vars, queue,
                  history
    <2> QED
      BY <2>1, <1>1, DeliveryUntouched
  <1> QED
    BY <1>2, <1>3, <1>4, <1>5, <1>6, <1>7 DEF Next

\* Every batch is delivered at most once and in the order its request asks for.
THEOREM DeliveryInvariance == Spec => []DeliveryInv
  <1>1. DeliveryInv /\ [Next]_vars => DeliveryInv'
    BY NextDeliveryInv
  <1> QED
    BY <1>1, InitDeliveryInv, PTL DEF Spec

\* A request that names a predecessor never reaches its receiver while the
\* predecessor waits, nor before it when both go to the same receiver.
THEOREM PredecessorRunsFirstHolds == Spec => []PredecessorRunsFirst
  BY DeliveryInvariance, PTL DEF DeliveryInv

-----------------------------------------------------------------------------
(* The abstract queue: schedule and schedule_proposal submit an entry,     *)
(* execute starts it, cancel vetoes it, the arrival of its batch ends it,  *)
(* the clock advances, and every other step leaves all entries as they are. *)

\* Entry by entry.
LEMMA EntriesAt ==
    \A t \in Timelocks, id \in RequestIds : Entries[t][id] = EntryOf(t, id)
  BY DEF Entries

\* A step that changes one entry.
LEMMA EntriesExcept ==
    ASSUME NEW t \in Timelocks, NEW id \in RequestIds, NEW e,
           EntryOf(t, id)' = e,
           \A s \in Timelocks, x \in RequestIds : s # t \/ x # id => EntryOf(s, x)' = EntryOf(s, x)
    PROVE  Entries' = [Entries EXCEPT ![t][id] = e]
  <1>1. Entries' = [s \in Timelocks |-> [x \in RequestIds |-> EntryOf(s, x)']]
    BY DEF Entries
  <1>2. [Entries EXCEPT ![t][id] = e] =
          [s \in Timelocks |-> [x \in RequestIds |-> IF s = t /\ x = id THEN e ELSE EntryOf(s, x)]]
    BY DEF Entries
  <1>3. \A s \in Timelocks, x \in RequestIds :
          EntryOf(s, x)' = IF s = t /\ x = id THEN e ELSE EntryOf(s, x)
    OBVIOUS
  <1> QED
    BY <1>1, <1>2, <1>3

\* What the state of an entry is.
LEMMA StateIs ==
    ASSUME IInv, NEW t \in Timelocks, NEW id \in RequestIds
    PROVE  /\ id \in CancelledIds(t) => State(t, id) = "vetoed"
           /\ id \in ExecutedIds(t) =>
                State(t, id) = IF Failed(t, id) THEN "failed"
                               ELSE IF Succeeded(t, id) THEN "done" ELSE "running"
           /\ id \notin ExecutedIds(t) \cup CancelledIds(t) => State(t, id) = "waiting"
  <1>1. ~(id \in CancelledIds(t) /\ id \in ExecutedIds(t))
    BY DEF IInv, OneFate
  <1> QED
    BY <1>1 DEF State

\* What the entry of a scheduled request is.
LEMMA EntryIs ==
    ASSUME IInv, NEW t \in Timelocks, NEW id \in RequestIds, scheduled[t][id] # None
    PROVE  LET s == scheduled[t][id]
           IN  /\ EntryOf(t, id) = [due |-> s.at + s.delay, after |-> s.request.predecessor_id,
                                    state |-> State(t, id)]
               /\ EntryOf(t, id) # None
               /\ s.at + s.delay \in 0 .. MaxTime + MAX_DELAY_NS
               /\ s.request.predecessor_id \in RequestIds \cup {None}
  <1>1. scheduled[t][id] \in Scheduled
    BY DEF IInv, TypeOK
  <1>2. /\ scheduled[t][id].at \in Times /\ scheduled[t][id].delay \in 0 .. MAX_DELAY_NS
        /\ scheduled[t][id].request \in Requests
    BY <1>1 DEF Scheduled
  <1>3. scheduled[t][id].at + scheduled[t][id].delay \in 0 .. MaxTime + MAX_DELAY_NS
    BY <1>2, ClockAssumption DEF Times
  <1>4. scheduled[t][id].request.predecessor_id \in RequestIds \cup {None}
    BY <1>2 DEF Requests
  <1>5. State(t, id) \in {"waiting", "vetoed", "running", "done", "failed"}
    BY StateIs
  <1>6. EntryOf(t, id) = [due |-> scheduled[t][id].at + scheduled[t][id].delay,
                          after |-> scheduled[t][id].request.predecessor_id, state |-> State(t, id)]
    BY DEF EntryOf
  <1>7. EntryOf(t, id) # None
    BY <1>3, <1>4, <1>5, <1>6, EntryAssumption
  <1> QED
    BY <1>3, <1>4, <1>6, <1>7

\* An entry waits as long as its request is pending.
LEMMA WaitingIsPending ==
    ASSUME IInv, NEW t \in Timelocks, NEW id \in RequestIds
    PROVE  Pending(t, id) <=> Queue!In(t, id, "waiting")
  <1>1. Entries[t][id] = EntryOf(t, id)
    BY EntriesAt
  <1>2. Pending(t, id) <=> /\ scheduled[t][id] # None
                           /\ id \notin ExecutedIds(t) \cup CancelledIds(t)
    BY DEF IInv, OneFate
  <1>3. State(t, id) = "waiting" <=> id \notin ExecutedIds(t) \cup CancelledIds(t)
    BY StateIs
  <1>4. CASE scheduled[t][id] = None
    BY <1>1, <1>2, <1>4 DEF Queue!In, EntryOf
  <1>5. CASE scheduled[t][id] # None
    <2>1. EntryOf(t, id) # None /\ EntryOf(t, id).state = State(t, id)
      BY <1>5, EntryIs
    <2> QED
      BY <1>1, <1>2, <1>3, <1>5, <2>1 DEF Queue!In
  <1> QED
    BY <1>4, <1>5

\* An entry depends on the request's schedule event and its fate only.
LEMMA EntryUnchanged ==
    ASSUME NEW t \in Timelocks, NEW id \in RequestIds,
           scheduled'[t][id] = scheduled[t][id],
           id \in ExecutedIds(t)' <=> id \in ExecutedIds(t),
           id \in CancelledIds(t)' <=> id \in CancelledIds(t),
           Failed(t, id)' <=> Failed(t, id), Succeeded(t, id)' <=> Succeeded(t, id)
    PROVE  EntryOf(t, id)' = EntryOf(t, id)
  <1>1. State(t, id)' = State(t, id)
    BY DEF State
  <1> QED
    BY <1>1 DEF EntryOf

\* schedule and schedule_proposal submit an entry.
LEMMA EscrowSubmits ==
    ASSUME IInv, NEW t \in Timelocks, NEW caller, NEW attached, NEW request,
           Escrow(t, caller, attached, request), IInv',
           request.predecessor_id \in RequestIds \cup {None},
           assert_predecessor(t, request.predecessor_id)
    PROVE  \E id \in RequestIds, due \in 0 .. MaxTime + MAX_DELAY_NS, after \in RequestIds \cup {None} :
               Queue!Submit(t, id, due, after)
  <1>1. PICK id : id = next_request_id[t]
    OBVIOUS
  <1>2. /\ id \in RequestIds /\ scheduled[t][id] = None
        /\ \A x \in RequestIds : scheduled[t][x] # None <=> x < id
        /\ scheduled'[t][id].request = request
        /\ scheduled'[t][id].at = block_timestamp /\ scheduled'[t][id].delay = delay_ns[t]
        /\ \A s \in Timelocks, x \in RequestIds : s # t \/ x # id => scheduled'[s][x] = scheduled[s][x]
    BY <1>1, EscrowFrame
  <1>3. UNCHANGED <<executed, cancelled, delivered, block_timestamp>>
    BY DEF Escrow
  <1>4. \A s \in Timelocks, x \in RequestIds :
          /\ x \in ExecutedIds(s)' <=> x \in ExecutedIds(s)
          /\ x \in CancelledIds(s)' <=> x \in CancelledIds(s)
          /\ Failed(s, x)' <=> Failed(s, x)
          /\ Succeeded(s, x)' <=> Succeeded(s, x)
    BY <1>3 DEF ExecutedIds, CancelledIds, Failed, Succeeded
  <1> DEFINE due   == block_timestamp + delay_ns[t]
             after == request.predecessor_id
             e     == [due |-> due, after |-> after, state |-> "waiting"]
  <1>5. EntryOf(t, id)' = e
    <2>1. id \notin ExecutedIds(t) \cup CancelledIds(t)
      BY <1>2 DEF IInv, OneFate
    <2>2. State(t, id)' = "waiting"
      BY <1>2, <1>4, <2>1 DEF State
    <2>3. scheduled'[t][id] # None
      <3>1. id < next_request_id'[t]
        <4>1. next_request_id' = [next_request_id EXCEPT ![t] = next_request_id[t] + 1]
          BY DEF Escrow, insert_request
        <4>2. next_request_id \in [Timelocks -> 0 .. MaxRequests]
          BY DEF IInv, TypeOK
        <4>3. next_request_id'[t] = id + 1
          BY <1>1, <4>1, <4>2
        <4> QED
          BY <1>2, <4>3 DEF RequestIds
      <3> QED
        BY <3>1, <1>2 DEF IInv, OneFate
    <2> QED
      BY <1>2, <2>2, <2>3 DEF EntryOf
  <1>6. Entries' = [Entries EXCEPT ![t][id] = e]
    <2>1. \A s \in Timelocks, x \in RequestIds : s # t \/ x # id => EntryOf(s, x)' = EntryOf(s, x)
      BY <1>2, <1>4, EntryUnchanged
    <2> HIDE DEF e
    <2> QED
      BY <1>2, <1>5, <2>1, EntriesExcept
  <1>7. Entries[t][id] = None /\ \A x \in RequestIds : x < id => Entries[t][x] # None
    <2>1. EntryOf(t, id) = None
      BY <1>2 DEF EntryOf
    <2>2. \A x \in RequestIds : x < id => EntryOf(t, x) # None
      BY <1>2, EntryIs
    <2> QED
      BY <1>2, <2>1, <2>2, EntriesAt
  <1>8. due \in 0 .. MaxTime + MAX_DELAY_NS /\ due >= block_timestamp
    <2>1. block_timestamp \in Times /\ delay_ns[t] \in 0 .. MAX_DELAY_NS
      BY DEF IInv, TypeOK
    <2> QED
      BY <2>1, ClockAssumption DEF Times
  <1>9. after # None => Queue!In(t, after, "waiting")
    BY WaitingIsPending DEF assert_predecessor
  <1>10. Queue!Submit(t, id, due, after)
    <2> HIDE DEF due, after
    <2> QED
      BY <1>3, <1>6, <1>7, <1>8, <1>9 DEF Queue!Submit, Queue!Entry
  <1> HIDE DEF due, after
  <1> QED
    BY <1>2, <1>8, <1>10 DEF after

\* A step that moves one entry from one state to another.
LEMMA EntryMoves ==
    ASSUME IInv, IInv', NEW t \in Timelocks, NEW id \in RequestIds, scheduled[t][id] # None,
           UNCHANGED <<scheduled, block_timestamp>>,
           NEW from, State(t, id) = from, NEW to, State(t, id)' = to,
           \A s \in Timelocks, x \in RequestIds : s # t \/ x # id =>
             /\ x \in ExecutedIds(s)' <=> x \in ExecutedIds(s)
             /\ x \in CancelledIds(s)' <=> x \in CancelledIds(s)
             /\ Failed(s, x)' <=> Failed(s, x)
             /\ Succeeded(s, x)' <=> Succeeded(s, x)
    PROVE  Queue!Move(t, id, from, to)
  <1> DEFINE due   == scheduled[t][id].at + scheduled[t][id].delay
             after == scheduled[t][id].request.predecessor_id
             e     == [due |-> due, after |-> after, state |-> to]
  <1>1. EntryOf(t, id) = [due |-> due, after |-> after, state |-> from] /\ EntryOf(t, id) # None
    BY EntryIs
  <1>2. EntryOf(t, id)' = e
    BY DEF EntryOf
  <1>3. Entries' = [Entries EXCEPT ![t][id] = e]
    <2>1. \A s \in Timelocks, x \in RequestIds : s # t \/ x # id => EntryOf(s, x)' = EntryOf(s, x)
      BY EntryUnchanged
    <2> HIDE DEF e
    <2> QED
      BY <1>2, <2>1, EntriesExcept
  <1>4. Entries[t][id] = EntryOf(t, id)
    BY EntriesAt
  <1>5. Entries \in [Timelocks -> [RequestIds -> {EntryOf(s, x) : s \in Timelocks, x \in RequestIds}]]
    BY DEF Entries
  <1>6. [Entries[t][id] EXCEPT !.state = to] = e
    <2> HIDE DEF due, after
    <2> QED
      BY <1>1, <1>4
  <1>7. Entries' = [Entries EXCEPT ![t][id].state = to]
    <2> HIDE DEF e
    <2> QED
      BY <1>3, <1>5, <1>6
  <1>8. Queue!In(t, id, from)
    <2> HIDE DEF due, after
    <2> QED
      BY <1>1, <1>4 DEF Queue!In
  <1> QED
    BY <1>7, <1>8 DEF Queue!Move

\* execute starts an entry that is due and whose predecessor waits no more.
LEMMA ExecuteRuns ==
    ASSUME DeliveryInv, IInv', NEW t \in Timelocks, NEW id \in RequestIds, execute(t, id)
    PROVE  Queue!Run(t, id)
  <1>1. IInv /\ DeliveredOnce
    BY DEF DeliveryInv
  <1>2. PICK n : n = Len(executed[t]) + 1
    OBVIOUS
  <1>3. /\ Pending(t, id) /\ scheduled[t][id] # None
        /\ requests[t][id] = scheduled[t][id].request
        /\ id \notin ExecutedIds(t) \cup CancelledIds(t)
        /\ ExecutedIds(t)' = ExecutedIds(t) \cup {id}
        /\ \A s \in Timelocks : s # t => ExecutedIds(s)' = ExecutedIds(s)
        /\ UNCHANGED <<scheduled, cancelled, delivered, block_timestamp>>
    BY <1>1, <1>2, ExecuteFrame
  <1>4. \A s \in Timelocks, x \in RequestIds :
          /\ x \in CancelledIds(s)' <=> x \in CancelledIds(s)
          /\ Failed(s, x)' <=> Failed(s, x)
          /\ Succeeded(s, x)' <=> Succeeded(s, x)
    BY <1>3 DEF CancelledIds, Failed, Succeeded
  <1>5. ~Failed(t, id) /\ ~Succeeded(t, id)
    <2>1. id \notin DeliveredIds(t)
      BY <1>1, <1>3 DEF DeliveredOnce
    <2>2. \A i \in DOMAIN delivered[t] : delivered[t][i].request_id # id
      BY <2>1 DEF DeliveredIds
    <2> QED
      BY <2>2 DEF Failed, Succeeded
  <1>6. State(t, id) = "waiting" /\ State(t, id)' = "running"
    <2>1. State(t, id) = "waiting"
      BY <1>1, <1>3, StateIs
    <2>2. id \in ExecutedIds(t)' /\ id \notin CancelledIds(t)'
      BY <1>3, <1>4
    <2>3. ~Failed(t, id)' /\ ~Succeeded(t, id)'
      BY <1>4, <1>5
    <2> QED
      BY <2>1, <2>2, <2>3 DEF State
  <1>7. Queue!Move(t, id, "waiting", "running")
    BY <1>1, <1>3, <1>4, <1>6, EntryMoves
  <1> DEFINE after == scheduled[t][id].request.predecessor_id
  <1>8. /\ Entries[t][id].due = scheduled[t][id].at + scheduled[t][id].delay
        /\ Entries[t][id].after = after
        /\ after \in RequestIds \cup {None}
    BY <1>1, <1>3, EntriesAt, EntryIs
  <1>9. block_timestamp >= scheduled[t][id].at + scheduled[t][id].delay
    BY <1>1, <1>3 DEF execute, DelayPassed, IInv, FrozenAtScheduling
  <1>10. after # None => ~Queue!In(t, after, "waiting")
    <2>1. after # id
      <3>1. after # None => after < id
        BY <1>3, Zenon DEF DeliveryInv, ExecutedInOrder
      <3>2. id \in Nat /\ id # None
        BY NoneAssumption DEF RequestIds
      <3> QED
        BY <3>1, <3>2
    <2>2. after # None => ~Pending(t, after)
      BY <1>3, <2>1 DEF execute, PredecessorLeft
    <2> QED
      BY <1>1, <1>8, <2>2, WaitingIsPending
  <1> HIDE DEF after
  <1> QED
    BY <1>7, <1>8, <1>9, <1>10 DEF Queue!Run

\* cancel vetoes a waiting entry.
LEMMA CancelVetoes ==
    ASSUME IInv, IInv', NEW t \in Timelocks, NEW caller, NEW id \in RequestIds, cancel(t, caller, id)
    PROVE  Queue!Veto(t, id)
  <1>1. /\ scheduled[t][id] # None /\ id \notin ExecutedIds(t) \cup CancelledIds(t)
        /\ CancelledIds(t)' = CancelledIds(t) \cup {id}
        /\ \A s \in Timelocks : s # t => CancelledIds(s)' = CancelledIds(s)
        /\ UNCHANGED <<scheduled, executed, delivered, block_timestamp>>
    BY CancelFrame
  <1>2. \A s \in Timelocks, x \in RequestIds :
          /\ x \in ExecutedIds(s)' <=> x \in ExecutedIds(s)
          /\ Failed(s, x)' <=> Failed(s, x)
          /\ Succeeded(s, x)' <=> Succeeded(s, x)
    BY <1>1 DEF ExecutedIds, Failed, Succeeded
  <1>3. State(t, id) = "waiting"
    BY <1>1, StateIs
  <1>4. State(t, id)' = "vetoed"
    <2>1. id \in CancelledIds(t)' /\ id \notin ExecutedIds(t)'
      BY <1>1, <1>2
    <2> QED
      BY <2>1 DEF State
  <1> QED
    BY <1>1, <1>2, <1>3, <1>4, EntryMoves DEF Queue!Veto

\* The batch of a running entry arrives, succeeds or fails, and ends it.
LEMMA ReceiveEnds ==
    ASSUME DeliveryInv, IInv', NEW b \in batches, NEW ok \in BOOLEAN, Receive(b, ok),
           UNCHANGED <<scheduled, executed, cancelled, block_timestamp>>
    PROVE  Queue!End(b.from, b.request_id)
  <1>1. IInv /\ DeliveredOnce
    BY DEF DeliveryInv
  <1>2. PICK n : n = Len(delivered[b.from]) + 1
    OBVIOUS
  <1>3. /\ b.from \in Timelocks /\ b.request_id \in RequestIds
        /\ b.request_id \in ExecutedIds(b.from)
        /\ scheduled[b.from][b.request_id] # None
    BY <1>1, BatchExecuted
  <1>4. PICK t \in Timelocks, id \in RequestIds : t = b.from /\ id = b.request_id
    BY <1>3
  <1>5. /\ n \in Nat \ {0} /\ DOMAIN delivered[t] = 1 .. n - 1 /\ DOMAIN delivered'[t] = 1 .. n
        /\ delivered'[t][n] = [request_id |-> id, ok |-> ok]
        /\ \A i \in 1 .. n - 1 : delivered'[t][i] = delivered[t][i]
        /\ \A s \in Timelocks : s # t => delivered'[s] = delivered[s]
    <2>1. DeliveredAs(b, ok, n)
      BY <1>1, <1>2, ReceiveFrame
    <2> QED
      BY <2>1, <1>4 DEF DeliveredAs
  <1>6. \A s \in Timelocks, x \in RequestIds :
          /\ x \in ExecutedIds(s)' <=> x \in ExecutedIds(s)
          /\ x \in CancelledIds(s)' <=> x \in CancelledIds(s)
    BY DEF ExecutedIds, CancelledIds
  <1>7. \A s \in Timelocks, x \in RequestIds : s # t \/ x # id =>
          /\ Failed(s, x)' <=> Failed(s, x)
          /\ Succeeded(s, x)' <=> Succeeded(s, x)
    <2> SUFFICES ASSUME NEW s \in Timelocks, NEW x \in RequestIds, s # t \/ x # id, NEW y \in BOOLEAN
                 PROVE  (\E i \in DOMAIN delivered'[s] : delivered'[s][i] = [request_id |-> x, ok |-> y])
                         <=> \E i \in DOMAIN delivered[s] : delivered[s][i] = [request_id |-> x, ok |-> y]
      BY DEF Failed, Succeeded
    <2>1. CASE s # t
      BY <2>1, <1>5
    <2>2. CASE s = t
      <3>1. delivered'[t][n] # [request_id |-> x, ok |-> y]
        BY <2>2, <1>5
      <3>2. \A i \in 1 .. n : i \in 1 .. n - 1 \/ i = n
        BY <1>5
      <3>3. \A i \in 1 .. n - 1 : i \in 1 .. n
        BY <1>5
      <3> QED
        BY <2>2, <3>1, <3>2, <3>3, <1>5
    <2> QED
      BY <2>1, <2>2
  <1>8. \A i \in DOMAIN delivered[t] : delivered[t][i].request_id # id
    BY <1>1, <1>4 DEF DeliveredOnce, DeliveredIds
  <1>9. State(t, id) = "running"
    <2>1. ~Failed(t, id) /\ ~Succeeded(t, id)
      BY <1>8 DEF Failed, Succeeded
    <2> QED
      BY <2>1, <1>1, <1>3, <1>4, StateIs
  <1>10. id \in ExecutedIds(t)' /\ id \notin CancelledIds(t)'
    <2>1. id \notin CancelledIds(t)
      BY <1>1, <1>3, <1>4 DEF IInv, OneFate
    <2> QED
      BY <2>1, <1>3, <1>4, <1>6
  <1>11. CASE ok
    <2>1. n \in DOMAIN delivered'[t]
      BY <1>5
    <2>2. Succeeded(t, id)'
      BY <1>5, <1>11, <2>1 DEF Succeeded
    <2>3. ~Failed(t, id)'
      <3>1. \A i \in 1 .. n : i \in 1 .. n - 1 \/ i = n
        BY <1>5
      <3>2. \A i \in 1 .. n - 1 : delivered'[t][i].request_id # id
        BY <1>5, <1>8
      <3>3. delivered'[t][n].ok = TRUE
        BY <1>5, <1>11
      <3> QED
        BY <3>1, <3>2, <3>3, <1>5 DEF Failed
    <2>4. State(t, id)' = "done"
      BY <2>2, <2>3, <1>10 DEF State
    <2>5. Queue!Move(t, id, "running", "done")
      BY <2>4, <1>1, <1>3, <1>4, <1>6, <1>7, <1>9, EntryMoves
    <2> QED
      BY <2>5, <1>4 DEF Queue!End
  <1>12. CASE ~ok
    <2>1. n \in DOMAIN delivered'[t] /\ ok = FALSE
      BY <1>5, <1>12
    <2>2. Failed(t, id)'
      BY <1>5, <2>1 DEF Failed
    <2>3. State(t, id)' = "failed"
      BY <2>2, <1>10 DEF State
    <2>4. Queue!Move(t, id, "running", "failed")
      BY <2>3, <1>1, <1>3, <1>4, <1>6, <1>7, <1>9, EntryMoves
    <2> QED
      BY <2>4, <1>4 DEF Queue!End
  <1> QED
    BY <1>11, <1>12

\* No other step touches an entry.
LEMMA EntriesUntouched ==
    ASSUME UNCHANGED <<scheduled, executed, cancelled, delivered>>
    PROVE  UNCHANGED Entries
  <1>1. ASSUME NEW t \in Timelocks, NEW id \in RequestIds PROVE EntryOf(t, id)' = EntryOf(t, id)
    <2>1. /\ id \in ExecutedIds(t)' <=> id \in ExecutedIds(t)
          /\ id \in CancelledIds(t)' <=> id \in CancelledIds(t)
          /\ Failed(t, id)' <=> Failed(t, id)
          /\ Succeeded(t, id)' <=> Succeeded(t, id)
      BY DEF ExecutedIds, CancelledIds, Failed, Succeeded
    <2> QED
      BY <2>1, EntryUnchanged
  <1> QED
    BY <1>1 DEF Entries

\* Every step of the timelocks is a step of the abstract queues, or none.
LEMMA StepImplements ==
    ASSUME DeliveryInv, [Next]_vars
    PROVE  [Queue!Next]_<<block_timestamp, Entries>>
  <1>1. IInv /\ IInv'
    BY NextIInv DEF DeliveryInv
  <1>2. ASSUME NEW t \in Timelocks, NEW caller \in Daos,
               NEW predecessor_id \in RequestIds \cup {None}, NEW attached \in Deposits,
               \/ \E a \in ScheduleArgs : schedule(t, caller, a, predecessor_id, attached)
               \/ \E p \in ProposalArgs : schedule_proposal(t, caller, p, predecessor_id, attached)
        PROVE  Queue!Next
    <2>1. assert_predecessor(t, predecessor_id)
      BY <1>2 DEF schedule, schedule_proposal
    <2>2. PICK request : /\ request.predecessor_id = predecessor_id
                         /\ Escrow(t, caller, attached, request)
      <3>1. ASSUME NEW a \in ScheduleArgs, schedule(t, caller, a, predecessor_id, attached)
            PROVE  \E request : /\ request.predecessor_id = predecessor_id
                                /\ Escrow(t, caller, attached, request)
        BY <3>1 DEF schedule
      <3>2. ASSUME NEW p \in ProposalArgs, schedule_proposal(t, caller, p, predecessor_id, attached)
            PROVE  \E request : /\ request.predecessor_id = predecessor_id
                                /\ Escrow(t, caller, attached, request)
        BY <3>2 DEF schedule_proposal
      <3> QED
        BY <1>2, <3>1, <3>2
    <2>3. \E id \in RequestIds, due \in 0 .. MaxTime + MAX_DELAY_NS, after \in RequestIds \cup {None} :
              Queue!Submit(t, id, due, after)
      BY <2>1, <2>2, <1>1, EscrowSubmits
    <2> QED
      BY <2>3 DEF Queue!Next
  <1>3. ASSUME NEW t \in Timelocks, NEW id \in RequestIds, execute(t, id)
        PROVE  Queue!Next
    <2>1. Queue!Run(t, id)
      BY <1>1, <1>3, ExecuteRuns
    <2> QED
      BY <2>1 DEF Queue!Next
  <1>4. ASSUME NEW t \in Timelocks, NEW caller \in Users, NEW id \in RequestIds,
               cancel(t, caller, id)
        PROVE  Queue!Next
    <2>1. Queue!Veto(t, id)
      BY <1>1, <1>4, CancelVetoes
    <2> QED
      BY <2>1 DEF Queue!Next
  <1>5. ASSUME NEW b \in batches,
               ReceiveConfig(b) \/ ReceiveProposal(b) \/ ReceiveOther(b) \/ BatchFails(b)
        PROVE  Queue!Next
    <2>1. UNCHANGED <<scheduled, executed, cancelled, block_timestamp>>
      BY <1>5 DEF ReceiveConfig, ReceiveProposal, ReceiveOther, BatchFails
    <2>2. Receive(b, TRUE) \/ Receive(b, FALSE)
      BY <1>5 DEF ReceiveConfig, ReceiveProposal, ReceiveOther, BatchFails
    <2>3. Queue!End(b.from, b.request_id)
      BY <2>1, <2>2, <1>1, ReceiveEnds
    <2>4. b.from \in Timelocks /\ b.request_id \in RequestIds
      BY <1>1, BatchExecuted
    <2> QED
      BY <2>3, <2>4 DEF Queue!Next
  <1>6. ASSUME Tick
        PROVE  Queue!Next
    <2>1. UNCHANGED Entries
      BY <1>6, EntriesUntouched DEF Tick, history
    <2> QED
      BY <1>6, <2>1 DEF Tick, Queue!Advance, Queue!Next
  <1>7. ASSUME \/ \E t \in Timelocks, caller \in Daos \cup Users, call \in SetterCalls :
                    CallSetter(t, caller, call)
               \/ \E c \in callbacks : on_proposal_added(c)
               \/ \E v \in votes : ReceiveVote(v)
               \/ \E r \in refunds : ReceiveRefund(r)
               \/ \E p \in ProposalArgs : OtherProposal(p.dao_id, p.kind)
               \/ UNCHANGED vars
        PROVE  UNCHANGED <<block_timestamp, Entries>>
    <2>1. UNCHANGED <<scheduled, executed, cancelled, delivered, block_timestamp>>
      BY <1>7 DEF CallSetter, on_proposal_added, ReceiveVote, ReceiveRefund, OtherProposal, vars,
                  queue, history
    <2> QED
      BY <2>1, EntriesUntouched
  <1> QED
    BY <1>2, <1>3, <1>4, <1>5, <1>6, <1>7 DEF Next

\* Deployment maps to empty queues.
LEMMA InitImplements == Init => Queue!Init
  <1> SUFFICES ASSUME Init PROVE Queue!Init
    OBVIOUS
  <1>1. \A t \in Timelocks, id \in RequestIds : EntryOf(t, id) = None
    BY DEF Init, EntryOf
  <1>2. Entries = [t \in Timelocks |-> [id \in RequestIds |-> None]]
    BY <1>1 DEF Entries
  <1> QED
    BY <1>2 DEF Init, Queue!Init

\* Every timelock, whatever is reconfigured, refunded, bounced or delayed
\* meanwhile, behaves as the abstract queue: nothing runs early, twice, after a
\* veto or while its predecessor waits (lib.rs schedule, execute, cancel).
THEOREM QueueRefinementHolds == Spec => ImplementsVetoQueue
  <1>1. DeliveryInv /\ [Next]_vars => [Queue!Next]_<<block_timestamp, Entries>>
    BY StepImplements
  <1> QED
    BY <1>1, InitImplements, DeliveryInvariance, PTL DEF Spec, ImplementsVetoQueue, Queue!Spec
============================================================================
