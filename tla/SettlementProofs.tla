------------------------- MODULE SettlementProofs -------------------------
(***************************************************************************)
(* Where the money and the votes go, for every value of the constants: a   *)
(* timelock holds exactly what it owes, a refund reaches the DAO that paid *)
(* the deposit, and the approving vote is cast on the request's own        *)
(* proposal.  All three follow the deposit from schedule to its end: into  *)
(* the queue, onto the batch, and from a failed add_proposal to the        *)
(* callback that sends the bond back.                                      *)
(***************************************************************************)
EXTENDS DaoTimelockProofs

\* The deposit escrowed at scheduling is what execute will attach, and comes
\* from the account that a refund goes to (lib.rs schedule, schedule_proposal).
FundedAtScheduling ==
    \A t \in Timelocks, id \in RequestIds :
        scheduled[t][id] # None =>
          LET s == scheduled[t][id]
          IN  s.by = s.request.funder_id /\ s.deposit = total_deposit(s.request)

\* A batch carries the deposit of its request.
BatchesFunded == \A b \in batches : b.deposit = total_deposit(b.request)

\* A callback knows the funder, the bond and the kind of its request; its
\* result is the proposal that request added, or the request has failed.
CallbackFacts(c) ==
    LET s == scheduled[c.from][c.request_id]
    IN  /\ s # None /\ s.request.approve # None
        /\ c.funder_id = s.by /\ c.bond = s.deposit /\ c.kind = s.request.approve.kind
        /\ c.request_id \in DeliveredIds(c.from)
        /\ c.result = None => Failed(c.from, c.request_id)
        /\ c.result # None =>
             /\ c.result \in DOMAIN proposals[c.dao_id]
             /\ proposals[c.dao_id][c.result].origin = <<c.from, c.request_id>>
             /\ ToJson(proposals[c.dao_id][c.result].kind) = c.kind

CallbacksMatch == IsFiniteSet(callbacks) /\ \A c \in callbacks : CallbackFacts(c)

VotesScheduled == \A v \in votes : scheduled[v.from][v.request_id] # None

\* The inductive invariant behind the settlement of requests.
SettlementInv ==
    /\ DeliveryInv
    /\ FundedAtScheduling /\ BatchesFunded /\ CallbacksMatch /\ VotesScheduled
    /\ VoteOnOwnProposal /\ RefundsReachFunder /\ EscrowExact

-----------------------------------------------------------------------------
(* Sums *)

\* The deposit of the one action of a proposal request.
LEMMA BondIsDeposit ==
    ASSUME NEW p \in ProposalArgs
    PROVE  sum_deposits(<<AddProposalCall(p)>>) = p.proposal_bond
  <1> DEFINE bond == p.proposal_bond
             actions == <<AddProposalCall(p)>>
  <1>1. bond \in 0 .. U128_MAX
    BY ArgsAssumption
  <1>2. DOMAIN actions = 1 .. 1 /\ \A i \in 1 .. 1 : actions[i].deposit = bond
    BY DEF AddProposalCall
  <1>3. PICK f : f = [i \in 1 .. 1 |-> actions[i].deposit]
    OBVIOUS
  <1>4. SumFunctionOnSet(f, 1 .. 1) = bond
    <2>1. f[1] = bond /\ 1 .. 1 = {} \cup {1} /\ bond \in Int
      BY <1>1, <1>2, <1>3, WidthAssumption
    <2>2. SumFunctionOnSet(f, {} \cup {1}) = SumFunctionOnSet(f, {}) + f[1]
      BY <2>1, SumInsert, FS_EmptySet
    <2>3. SumFunctionOnSet(f, {}) = 0
      BY SumEmpty
    <2> QED
      BY <2>1, <2>2, <2>3
  <1> HIDE DEF actions, bond
  <1>5. sum_deposits(actions) = IF SumFunctionOnSet(f, 1 .. 1) > U128_MAX THEN U128_MAX
                                ELSE SumFunctionOnSet(f, 1 .. 1)
    <2>1. \A i \in 1 .. 1 : actions[i].deposit \in Nat
      BY <1>1, <1>2, WidthAssumption
    <2> QED
      BY <1>2, <1>3, <2>1, DepositsAddUp
  <1> QED
    BY <1>1, <1>4, <1>5, WidthAssumption DEF actions, bond

\* The deposits of pending requests.
LEMMA PendingSum ==
    ASSUME IInv, NEW t \in Timelocks
    PROVE  /\ IsFiniteSet(PendingIds(t))
           /\ \A id \in PendingIds(t) : id \in RequestIds /\ scheduled[t][id] # None
                                        /\ scheduled[t][id].deposit \in Nat
           /\ PendingDeposit(t) \in Int
  <1>1. IsFiniteSet(PendingIds(t))
    <2>1. IsFiniteSet(RequestIds)
      BY FS_Interval, BoundAssumption DEF RequestIds
    <2> QED
      BY <2>1, FS_Subset DEF PendingIds
  <1>2. ASSUME NEW id \in PendingIds(t)
        PROVE  id \in RequestIds /\ scheduled[t][id] # None /\ scheduled[t][id].deposit \in Nat
    <2>1. id \in RequestIds /\ scheduled[t][id] # None
      BY DEF PendingIds, IInv, OneFate
    <2>2. scheduled[t][id] \in Scheduled
      BY <2>1 DEF IInv, TypeOK
    <2> QED
      BY <2>1, <2>2 DEF Scheduled
  <1> DEFINE f == [id \in PendingIds(t) |-> scheduled[t][id].deposit]
  <1>3. \A id \in PendingIds(t) : f[id] \in Int
    BY <1>2
  <1> HIDE DEF f
  <1>4. SumFunctionOnSet(f, PendingIds(t)) \in Int
    BY <1>1, <1>3, SumType
  <1> QED
    BY <1>1, <1>2, <1>4 DEF PendingDeposit, f

\* Requests that stay pending with their deposits keep the sum.
LEMMA PendingSame ==
    ASSUME IInv, NEW t \in Timelocks,
           \A id \in RequestIds : requests'[t][id] = requests[t][id],
           \A id \in PendingIds(t) : scheduled'[t][id] = scheduled[t][id]
    PROVE  PendingDeposit(t)' = PendingDeposit(t)
  <1>1. PendingIds(t)' = PendingIds(t)
    BY DEF PendingIds, Pending
  <1> QED
    BY <1>1 DEF PendingDeposit

\* execute and cancel take the deposit of one request out of the sum.
LEMMA PendingRemoved ==
    ASSUME IInv, NEW t \in Timelocks, NEW id \in RequestIds, Pending(t, id),
           requests'[t][id] = None,
           \A x \in RequestIds : x # id => requests'[t][x] = requests[t][x],
           UNCHANGED scheduled
    PROVE  PendingDeposit(t)' = PendingDeposit(t) - scheduled[t][id].deposit
  <1> DEFINE S == PendingIds(t)
             f == [x \in S |-> scheduled[t][x].deposit]
             g == [x \in S \ {id} |-> scheduled[t][x].deposit]
  <1>1. PendingIds(t)' = S \ {id} /\ id \in S
    BY DEF PendingIds, Pending
  <1>2. IsFiniteSet(S) /\ \A x \in S : f[x] \in Int
    BY PendingSum
  <1>3. \A x \in S \ {id} : g[x] = f[x]
    OBVIOUS
  <1>4. PendingDeposit(t)' = SumFunctionOnSet(g, S \ {id}) /\ PendingDeposit(t) = SumFunctionOnSet(f, S)
    BY <1>1 DEF PendingDeposit
  <1>5. f[id] = scheduled[t][id].deposit /\ f[id] \in Int
    BY <1>1, <1>2
  <1> HIDE DEF S, f, g
  <1> QED
    BY <1>1, <1>2, <1>3, <1>4, <1>5, SumShrinks

\* schedule and schedule_proposal add the deposit of one request.
LEMMA PendingAdded ==
    ASSUME IInv, NEW t \in Timelocks, NEW id \in RequestIds, requests[t][id] = None,
           requests'[t][id] # None, scheduled'[t][id].deposit \in Nat,
           \A x \in RequestIds : x # id => /\ requests'[t][x] = requests[t][x]
                                           /\ scheduled'[t][x] = scheduled[t][x]
    PROVE  PendingDeposit(t)' = PendingDeposit(t) + scheduled'[t][id].deposit
  <1> DEFINE S == PendingIds(t)
             f == [x \in S |-> scheduled[t][x].deposit]
             g == [x \in S \cup {id} |-> scheduled'[t][x].deposit]
  <1>1. PendingIds(t)' = S \cup {id} /\ id \notin S
    BY DEF PendingIds, Pending
  <1>2. IsFiniteSet(S) /\ (\A x \in S : f[x] \in Int) /\ \A x \in S : x \in RequestIds /\ x # id
    BY <1>1, PendingSum
  <1>3. \A x \in S : g[x] = f[x]
    BY <1>2
  <1>4. PendingDeposit(t)' = SumFunctionOnSet(g, S \cup {id}) /\ PendingDeposit(t) = SumFunctionOnSet(f, S)
    BY <1>1 DEF PendingDeposit
  <1>5. g[id] = scheduled'[t][id].deposit
    BY <1>1
  <1> HIDE DEF S, f, g
  <1> QED
    BY <1>1, <1>2, <1>3, <1>4, <1>5, SumGrows

\* The bonds that callbacks owe.
LEMMA OwedSum ==
    ASSUME IInv, IsFiniteSet(callbacks), NEW t \in Timelocks
    PROVE  /\ IsFiniteSet(Owing(t))
           /\ \A c \in Owing(t) : c.bond \in Nat
           /\ OwedBonds(t) \in Int
  <1>1. IsFiniteSet(Owing(t))
    BY FS_Subset DEF Owing
  <1>2. \A c \in Owing(t) : c.bond \in Nat
    BY DEF Owing, IInv, TypeOK
  <1> DEFINE f == [c \in Owing(t) |-> c.bond]
  <1>3. \A c \in Owing(t) : f[c] \in Int
    BY <1>2
  <1> HIDE DEF f
  <1>4. SumFunctionOnSet(f, Owing(t)) \in Int
    BY <1>1, <1>3, SumType
  <1> QED
    BY <1>1, <1>2, <1>4 DEF OwedBonds, f

\* Where no callback comes or goes nothing more or less is owed.
LEMMA OwedSame ==
    ASSUME NEW t, Owing(t)' = Owing(t)
    PROVE  OwedBonds(t)' = OwedBonds(t)
  BY DEF OwedBonds

\* A callback that refunds takes its bond out of the sum.
LEMMA OwedRemoved ==
    ASSUME IInv, IsFiniteSet(callbacks), NEW t \in Timelocks, NEW c \in Owing(t),
           Owing(t)' = Owing(t) \ {c}
    PROVE  OwedBonds(t)' = OwedBonds(t) - c.bond
  <1> DEFINE S == Owing(t)
             f == [x \in S |-> x.bond]
             g == [x \in S \ {c} |-> x.bond]
  <1>1. IsFiniteSet(S) /\ \A x \in S : f[x] \in Int
    BY OwedSum
  <1>2. \A x \in S \ {c} : g[x] = f[x]
    OBVIOUS
  <1>3. OwedBonds(t)' = SumFunctionOnSet(g, S \ {c}) /\ OwedBonds(t) = SumFunctionOnSet(f, S)
    BY DEF OwedBonds
  <1>4. f[c] = c.bond
    OBVIOUS
  <1>5. c \in S
    OBVIOUS
  <1> HIDE DEF S, f, g
  <1> QED
    BY <1>1, <1>2, <1>3, <1>4, <1>5, SumShrinks

\* A failed add_proposal adds its bond.
LEMMA OwedAdded ==
    ASSUME IInv, IsFiniteSet(callbacks), NEW t \in Timelocks, NEW c, c \notin Owing(t),
           c.bond \in Nat, Owing(t)' = Owing(t) \cup {c}
    PROVE  OwedBonds(t)' = OwedBonds(t) + c.bond
  <1> DEFINE S == Owing(t)
             f == [x \in S |-> x.bond]
             g == [x \in S \cup {c} |-> x.bond]
  <1>1. IsFiniteSet(S) /\ \A x \in S : f[x] \in Int
    BY OwedSum
  <1>2. \A x \in S : g[x] = f[x]
    OBVIOUS
  <1>3. OwedBonds(t)' = SumFunctionOnSet(g, S \cup {c}) /\ OwedBonds(t) = SumFunctionOnSet(f, S)
    BY DEF OwedBonds
  <1>4. g[c] = c.bond
    OBVIOUS
  <1>5. c \notin S
    OBVIOUS
  <1> HIDE DEF S, f, g
  <1> QED
    BY <1>1, <1>2, <1>3, <1>4, <1>5, SumGrows

-----------------------------------------------------------------------------
(* What every step keeps *)

VoteFacts(v) ==
    /\ v.id \in DOMAIN proposals[v.dao_id]
    /\ proposals[v.dao_id][v.id].origin = <<v.from, v.request_id>>
    /\ proposals[v.dao_id][v.id].kind = v.kind
    /\ scheduled[v.from][v.request_id] # None
    /\ ToJson(v.kind) = scheduled[v.from][v.request_id].request.approve.kind

RefundFacts(r) ==
    LET s == scheduled[r.from][r.request_id]
    IN  /\ r.to = s.by
        /\ r.amount = s.deposit
        /\ \/ r.request_id \in CancelledIds(r.from)
           \/ s.request.approve # None /\ Failed(r.from, r.request_id)

Escrowed(t) == balance[t] = InitialBalance[t] + PendingDeposit(t) + OwedBonds(t) + stranded[t]

\* The invariant, element by element.
LEMMA SettlementParts ==
    SettlementInv <=>
        /\ DeliveryInv /\ FundedAtScheduling /\ BatchesFunded
        /\ IsFiniteSet(callbacks) /\ \A c \in callbacks : CallbackFacts(c)
        /\ \A v \in votes : VoteFacts(v)
        /\ \A r \in refunds : RefundFacts(r)
        /\ \A t \in Timelocks : Escrowed(t)
  <1>1. VotesScheduled /\ VoteOnOwnProposal <=> \A v \in votes : VoteFacts(v)
    BY DEF VotesScheduled, VoteOnOwnProposal, VoteFacts
  <1>2. RefundsReachFunder <=> \A r \in refunds : RefundFacts(r)
    BY DEF RefundsReachFunder, RefundFacts
  <1>3. EscrowExact <=> \A t \in Timelocks : Escrowed(t)
    BY DEF EscrowExact, Escrowed
  <1> QED
    BY <1>1, <1>2, <1>3 DEF SettlementInv, CallbacksMatch

\* A proposal keeps its id, its origin and its kind.
ProposalsGrow ==
    \A d \in Daos : \A i \in DOMAIN proposals[d] :
        /\ i \in DOMAIN proposals'[d]
        /\ proposals'[d][i].origin = proposals[d][i].origin
        /\ proposals'[d][i].kind = proposals[d][i].kind

\* A step never takes back a schedule event, a delivery, a cancellation or a proposal.
HistoryGrows ==
    /\ ProposalsGrow
    /\ \A t \in Timelocks, id \in RequestIds :
         /\ scheduled[t][id] # None => scheduled'[t][id] = scheduled[t][id]
         /\ id \in DeliveredIds(t) => id \in DeliveredIds(t)'
         /\ id \in CancelledIds(t) => id \in CancelledIds(t)'
         /\ Failed(t, id) => Failed(t, id)'

\* A refund is for a request that was scheduled.
LEMMA RefundScheduled ==
    ASSUME SettlementInv, NEW r \in refunds
    PROVE  scheduled[r.from][r.request_id] # None
  <1>1. IInv /\ DeliveredOnce /\ RefundFacts(r)
    BY SettlementParts DEF DeliveryInv
  <1>2. r.from \in Timelocks
    BY <1>1 DEF IInv, TypeOK
  <1>3. CASE r.request_id \in CancelledIds(r.from)
    BY <1>1, <1>2, <1>3 DEF IInv, OneFate
  <1>4. CASE Failed(r.from, r.request_id)
    <2>1. r.request_id \in DeliveredIds(r.from)
      BY <1>4 DEF Failed, DeliveredIds
    <2>2. r.request_id \in ExecutedIds(r.from)
      BY <2>1, <1>1, <1>2 DEF DeliveredOnce
    <2> QED
      BY <2>2, <1>1, <1>2 DEF IInv, OneFate
  <1> QED
    BY <1>1, <1>3, <1>4 DEF RefundFacts

\* What holds of a receipt in flight goes on holding.
LEMMA FactsKept ==
    ASSUME SettlementInv, HistoryGrows
    PROVE  /\ \A c \in callbacks : CallbackFacts(c)'
           /\ \A v \in votes : VoteFacts(v)'
           /\ \A r \in refunds : RefundFacts(r)'
  <1>1. ASSUME NEW c \in callbacks PROVE CallbackFacts(c)'
    <2>1. CallbackFacts(c)
      BY SettlementParts
    <2>2. c.from \in Timelocks /\ c.request_id \in RequestIds /\ c.dao_id \in Daos
      BY DEF SettlementInv, DeliveryInv, IInv, TypeOK
    <2> QED
      BY <2>1, <2>2, Zenon DEF CallbackFacts, HistoryGrows, ProposalsGrow
  <1>2. ASSUME NEW v \in votes PROVE VoteFacts(v)'
    <2>1. VoteFacts(v)
      BY SettlementParts
    <2>2. v.from \in Timelocks /\ v.request_id \in RequestIds /\ v.dao_id \in Daos
      BY DEF SettlementInv, DeliveryInv, IInv, TypeOK
    <2> QED
      BY <2>1, <2>2 DEF VoteFacts, HistoryGrows, ProposalsGrow
  <1>3. ASSUME NEW r \in refunds PROVE RefundFacts(r)'
    <2>1. RefundFacts(r)
      BY SettlementParts
    <2>2. r.from \in Timelocks /\ r.request_id \in RequestIds
      BY DEF SettlementInv, DeliveryInv, IInv, TypeOK
    <2>3. scheduled[r.from][r.request_id] # None
      BY RefundScheduled
    <2> QED
      BY <2>1, <2>2, <2>3 DEF RefundFacts, HistoryGrows, ProposalsGrow
  <1> QED
    BY <1>1, <1>2, <1>3

\* A step keeps the invariant when it does for what it adds.
LEMMA Settled ==
    ASSUME SettlementInv, DeliveryInv', HistoryGrows,
           FundedAtScheduling', BatchesFunded', IsFiniteSet(callbacks'),
           \A c \in callbacks' : c \in callbacks \/ CallbackFacts(c)',
           \A v \in votes' : v \in votes \/ VoteFacts(v)',
           \A r \in refunds' : r \in refunds \/ RefundFacts(r)',
           \A t \in Timelocks : Escrowed(t)'
    PROVE  SettlementInv'
  <1>1. /\ \A c \in callbacks' : CallbackFacts(c)'
        /\ \A v \in votes' : VoteFacts(v)'
        /\ \A r \in refunds' : RefundFacts(r)'
    BY FactsKept
  <1>2. VotesScheduled' /\ VoteOnOwnProposal'
    BY <1>1 DEF VotesScheduled, VoteOnOwnProposal, VoteFacts
  <1>3. RefundsReachFunder'
    BY <1>1 DEF RefundsReachFunder, RefundFacts
  <1>4. EscrowExact'
    BY DEF EscrowExact, Escrowed
  <1> QED
    BY <1>1, <1>2, <1>3, <1>4 DEF SettlementInv, CallbacksMatch

\* A timelock whose balance, queue, callbacks and losses a step leaves alone.
LEMMA EscrowedKept ==
    ASSUME SettlementInv, NEW t \in Timelocks,
           balance'[t] = balance[t], stranded'[t] = stranded[t], Owing(t)' = Owing(t),
           \A id \in RequestIds : requests'[t][id] = requests[t][id],
           \A id \in RequestIds : scheduled[t][id] # None => scheduled'[t][id] = scheduled[t][id]
    PROVE  Escrowed(t)'
  <1>1. IInv /\ Escrowed(t)
    BY SettlementParts DEF DeliveryInv
  <1>2. PendingDeposit(t)' = PendingDeposit(t)
    BY <1>1, PendingSum, PendingSame
  <1>3. OwedBonds(t)' = OwedBonds(t)
    BY OwedSame
  <1> QED
    BY <1>1, <1>2, <1>3 DEF Escrowed

\* The amounts in the balance equation are numbers.
LEMMA EscrowTypes ==
    ASSUME SettlementInv, NEW t \in Timelocks
    PROVE  /\ balance[t] \in Int /\ InitialBalance[t] \in Int /\ stranded[t] \in Nat
           /\ PendingDeposit(t) \in Int /\ OwedBonds(t) \in Int
  <1>1. IInv /\ IsFiniteSet(callbacks)
    BY SettlementParts DEF DeliveryInv
  <1>2. balance[t] \in Int /\ InitialBalance[t] \in Int /\ stranded[t] \in Nat
    BY <1>1, DeployAssumption DEF IInv, TypeOK, Accounts
  <1> QED
    BY <1>1, <1>2, PendingSum, OwedSum

-----------------------------------------------------------------------------
(* The steps *)

\* schedule and schedule_proposal: the deposit moves from the DAO into escrow.
LEMMA EscrowSettles ==
    ASSUME SettlementInv, DeliveryInv', NEW t \in Timelocks, NEW caller \in Daos,
           NEW attached \in Nat, NEW request, Escrow(t, caller, attached, request),
           request.funder_id = caller, total_deposit(request) = attached
    PROVE  SettlementInv'
  <1>1. IInv /\ IInv' /\ IsFiniteSet(callbacks)
    BY SettlementParts DEF DeliveryInv
  <1>2. PICK id : id = next_request_id[t]
    OBVIOUS
  <1>3. /\ id \in RequestIds /\ scheduled[t][id] = None /\ requests[t][id] = None
        /\ scheduled'[t][id].request = request
        /\ scheduled'[t][id].by = caller /\ scheduled'[t][id].deposit = attached
        /\ \A s \in Timelocks, x \in RequestIds :
             s # t \/ x # id => /\ requests'[s][x] = requests[s][x]
                               /\ scheduled'[s][x] = scheduled[s][x]
    BY <1>1, <1>2, EscrowFrame
  <1>4. UNCHANGED <<batches, callbacks, votes, refunds, proposals, executed, cancelled, delivered,
                    stranded>>
    BY DEF Escrow
  <1>5. HistoryGrows
    <2>1. \A s \in Timelocks, x \in RequestIds : scheduled[s][x] # None => scheduled'[s][x] = scheduled[s][x]
      BY <1>3
    <2> QED
      BY <2>1, <1>4 DEF HistoryGrows, ProposalsGrow, DeliveredIds, CancelledIds, Failed
  <1>6. FundedAtScheduling'
    <2> SUFFICES ASSUME NEW s \in Timelocks, NEW x \in RequestIds, scheduled'[s][x] # None
                 PROVE  /\ scheduled'[s][x].by = scheduled'[s][x].request.funder_id
                        /\ scheduled'[s][x].deposit = total_deposit(scheduled'[s][x].request)
      BY DEF FundedAtScheduling, total_deposit
    <2>1. CASE s = t /\ x = id
      BY <2>1, <1>3
    <2>2. CASE s # t \/ x # id
      BY <2>2, <1>3 DEF SettlementInv, FundedAtScheduling
    <2> QED
      BY <2>1, <2>2
  <1>7. BatchesFunded'
    BY <1>4 DEF SettlementInv, BatchesFunded, total_deposit
  <1>8. balance' = [balance EXCEPT ![caller] = balance[caller] - attached, ![t] = balance[t] + attached]
    BY AccountAssumption DEF Escrow
  <1>9. /\ balance'[t] = balance[t] + attached
        /\ \A s \in Timelocks : s # t => balance'[s] = balance[s]
    <2>1. t # caller /\ t \in Accounts /\ \A s \in Timelocks : s # caller /\ s \in Accounts
      BY AccountAssumption DEF Accounts
    <2>2. balance \in [Accounts -> Int]
      BY <1>1 DEF IInv, TypeOK
    <2> QED
      BY <1>8, <2>1, <2>2
  <1>10. \A s \in Timelocks : Owing(s)' = Owing(s)
    BY <1>4 DEF Owing
  <1>11. ASSUME NEW s \in Timelocks PROVE Escrowed(s)'
    <2>1. CASE s # t
      BY <2>1, <1>3, <1>4, <1>9, <1>10, EscrowedKept
    <2>2. CASE s = t
      <3>1. requests'[t][id] # None
        <4>1. id < next_request_id'[t]
          <5>1. next_request_id' = [next_request_id EXCEPT ![t] = next_request_id[t] + 1]
            BY DEF Escrow, insert_request
          <5>2. next_request_id \in [Timelocks -> 0 .. MaxRequests]
            BY <1>1 DEF IInv, TypeOK
          <5>3. next_request_id'[t] = id + 1
            BY <1>2, <5>1, <5>2
          <5> QED
            BY <1>3, <5>3 DEF RequestIds
        <4>2. scheduled'[t][id] # None
          BY <4>1, <1>1, <1>3 DEF IInv, OneFate
        <4>3. id \notin ExecutedIds(t) \cup CancelledIds(t)
          BY <1>1, <1>3 DEF IInv, OneFate
        <4>4. ExecutedIds(t)' = ExecutedIds(t) /\ CancelledIds(t)' = CancelledIds(t)
          BY <1>4 DEF ExecutedIds, CancelledIds
        <4> QED
          BY <4>2, <4>3, <4>4, <1>1, <1>3 DEF IInv, OneFate, Pending
      <3>2. PendingDeposit(t)' = PendingDeposit(t) + attached
        BY <3>1, <1>1, <1>3, PendingAdded
      <3>3. OwedBonds(t)' = OwedBonds(t)
        BY <1>10, OwedSame
      <3>4. Escrowed(t)
        BY SettlementParts
      <3> QED
        BY <2>2, <3>2, <3>3, <3>4, <1>4, <1>9, EscrowTypes DEF Escrowed
    <2> QED
      BY <2>1, <2>2
  <1> QED
    BY <1>1, <1>4, <1>5, <1>6, <1>7, <1>11, Settled

\* execute: the deposit leaves with the batch.
LEMMA ExecuteSettles ==
    ASSUME SettlementInv, DeliveryInv', NEW t \in Timelocks, NEW id \in RequestIds, execute(t, id)
    PROVE  SettlementInv'
  <1>1. IInv /\ IInv' /\ IsFiniteSet(callbacks)
    BY SettlementParts DEF DeliveryInv
  <1>2. PICK n : n = Len(executed[t]) + 1
    OBVIOUS
  <1>3. /\ Pending(t, id) /\ scheduled[t][id] # None
        /\ requests[t][id] = scheduled[t][id].request
        /\ requests'[t][id] = None
        /\ \A s \in Timelocks, x \in RequestIds : s # t \/ x # id => requests'[s][x] = requests[s][x]
        /\ UNCHANGED <<scheduled, cancelled, delivered, callbacks, votes, refunds, proposals, stranded>>
    BY <1>1, <1>2, ExecuteFrame
  <1>4. PICK batch : batches' = batches \cup {batch} /\ batch.deposit = total_deposit(batch.request)
    BY <1>1, <1>2, ExecuteFrame
  <1>5. HistoryGrows
    BY <1>3 DEF HistoryGrows, ProposalsGrow, DeliveredIds, CancelledIds, Failed
  <1>6. FundedAtScheduling'
    BY <1>3 DEF SettlementInv, FundedAtScheduling, total_deposit
  <1>7. BatchesFunded'
    BY <1>4 DEF SettlementInv, BatchesFunded, total_deposit
  <1>8. scheduled[t][id].deposit = total_deposit(requests[t][id])
    BY <1>3 DEF SettlementInv, FundedAtScheduling
  <1>9. balance' = [balance EXCEPT ![t] = balance[t] - scheduled[t][id].deposit]
    BY <1>8 DEF execute
  <1>10. /\ balance'[t] = balance[t] - scheduled[t][id].deposit
         /\ \A s \in Timelocks : s # t => balance'[s] = balance[s]
    BY <1>1, <1>9 DEF IInv, TypeOK, Accounts
  <1>11. \A s \in Timelocks : Owing(s)' = Owing(s)
    BY <1>3 DEF Owing
  <1>12. ASSUME NEW s \in Timelocks PROVE Escrowed(s)'
    <2>1. CASE s # t
      BY <2>1, <1>3, <1>10, <1>11, EscrowedKept
    <2>2. CASE s = t
      <3>1. PendingDeposit(t)' = PendingDeposit(t) - scheduled[t][id].deposit
        BY <1>1, <1>3, PendingRemoved
      <3>2. OwedBonds(t)' = OwedBonds(t)
        BY <1>11, OwedSame
      <3>3. Escrowed(t)
        BY SettlementParts
      <3>4. scheduled[t][id].deposit \in Nat
        BY <1>1, <1>3, PendingSum DEF PendingIds
      <3> QED
        BY <2>2, <3>1, <3>2, <3>3, <3>4, <1>3, <1>10, EscrowTypes DEF Escrowed
    <2> QED
      BY <2>1, <2>2
  <1> QED
    BY <1>1, <1>3, <1>5, <1>6, <1>7, <1>12, Settled

\* A transfer sends at most one refund.
LEMMA TransferSends ==
    ASSUME NEW t, NEW id, NEW to, NEW amount, Transfer(t, id, to, amount)
    PROVE  \A r \in refunds' : \/ r \in refunds
                               \/ /\ r.from = t /\ r.request_id = id
                                  /\ r.to = to /\ r.amount = amount
  <1> DEFINE sent == [from |-> t, request_id |-> id, to |-> to, amount |-> amount]
  <1>1. sent.from = t /\ sent.request_id = id /\ sent.to = to /\ sent.amount = amount
    OBVIOUS
  <1>2. refunds' = refunds \cup IF amount = 0 THEN {} ELSE {sent}
    BY DEF Transfer
  <1> HIDE DEF sent
  <1> QED
    BY <1>1, <1>2

\* cancel: the deposit goes back to the DAO that paid it.
LEMMA CancelSettles ==
    ASSUME SettlementInv, DeliveryInv', NEW t \in Timelocks, NEW caller, NEW id \in RequestIds,
           cancel(t, caller, id)
    PROVE  SettlementInv'
  <1>1. IInv /\ IInv' /\ IsFiniteSet(callbacks)
    BY SettlementParts DEF DeliveryInv
  <1>2. /\ Pending(t, id) /\ scheduled[t][id] # None
        /\ requests[t][id] = scheduled[t][id].request
        /\ CancelledIds(t)' = CancelledIds(t) \cup {id}
        /\ \A s \in Timelocks : s # t => CancelledIds(s)' = CancelledIds(s)
        /\ requests'[t][id] = None
        /\ \A s \in Timelocks, x \in RequestIds : s # t \/ x # id => requests'[s][x] = requests[s][x]
        /\ UNCHANGED <<scheduled, executed, delivered, batches, callbacks, votes, proposals, stranded>>
    BY <1>1, CancelFrame
  <1>3. HistoryGrows
    BY <1>2 DEF HistoryGrows, ProposalsGrow, DeliveredIds, Failed
  <1>4. FundedAtScheduling'
    BY <1>2 DEF SettlementInv, FundedAtScheduling, total_deposit
  <1>5. BatchesFunded'
    BY <1>2 DEF SettlementInv, BatchesFunded, total_deposit
  <1>6. /\ scheduled[t][id].deposit = total_deposit(requests[t][id])
        /\ scheduled[t][id].by = requests[t][id].funder_id
    BY <1>2 DEF SettlementInv, FundedAtScheduling
  <1>7. /\ balance' = [balance EXCEPT ![t] = balance[t] - scheduled[t][id].deposit]
        /\ Transfer(t, id, scheduled[t][id].by, scheduled[t][id].deposit)
    BY <1>6 DEF cancel, Funder
  <1>8. \A r \in refunds' : r \in refunds \/ RefundFacts(r)'
    <2> SUFFICES ASSUME NEW r \in refunds', r \notin refunds PROVE RefundFacts(r)'
      OBVIOUS
    <2>1. r.from = t /\ r.request_id = id /\ r.to = scheduled[t][id].by /\ r.amount = scheduled[t][id].deposit
      BY <1>7, TransferSends
    <2> QED
      BY <2>1, <1>2 DEF RefundFacts
  <1>9. /\ balance'[t] = balance[t] - scheduled[t][id].deposit
        /\ \A s \in Timelocks : s # t => balance'[s] = balance[s]
    BY <1>1, <1>7 DEF IInv, TypeOK, Accounts
  <1>10. \A s \in Timelocks : Owing(s)' = Owing(s)
    BY <1>2 DEF Owing
  <1>11. ASSUME NEW s \in Timelocks PROVE Escrowed(s)'
    <2>1. CASE s # t
      BY <2>1, <1>2, <1>9, <1>10, EscrowedKept
    <2>2. CASE s = t
      <3>1. PendingDeposit(t)' = PendingDeposit(t) - scheduled[t][id].deposit
        BY <1>1, <1>2, PendingRemoved
      <3>2. OwedBonds(t)' = OwedBonds(t)
        BY <1>10, OwedSame
      <3>3. Escrowed(t)
        BY SettlementParts
      <3>4. scheduled[t][id].deposit \in Nat
        BY <1>1, <1>2, PendingSum DEF PendingIds
      <3> QED
        BY <2>2, <3>1, <3>2, <3>3, <3>4, <1>2, <1>9, EscrowTypes DEF Escrowed
    <2> QED
      BY <2>1, <2>2
  <1> QED
    BY <1>1, <1>2, <1>3, <1>4, <1>5, <1>8, <1>11, Settled

ProposalRecords ==
    [kind : {p.kind : p \in ProposalArgs}, origin : (Timelocks \X RequestIds) \cup {None},
     approved : BOOLEAN]

\* A proposal that is appended leaves the earlier ones alone.
LEMMA ProposalAppended ==
    ASSUME IInv, NEW d \in Daos, NEW n, n = Len(proposals[d]) + 1,
           NEW e \in ProposalRecords,
           proposals' = [proposals EXCEPT ![d] = Append(proposals[d], e)]
    PROVE  /\ ProposalsGrow
           /\ n \in Nat /\ n \in DOMAIN proposals'[d] /\ proposals'[d][n] = e
  <1>1. proposals \in [Daos -> Seq(ProposalRecords)] /\ e \in ProposalRecords
    BY DEF IInv, TypeOK, ProposalRecords
  <1>2. /\ proposals'[d] = Append(proposals[d], e) /\ proposals[d] \in Seq(ProposalRecords)
        /\ \A x \in Daos : x # d => proposals'[x] = proposals[x]
    BY <1>1
  <1>3. /\ n \in Nat \ {0}
        /\ DOMAIN proposals[d] = 1 .. n - 1 /\ DOMAIN proposals'[d] = 1 .. n
        /\ proposals'[d][n] = e
        /\ \A i \in 1 .. n - 1 : proposals'[d][i] = proposals[d][i]
    BY <1>1, <1>2, AppendAt
  <1>4. n \in 1 .. n /\ \A i \in 1 .. n - 1 : i \in 1 .. n
    BY <1>3
  <1>5. ProposalsGrow
    <2> SUFFICES ASSUME NEW x \in Daos, NEW i \in DOMAIN proposals[x]
                 PROVE  i \in DOMAIN proposals'[x] /\ proposals'[x][i] = proposals[x][i]
      BY DEF ProposalsGrow
    <2> QED
      BY <1>2, <1>3, <1>4
  <1> QED
    BY <1>3, <1>4, <1>5

\* act_proposal changes neither the origin nor the kind of a proposal.
LEMMA VoteKeepsProposals ==
    ASSUME SettlementInv, NEW v \in votes, ReceiveVote(v)
    PROVE  ProposalsGrow
  <1>1. proposals \in [Daos -> Seq(ProposalRecords)] /\ v.dao_id \in Daos
    BY DEF SettlementInv, DeliveryInv, IInv, TypeOK, ProposalRecords
  <1>2. PICK d \in Daos, n \in {v.id} : d = v.dao_id /\ n = v.id
    BY <1>1
  <1>3. n \in DOMAIN proposals[d]
    BY <1>2, SettlementParts DEF VoteFacts
  <1>4. proposals[d][n] \in ProposalRecords
    BY <1>1, <1>3, SeqElement
  <1> DEFINE e == [proposals[d][n] EXCEPT !.approved = TRUE]
  <1>5. e.origin = proposals[d][n].origin /\ e.kind = proposals[d][n].kind
    BY <1>4 DEF ProposalRecords
  <1>6. CASE UNCHANGED proposals
    BY <1>6 DEF ProposalsGrow
  <1>7. CASE proposals' = [proposals EXCEPT ![v.dao_id][v.id].approved = TRUE]
    <2>1. proposals' = [proposals EXCEPT ![d][n] = e]
      BY <1>7, <1>2
    <2> HIDE DEF e
    <2>2. /\ proposals'[d] = [proposals[d] EXCEPT ![n] = e]
          /\ \A x \in Daos : x # d => proposals'[x] = proposals[x]
      BY <2>1, <1>1
    <2>3. /\ DOMAIN proposals'[d] = DOMAIN proposals[d]
          /\ proposals'[d][n] = e
          /\ \A i \in DOMAIN proposals[d] : i # n => proposals'[d][i] = proposals[d][i]
      BY <2>2, <1>3
    <2> QED
      BY <2>2, <2>3, <1>5 DEF ProposalsGrow
  <1> QED
    BY <1>6, <1>7 DEF ReceiveVote

\* A step that moves no money and adds no receipt.
LEMMA SettlementUntouched ==
    ASSUME SettlementInv, DeliveryInv', ProposalsGrow, votes' \subseteq votes,
           UNCHANGED <<scheduled, requests, batches, callbacks, refunds, balance, delivered,
                       cancelled, stranded>>
    PROVE  SettlementInv'
  <1>1. HistoryGrows
    BY DEF HistoryGrows, DeliveredIds, CancelledIds, Failed
  <1>2. FundedAtScheduling' /\ BatchesFunded'
    BY DEF SettlementInv, FundedAtScheduling, BatchesFunded, total_deposit
  <1>3. ASSUME NEW t \in Timelocks PROVE Escrowed(t)'
    <2>1. Owing(t)' = Owing(t)
      BY DEF Owing
    <2> QED
      BY <2>1, EscrowedKept
  <1>4. IsFiniteSet(callbacks')
    BY SettlementParts
  <1> QED
    BY <1>1, <1>2, <1>3, <1>4, Settled

\* A batch that arrives adds one delivery to the history.
LEMMA ReceiveGrows ==
    ASSUME IInv, NEW b \in batches, NEW ok \in BOOLEAN, Receive(b, ok),
           UNCHANGED <<scheduled, cancelled>>, ProposalsGrow
    PROVE  /\ HistoryGrows
           /\ b.request_id \in DeliveredIds(b.from)'
           /\ ok = FALSE => Failed(b.from, b.request_id)'
  <1>1. PICK n : n = Len(delivered[b.from]) + 1
    OBVIOUS
  <1>2. PICK t \in Timelocks : t = b.from
    BY BatchExecuted
  <1>3. /\ n \in Nat \ {0} /\ DOMAIN delivered[t] = 1 .. n - 1 /\ DOMAIN delivered'[t] = 1 .. n
        /\ delivered'[t][n] = [request_id |-> b.request_id, ok |-> ok]
        /\ delivered'[t][n].request_id = b.request_id
        /\ \A i \in 1 .. n - 1 : delivered'[t][i] = delivered[t][i]
        /\ \A s \in Timelocks : s # t => delivered'[s] = delivered[s]
    <2>1. DeliveredAs(b, ok, n)
      BY <1>1, ReceiveFrame
    <2> QED
      BY <2>1, <1>2 DEF DeliveredAs
  <1>4. n \in 1 .. n /\ \A i \in 1 .. n - 1 : i \in 1 .. n
    BY <1>3
  <1>5. \A s \in Timelocks : \A i \in DOMAIN delivered[s] :
          i \in DOMAIN delivered'[s] /\ delivered'[s][i] = delivered[s][i]
    BY <1>3, <1>4
  <1>6. \A s \in Timelocks, id \in RequestIds :
          /\ id \in DeliveredIds(s) => id \in DeliveredIds(s)'
          /\ Failed(s, id) => Failed(s, id)'
    BY <1>5, Zenon DEF DeliveredIds, Failed
  <1>7. HistoryGrows
    BY <1>6 DEF HistoryGrows, CancelledIds
  <1>8. b.request_id \in DeliveredIds(t)' /\ (ok = FALSE => Failed(t, b.request_id)')
    BY <1>3, <1>4 DEF DeliveredIds, Failed
  <1> QED
    BY <1>2, <1>7, <1>8

\* The arrival of a batch keeps the invariant when the receiver's part does.
LEMMA ReceiveSettles ==
    ASSUME SettlementInv, DeliveryInv', NEW b \in batches, NEW ok \in BOOLEAN, Receive(b, ok),
           UNCHANGED <<scheduled, cancelled, votes, refunds>>, ProposalsGrow,
           IsFiniteSet(callbacks'), \A c \in callbacks' : c \in callbacks \/ CallbackFacts(c)',
           \A t \in Timelocks : Escrowed(t)'
    PROVE  SettlementInv'
  <1>1. HistoryGrows
    BY ReceiveGrows DEF SettlementInv, DeliveryInv
  <1>2. FundedAtScheduling'
    BY DEF SettlementInv, FundedAtScheduling, total_deposit
  <1>3. BatchesFunded'
    BY DEF SettlementInv, BatchesFunded, total_deposit, Receive
  <1> QED
    BY <1>1, <1>2, <1>3, Settled

\* The callback of a proposal request is new and carries what its schedule
\* event says.
LEMMA ResolveAdds ==
    ASSUME SettlementInv, NEW b \in batches, NEW result, Resolve(b, result)
    PROVE  /\ IsFiniteSet(callbacks')
           /\ b.request.approve = None => callbacks' = callbacks
           /\ b.request.approve # None => \E c :
                /\ callbacks' = callbacks \cup {c} /\ c \notin callbacks
                /\ c.from = b.from /\ c.request_id = b.request_id
                /\ c.dao_id = b.request.receiver_id /\ c.funder_id = b.request.funder_id
                /\ c.bond = b.deposit /\ c.kind = b.request.approve.kind /\ c.result = result
  <1>1. IsFiniteSet(callbacks) /\ \A c \in callbacks : CallbackFacts(c)
    BY SettlementParts
  <1> DEFINE c == [from |-> b.from, request_id |-> b.request_id, dao_id |-> b.request.receiver_id,
                   funder_id |-> b.request.funder_id, bond |-> b.deposit,
                   kind |-> b.request.approve.kind, result |-> result]
  <1>2. callbacks' = callbacks \cup IF b.request.approve = None THEN {} ELSE {c}
    BY DEF Resolve, Funder
  <1>3. /\ c.from = b.from /\ c.request_id = b.request_id
        /\ c.dao_id = b.request.receiver_id /\ c.funder_id = b.request.funder_id
        /\ c.bond = b.deposit /\ c.kind = b.request.approve.kind /\ c.result = result
    OBVIOUS
  <1> HIDE DEF c
  <1>4. b.request_id \notin DeliveredIds(b.from)
    <2>1. b.from \in Timelocks
      BY BatchExecuted DEF SettlementInv, DeliveryInv
    <2> QED
      BY <2>1 DEF SettlementInv, DeliveryInv, DeliveredOnce
  <1>5. c \notin callbacks
    BY <1>1, <1>3, <1>4 DEF CallbackFacts
  <1>6. IsFiniteSet(callbacks')
    <2>1. IsFiniteSet(callbacks \cup {c})
      BY <1>1, FS_AddElement
    <2>2. callbacks' = callbacks \/ callbacks' = callbacks \cup {c}
      BY <1>2
    <2> QED
      BY <1>1, <2>1, <2>2
  <1> QED
    BY <1>2, <1>3, <1>5, <1>6

\* What a batch says of the schedule event of its request.
LEMMA BatchOrigin ==
    ASSUME SettlementInv, NEW b \in batches
    PROVE  LET s == scheduled[b.from][b.request_id]
           IN  /\ b.from \in Timelocks /\ b.request_id \in RequestIds /\ b.deposit \in Nat
               /\ s # None /\ b.request = s.request
               /\ b.request.funder_id = s.by /\ b.deposit = s.deposit
               /\ b.request.receiver_id \in Accounts
  <1>1. /\ b.from \in Timelocks /\ b.request_id \in RequestIds
        /\ scheduled[b.from][b.request_id] # None
        /\ b.request = scheduled[b.from][b.request_id].request
    BY BatchExecuted DEF SettlementInv, DeliveryInv
  <1>2. b.deposit \in Nat /\ b.request.receiver_id \in Accounts
    BY BatchFacts DEF SettlementInv, DeliveryInv
  <1> QED
    BY <1>1, <1>2 DEF SettlementInv, FundedAtScheduling, BatchesFunded

\* A batch at a timelock or at another contract: no timelock gains by it.
LEMMA PlainBatchSettles ==
    ASSUME SettlementInv, DeliveryInv', NEW b \in batches, ReceiveConfig(b) \/ ReceiveOther(b)
    PROVE  SettlementInv'
  <1>1. /\ Receive(b, TRUE)
        /\ UNCHANGED <<scheduled, cancelled, votes, refunds, requests, callbacks, proposals, stranded>>
    BY DEF ReceiveConfig, ReceiveOther, queue
  <1>2. ProposalsGrow
    BY <1>1 DEF ProposalsGrow
  <1>3. \A t \in Timelocks : balance'[t] = balance[t]
    <2>1. CASE ReceiveConfig(b)
      BY <2>1 DEF ReceiveConfig
    <2>2. CASE ReceiveOther(b)
      <3>1. b.request.receiver_id \notin Timelocks
        BY <2>2 DEF ReceiveOther
      <3>2. balance' = [balance EXCEPT ![b.request.receiver_id] = balance[b.request.receiver_id] + b.deposit]
        BY <2>2 DEF ReceiveOther
      <3>3. balance \in [Accounts -> Int] /\ Timelocks \subseteq Accounts
        BY DEF SettlementInv, DeliveryInv, IInv, TypeOK, Accounts
      <3> QED
        BY <3>1, <3>2, <3>3
    <2> QED
      BY <2>1, <2>2
  <1>4. ASSUME NEW t \in Timelocks PROVE Escrowed(t)'
    <2>1. Owing(t)' = Owing(t)
      BY <1>1 DEF Owing
    <2> QED
      BY <2>1, <1>1, <1>3, EscrowedKept
  <1>5. IsFiniteSet(callbacks')
    BY <1>1, SettlementParts
  <1> QED
    BY <1>1, <1>2, <1>4, <1>5, ReceiveSettles

\* add_proposal: the callback learns the id of the proposal just added.
LEMMA ProposalSettles ==
    ASSUME SettlementInv, DeliveryInv', NEW b \in batches, ReceiveProposal(b)
    PROVE  SettlementInv'
  <1>1. IInv
    BY DEF SettlementInv, DeliveryInv
  <1>2. PICK p \in ProposalArgs : /\ b.request.receiver_id = p.dao_id
                                  /\ b.request.actions = <<AddProposalCall(p)>>
                                  /\ b.request.approve = Approval(p)
    BY <1>1, BatchFacts DEF ReceiveProposal
  <1>3. PICK d \in Daos, n \in {Len(proposals[b.request.receiver_id]) + 1} :
                    d = b.request.receiver_id /\ n = Len(proposals[d]) + 1
    BY <1>2, ArgsAssumption
  <1>4. PICK t \in Timelocks, id \in RequestIds : t = b.from /\ id = b.request_id
    BY BatchOrigin
  <1> DEFINE e == [kind |-> b.request.actions[1].args.kind, origin |-> <<b.from, b.request_id>>,
                   approved |-> FALSE]
  <1>5. /\ Receive(b, TRUE) /\ Resolve(b, n)
        /\ proposals' = [proposals EXCEPT ![d] = Append(proposals[d], e)]
        /\ balance' = [balance EXCEPT ![d] = balance[d] + b.deposit]
        /\ UNCHANGED <<scheduled, cancelled, votes, refunds, requests, stranded>>
    BY <1>3 DEF ReceiveProposal, queue
  <1>6. b.request.actions[1].args.kind = p.kind /\ b.request.approve.kind = ToJson(p.kind)
    BY <1>2 DEF AddProposalCall, Approval
  <1>7. e \in ProposalRecords /\ e.kind = p.kind /\ e.origin = <<t, id>>
    BY <1>4, <1>6 DEF ProposalRecords
  <1> HIDE DEF e
  <1>8. ProposalsGrow /\ n \in Nat /\ n \in DOMAIN proposals'[d] /\ proposals'[d][n] = e
    <2>1. proposals' = [proposals EXCEPT ![d] = Append(proposals[d], e)]
      BY <1>5
    <2>2. n = Len(proposals[d]) + 1
      BY <1>3
    <2>3. e \in ProposalRecords
      BY <1>7
    <2> QED
      BY <2>1, <2>2, <2>3, <1>1, ProposalAppended
  <1>9. PICK c : /\ callbacks' = callbacks \cup {c} /\ c \notin callbacks
                 /\ c.from = t /\ c.request_id = id /\ c.dao_id = d
                 /\ c.funder_id = b.request.funder_id
                 /\ c.bond = b.deposit /\ c.kind = b.request.approve.kind /\ c.result = n
    <2>1. b.request.approve # None
      BY DEF ReceiveProposal
    <2> QED
      BY <2>1, <1>3, <1>4, <1>5, ResolveAdds
  <1>10. IsFiniteSet(callbacks')
    BY <1>5, ResolveAdds
  <1>11. CallbackFacts(c)'
    <2>1. /\ scheduled'[t][id] # None /\ scheduled'[t][id].request.approve # None
          /\ c.funder_id = scheduled'[t][id].by /\ c.bond = scheduled'[t][id].deposit
          /\ c.kind = scheduled'[t][id].request.approve.kind
      <3>1. b.request.approve # None
        BY DEF ReceiveProposal
      <3> QED
        BY <3>1, <1>4, <1>5, <1>9, BatchOrigin
    <2>2. id \in DeliveredIds(t)'
      BY <1>1, <1>4, <1>5, <1>8, ReceiveGrows
    <2>3. c.result # None
      BY <1>8, <1>9, NoneAssumption
    <2>4. /\ n \in DOMAIN proposals'[d] /\ proposals'[d][n].origin = <<t, id>>
          /\ ToJson(proposals'[d][n].kind) = c.kind
      BY <1>6, <1>7, <1>8, <1>9
    <2> QED
      BY <2>1, <2>2, <2>3, <2>4, <1>9 DEF CallbackFacts
  <1>12. \A s \in Timelocks : balance'[s] = balance[s]
    <2>1. d \notin Timelocks
      BY AccountAssumption
    <2>2. balance \in [Accounts -> Int] /\ Timelocks \subseteq Accounts
      BY <1>1 DEF IInv, TypeOK, Accounts
    <2> QED
      BY <2>1, <2>2, <1>5
  <1>13. ASSUME NEW s \in Timelocks PROVE Escrowed(s)'
    <2>1. c.result # None
      BY <1>8, <1>9, NoneAssumption
    <2>2. Owing(s)' = Owing(s)
      BY <2>1, <1>9 DEF Owing
    <2> QED
      BY <2>2, <1>5, <1>12, EscrowedKept
  <1>14. \A x \in callbacks' : x \in callbacks \/ CallbackFacts(x)'
    BY <1>9, <1>11
  <1> QED
    BY <1>5, <1>8, <1>10, <1>13, <1>14, ReceiveSettles

\* A failed batch returns its deposit, for the callback to send back or to stay.
LEMMA FailureSettles ==
    ASSUME SettlementInv, DeliveryInv', NEW b \in batches, BatchFails(b)
    PROVE  SettlementInv'
  <1>1. IInv /\ IsFiniteSet(callbacks)
    BY SettlementParts DEF DeliveryInv
  <1>2. PICK t \in Timelocks, id \in RequestIds : t = b.from /\ id = b.request_id
    BY BatchOrigin
  <1>3. /\ Receive(b, FALSE) /\ Resolve(b, None)
        /\ balance' = [balance EXCEPT ![t] = balance[t] + b.deposit]
        /\ stranded' = [stranded EXCEPT ![t] =
                          stranded[t] + IF b.request.approve = None THEN b.deposit ELSE 0]
        /\ UNCHANGED <<scheduled, cancelled, votes, refunds, requests, proposals>>
    BY <1>2 DEF BatchFails, queue
  <1>4. ProposalsGrow
    BY <1>3 DEF ProposalsGrow
  <1>5. /\ balance'[t] = balance[t] + b.deposit
        /\ stranded'[t] = stranded[t] + IF b.request.approve = None THEN b.deposit ELSE 0
        /\ \A s \in Timelocks : s # t => balance'[s] = balance[s] /\ stranded'[s] = stranded[s]
    <2>1. balance \in [Accounts -> Int] /\ Timelocks \subseteq Accounts /\ stranded \in [Timelocks -> Nat]
      BY <1>1 DEF IInv, TypeOK, Accounts
    <2> QED
      BY <2>1, <1>3
  <1>6. b.deposit \in Nat /\ Escrowed(t)
    BY BatchOrigin, SettlementParts
  <1>7. PendingDeposit(t)' = PendingDeposit(t)
    BY <1>1, <1>3, PendingSame
  <1>8. IsFiniteSet(callbacks')
    BY <1>3, ResolveAdds
  <1>9. CASE b.request.approve = None
    <2>1. callbacks' = callbacks
      BY <1>3, <1>9, ResolveAdds
    <2>2. \A s \in Timelocks : Owing(s)' = Owing(s)
      BY <2>1 DEF Owing
    <2>3. Escrowed(t)'
      <3>1. OwedBonds(t)' = OwedBonds(t)
        BY <2>2, OwedSame
      <3> QED
        BY <3>1, <1>5, <1>6, <1>7, <1>9, EscrowTypes DEF Escrowed
    <2>4. \A s \in Timelocks : Escrowed(s)'
      <3>1. ASSUME NEW s \in Timelocks, s # t PROVE Escrowed(s)'
        BY <3>1, <2>2, <1>3, <1>5, EscrowedKept
      <3> QED
        BY <2>3, <3>1
    <2> QED
      BY <2>1, <2>4, <1>3, <1>4, <1>8, ReceiveSettles
  <1>10. CASE b.request.approve # None
    <2>1. PICK c : /\ callbacks' = callbacks \cup {c} /\ c \notin callbacks
                   /\ c.from = t /\ c.request_id = id
                   /\ c.funder_id = b.request.funder_id
                   /\ c.bond = b.deposit /\ c.kind = b.request.approve.kind /\ c.result = None
      BY <1>2, <1>3, <1>10, ResolveAdds
    <2>2. CallbackFacts(c)'
      <3>1. /\ scheduled'[t][id] # None /\ scheduled'[t][id].request.approve # None
            /\ c.funder_id = scheduled'[t][id].by /\ c.bond = scheduled'[t][id].deposit
            /\ c.kind = scheduled'[t][id].request.approve.kind
        BY <2>1, <1>2, <1>3, <1>10, BatchOrigin
      <3>2. id \in DeliveredIds(t)' /\ Failed(t, id)'
        BY <1>1, <1>2, <1>3, <1>4, ReceiveGrows
      <3> QED
        BY <3>1, <3>2, <2>1 DEF CallbackFacts
    <2>3. /\ Owing(t)' = Owing(t) \cup {c} /\ c \notin Owing(t)
          /\ \A s \in Timelocks : s # t => Owing(s)' = Owing(s)
      BY <2>1 DEF Owing
    <2>4. OwedBonds(t)' = OwedBonds(t) + b.deposit
      BY <2>1, <2>3, <1>1, <1>6, OwedAdded
    <2>5. Escrowed(t)'
      BY <2>4, <1>5, <1>6, <1>7, <1>10, EscrowTypes DEF Escrowed
    <2>6. \A s \in Timelocks : Escrowed(s)'
      <3>1. ASSUME NEW s \in Timelocks, s # t PROVE Escrowed(s)'
        BY <3>1, <2>3, <1>3, <1>5, EscrowedKept
      <3> QED
        BY <2>5, <3>1
    <2>7. \A x \in callbacks' : x \in callbacks \/ CallbackFacts(x)'
      BY <2>1, <2>2
    <2> QED
      BY <2>6, <2>7, <1>3, <1>4, <1>8, ReceiveSettles
  <1> QED
    BY <1>9, <1>10

\* on_proposal_added: a vote on the request's proposal, or the bond goes back.
LEMMA CallbackSettles ==
    ASSUME SettlementInv, DeliveryInv', NEW c \in callbacks, on_proposal_added(c)
    PROVE  SettlementInv'
  <1>1. IInv /\ IsFiniteSet(callbacks) /\ CallbackFacts(c)
    BY SettlementParts DEF DeliveryInv
  <1>2. /\ c.from \in Timelocks /\ c.request_id \in RequestIds /\ c.bond \in Nat
        /\ c.kind \in {ToJson(p.kind) : p \in ProposalArgs}
    BY <1>1 DEF IInv, TypeOK
  <1>3. PICK t \in Timelocks, id \in RequestIds : t = c.from /\ id = c.request_id
    BY <1>2
  <1>4. /\ callbacks' = callbacks \ {c}
        /\ UNCHANGED <<scheduled, cancelled, delivered, requests, batches, proposals, stranded>>
    BY DEF on_proposal_added, queue, history
  <1>5. HistoryGrows /\ FundedAtScheduling' /\ BatchesFunded' /\ IsFiniteSet(callbacks')
    <2>1. HistoryGrows
      BY <1>4 DEF HistoryGrows, ProposalsGrow, DeliveredIds, CancelledIds, Failed
    <2>2. FundedAtScheduling' /\ BatchesFunded'
      BY <1>4 DEF SettlementInv, FundedAtScheduling, BatchesFunded, total_deposit
    <2> QED
      BY <2>1, <2>2, <1>1, <1>4, FS_RemoveElement
  <1>6. \A s \in Timelocks : s # t => Owing(s)' = Owing(s)
    BY <1>3, <1>4 DEF Owing
  <1>7. CASE c.result # None
    <2> DEFINE v == [from |-> c.from, request_id |-> c.request_id, dao_id |-> c.dao_id,
                     id |-> c.result, kind |-> FromJson(c.kind)]
    <2>1. votes' = votes \cup {v} /\ UNCHANGED <<refunds, balance>>
      BY <1>7 DEF on_proposal_added, ReturnedProposal
    <2>2. /\ v.from = t /\ v.request_id = id /\ v.dao_id = c.dao_id /\ v.id = c.result
          /\ v.kind = FromJson(c.kind)
      BY <1>3
    <2> HIDE DEF v
    <2>3. VoteFacts(v)'
      <3>1. PICK p \in ProposalArgs : c.kind = ToJson(p.kind)
        BY <1>2
      <3>2. v.kind = p.kind
        BY <3>1, <2>2 DEF ToJson, FromJson
      <3>3. proposals[c.dao_id][c.result].kind = p.kind
        BY <3>1, <1>1, <1>7 DEF CallbackFacts, ToJson
      <3> QED
        BY <3>1, <3>2, <3>3, <2>2, <1>1, <1>3, <1>4, <1>7, Zenon DEF VoteFacts, CallbackFacts
    <2>4. ASSUME NEW s \in Timelocks PROVE Escrowed(s)'
      <3>1. Owing(s)' = Owing(s)
        BY <1>4, <1>7 DEF Owing
      <3> QED
        BY <3>1, <2>1, <1>4, EscrowedKept
    <2>5. \A x \in votes' : x \in votes \/ VoteFacts(x)'
      BY <2>1, <2>3
    <2> QED
      BY <2>1, <2>4, <2>5, <1>4, <1>5, Settled
  <1>8. CASE c.result = None
    <2>1. /\ Transfer(t, id, c.funder_id, c.bond) /\ UNCHANGED votes
          /\ balance' = [balance EXCEPT ![t] = balance[t] - c.bond]
      BY <1>3, <1>8 DEF on_proposal_added
    <2>2. \A r \in refunds' : r \in refunds \/ RefundFacts(r)'
      <3> SUFFICES ASSUME NEW r \in refunds', r \notin refunds PROVE RefundFacts(r)'
        OBVIOUS
      <3>1. r.from = t /\ r.request_id = id /\ r.to = c.funder_id /\ r.amount = c.bond
        BY <2>1, TransferSends
      <3>2. Failed(t, id)'
        <4>1. Failed(t, id)
          BY <1>1, <1>3, <1>8 DEF CallbackFacts
        <4> QED
          BY <4>1, <1>4 DEF Failed
      <3> QED
        BY <3>1, <3>2, <1>1, <1>3, <1>4 DEF RefundFacts, CallbackFacts
    <2>3. /\ balance'[t] = balance[t] - c.bond
          /\ \A s \in Timelocks : s # t => balance'[s] = balance[s]
      BY <2>1, <1>1 DEF IInv, TypeOK, Accounts
    <2>4. c \in Owing(t) /\ Owing(t)' = Owing(t) \ {c}
      BY <1>3, <1>4, <1>8 DEF Owing
    <2>5. OwedBonds(t)' = OwedBonds(t) - c.bond
      BY <2>4, <1>1, OwedRemoved
    <2>6. PendingDeposit(t)' = PendingDeposit(t)
      BY <1>1, <1>4, PendingSame
    <2>7. Escrowed(t)
      BY SettlementParts
    <2>8. Escrowed(t)'
      BY <2>3, <2>5, <2>6, <2>7, <1>2, <1>4, EscrowTypes DEF Escrowed
    <2>9. \A s \in Timelocks : Escrowed(s)'
      <3>1. ASSUME NEW s \in Timelocks, s # t PROVE Escrowed(s)'
        BY <3>1, <2>3, <1>4, <1>6, EscrowedKept
      <3> QED
        BY <2>8, <3>1
    <2> QED
      BY <2>1, <2>2, <2>9, <1>4, <1>5, Settled
  <1> QED
    BY <1>7, <1>8

\* A refund arrives at the DAO, or bounces and stays.
LEMMA RefundSettles ==
    ASSUME SettlementInv, DeliveryInv', NEW r \in refunds, ReceiveRefund(r)
    PROVE  SettlementInv'
  <1>1. IInv /\ IsFiniteSet(callbacks) /\ RefundFacts(r)
    BY SettlementParts DEF DeliveryInv
  <1>2. r.from \in Timelocks /\ r.request_id \in RequestIds /\ r.amount \in Nat /\ r.to \in Accounts
    BY <1>1 DEF IInv, TypeOK
  <1>3. /\ refunds' = refunds \ {r}
        /\ UNCHANGED <<scheduled, cancelled, delivered, requests, batches, callbacks, votes, proposals>>
    BY DEF ReceiveRefund, queue
  <1>4. HistoryGrows /\ FundedAtScheduling' /\ BatchesFunded' /\ IsFiniteSet(callbacks')
    <2>1. HistoryGrows
      BY <1>3 DEF HistoryGrows, ProposalsGrow, DeliveredIds, CancelledIds, Failed
    <2>2. FundedAtScheduling' /\ BatchesFunded'
      BY <1>3 DEF SettlementInv, FundedAtScheduling, BatchesFunded, total_deposit
    <2> QED
      BY <2>1, <2>2, <1>1, <1>3
  <1>5. \A s \in Timelocks : Owing(s)' = Owing(s)
    BY <1>3 DEF Owing
  <1>6. balance \in [Accounts -> Int] /\ Timelocks \subseteq Accounts /\ stranded \in [Timelocks -> Nat]
    BY <1>1 DEF IInv, TypeOK, Accounts
  <1>7. CASE /\ balance' = [balance EXCEPT ![r.to] = balance[r.to] + r.amount]
             /\ UNCHANGED stranded
    <2>1. r.to \notin Timelocks
      <3>1. scheduled[r.from][r.request_id] # None
        BY RefundScheduled
      <3>2. scheduled[r.from][r.request_id] \in Scheduled
        BY <3>1, <1>1, <1>2 DEF IInv, TypeOK
      <3>3. r.to \in Daos
        BY <3>2, <1>1 DEF RefundFacts, Scheduled
      <3> QED
        BY <3>3, AccountAssumption
    <2>2. \A s \in Timelocks : balance'[s] = balance[s]
      BY <2>1, <1>6, <1>7
    <2>3. \A s \in Timelocks : Escrowed(s)'
      BY <2>2, <1>3, <1>5, <1>7, EscrowedKept
    <2> QED
      BY <2>3, <1>3, <1>4, Settled
  <1>8. CASE /\ balance' = [balance EXCEPT ![r.from] = balance[r.from] + r.amount]
             /\ stranded' = [stranded EXCEPT ![r.from] = stranded[r.from] + r.amount]
    <2>1. PICK t \in Timelocks : t = r.from
      BY <1>2
    <2>2. /\ balance'[t] = balance[t] + r.amount /\ stranded'[t] = stranded[t] + r.amount
          /\ \A s \in Timelocks : s # t => balance'[s] = balance[s] /\ stranded'[s] = stranded[s]
      BY <2>1, <1>6, <1>8
    <2>3. PendingDeposit(t)' = PendingDeposit(t) /\ OwedBonds(t)' = OwedBonds(t)
      BY <1>1, <1>3, <1>5, PendingSame, OwedSame
    <2>4. Escrowed(t)
      BY SettlementParts
    <2>5. Escrowed(t)'
      BY <2>2, <2>3, <2>4, <1>2, EscrowTypes DEF Escrowed
    <2>6. \A s \in Timelocks : Escrowed(s)'
      <3>1. ASSUME NEW s \in Timelocks, s # t PROVE Escrowed(s)'
        BY <3>1, <2>2, <1>3, <1>5, EscrowedKept
      <3> QED
        BY <2>5, <3>1
    <2> QED
      BY <2>6, <1>3, <1>4, Settled
  <1> QED
    BY <1>7, <1>8 DEF ReceiveRefund

-----------------------------------------------------------------------------
(* The theorems *)

\* Nothing is scheduled, in flight or owed when the contracts are deployed.
LEMMA InitSettlementInv == Init => SettlementInv
  <1> SUFFICES ASSUME Init PROVE SettlementInv
    OBVIOUS
  <1>1. DeliveryInv
    BY InitDeliveryInv
  <1>2. FundedAtScheduling /\ BatchesFunded
    BY DEF Init, FundedAtScheduling, BatchesFunded
  <1>3. IsFiniteSet(callbacks) /\ callbacks = {} /\ votes = {} /\ refunds = {}
    BY FS_EmptySet DEF Init
  <1>4. ASSUME NEW t \in Timelocks PROVE Escrowed(t)
    <2>1. PendingIds(t) = {} /\ Owing(t) = {}
      BY DEF Init, new, PendingIds, Pending, Owing
    <2>2. PendingDeposit(t) = 0 /\ OwedBonds(t) = 0
      BY <2>1, SumEmpty DEF PendingDeposit, OwedBonds
    <2>3. balance[t] = InitialBalance[t] /\ stranded[t] = 0 /\ InitialBalance[t] \in Int
      BY DeployAssumption DEF Init, Accounts
    <2> QED
      BY <2>2, <2>3 DEF Escrowed
  <1> QED
    BY <1>1, <1>2, <1>3, <1>4, SettlementParts

\* Every step keeps the invariant.
LEMMA NextSettlementInv ==
    ASSUME SettlementInv, [Next]_vars
    PROVE  SettlementInv'
  <1>1. DeliveryInv /\ DeliveryInv'
    BY NextDeliveryInv DEF SettlementInv
  <1>2. ASSUME NEW t \in Timelocks, NEW caller \in Daos,
               NEW predecessor_id \in RequestIds \cup {None}, NEW attached \in Deposits,
               NEW a \in ScheduleArgs, schedule(t, caller, a, predecessor_id, attached)
        PROVE  SettlementInv'
    <2> DEFINE request == [receiver_id |-> a.receiver_id, actions |-> a.actions,
                           funder_id |-> caller, execute_after |-> execute_after(t),
                           approve |-> None, predecessor_id |-> predecessor_id]
    <2>1. Escrow(t, caller, attached, request) /\ total_deposit(request) = attached
      BY <1>2 DEF schedule, DepositMatches
    <2>2. request.funder_id = caller /\ attached \in Nat
      BY DeployAssumption
    <2> HIDE DEF request
    <2> QED
      BY <2>1, <2>2, <1>1, EscrowSettles
  <1>3. ASSUME NEW t \in Timelocks, NEW caller \in Daos,
               NEW predecessor_id \in RequestIds \cup {None}, NEW attached \in Deposits,
               NEW p \in ProposalArgs, schedule_proposal(t, caller, p, predecessor_id, attached)
        PROVE  SettlementInv'
    <2> DEFINE request == [receiver_id |-> p.dao_id, actions |-> <<AddProposalCall(p)>>,
                           funder_id |-> caller, execute_after |-> execute_after(t),
                           approve |-> Approval(p), predecessor_id |-> predecessor_id]
    <2>1. Escrow(t, caller, attached, request) /\ attached = p.proposal_bond
      BY <1>3 DEF schedule_proposal, DepositMatches
    <2>2. /\ request.funder_id = caller /\ attached \in Nat
          /\ request.actions = <<AddProposalCall(p)>>
      BY DeployAssumption
    <2> HIDE DEF request
    <2>3. total_deposit(request) = attached
      BY <2>1, <2>2, BondIsDeposit DEF total_deposit
    <2> QED
      BY <2>1, <2>2, <2>3, <1>1, EscrowSettles
  <1>4. ASSUME NEW t \in Timelocks, NEW id \in RequestIds, execute(t, id)
        PROVE  SettlementInv'
    BY <1>1, <1>4, ExecuteSettles
  <1>5. ASSUME NEW t \in Timelocks, NEW caller \in Users, NEW id \in RequestIds,
               cancel(t, caller, id)
        PROVE  SettlementInv'
    BY <1>1, <1>5, CancelSettles
  <1>6. ASSUME NEW b \in batches,
               ReceiveConfig(b) \/ ReceiveProposal(b) \/ ReceiveOther(b) \/ BatchFails(b)
        PROVE  SettlementInv'
    BY <1>1, <1>6, PlainBatchSettles, ProposalSettles, FailureSettles
  <1>7. ASSUME NEW c \in callbacks, on_proposal_added(c)
        PROVE  SettlementInv'
    BY <1>1, <1>7, CallbackSettles
  <1>8. ASSUME NEW r \in refunds, ReceiveRefund(r)
        PROVE  SettlementInv'
    BY <1>1, <1>8, RefundSettles
  <1>9. ASSUME NEW v \in votes, ReceiveVote(v)
        PROVE  SettlementInv'
    <2>1. ProposalsGrow
      BY <1>9, VoteKeepsProposals
    <2> QED
      BY <2>1, <1>1, <1>9, SettlementUntouched DEF ReceiveVote, queue, history
  <1>10. ASSUME NEW p \in ProposalArgs, OtherProposal(p.dao_id, p.kind)
         PROVE  SettlementInv'
    <2> DEFINE e == [kind |-> p.kind, origin |-> None, approved |-> FALSE]
    <2>1. p.dao_id \in Daos /\ e \in ProposalRecords
      BY ArgsAssumption DEF ProposalRecords
    <2>2. proposals' = [proposals EXCEPT ![p.dao_id] = Append(proposals[p.dao_id], e)]
      BY <1>10 DEF OtherProposal
    <2> HIDE DEF e
    <2>3. PICK n : n = Len(proposals[p.dao_id]) + 1
      OBVIOUS
    <2>4. ProposalsGrow
      BY <2>1, <2>2, <2>3, <1>1, ProposalAppended DEF DeliveryInv
    <2> QED
      BY <2>4, <1>1, <1>10, SettlementUntouched DEF OtherProposal, queue, history
  <1>11. ASSUME \/ \E t \in Timelocks, caller \in Daos \cup Users, call \in SetterCalls :
                     CallSetter(t, caller, call)
                \/ Tick
                \/ UNCHANGED vars
         PROVE  SettlementInv'
    <2>1. UNCHANGED <<scheduled, requests, batches, callbacks, votes, refunds, balance, proposals,
                      delivered, cancelled, stranded>>
      BY <1>11 DEF CallSetter, Tick, vars, queue, history
    <2>2. ProposalsGrow
      BY <2>1 DEF ProposalsGrow
    <2> QED
      BY <2>1, <2>2, <1>1, SettlementUntouched
  <1> QED
    BY <1>2, <1>3, <1>4, <1>5, <1>6, <1>7, <1>8, <1>9, <1>10, <1>11 DEF Next

\* Every deposit is accounted for from schedule to its end.
THEOREM SettlementInvariance == Spec => []SettlementInv
  <1>1. SettlementInv /\ [Next]_vars => SettlementInv'
    BY NextSettlementInv
  <1> QED
    BY <1>1, InitSettlementInv, PTL DEF Spec

\* A timelock always holds exactly the deposits of its pending requests, the
\* bonds its callbacks owe, its own money and what has stranded on it: no
\* cancel and no refund can fail for lack of funds (lib.rs execute, cancel,
\* on_proposal_added).
THEOREM EscrowExactHolds == Spec => []EscrowExact
  BY SettlementInvariance, PTL DEF SettlementInv

\* A refund returns the deposit to the DAO that paid it, whoever the DAO is now
\* (lib.rs cancel, on_proposal_added).
THEOREM RefundsReachFunderHolds == Spec => []RefundsReachFunder
  BY SettlementInvariance, PTL DEF SettlementInv

\* The approving vote is on the proposal its own request added, with its kind
\* (lib.rs on_proposal_added).
THEOREM VoteOnOwnProposalHolds == Spec => []VoteOnOwnProposal
  BY SettlementInvariance, PTL DEF SettlementInv
============================================================================
