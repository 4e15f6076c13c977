--------------------------- MODULE RequestProofs ---------------------------
(***************************************************************************)
(* The sums of request.rs, for requests of any number of calls: a fold     *)
(* with saturating_add is the exact sum cut off at the width of the type,  *)
(* so what schedule compares is exact wherever it is within its bounds.    *)
(***************************************************************************)
EXTENDS MCRequest, SumLemmas, SequenceTheorems

Calls == [gas : Gases, deposit : DepositAmounts]

Approvals == [act_proposal_gas : Gases]

\* What a request is made of: the inductive invariant.
RequestOK == request \in [actions : Seq(Calls), approve : Approvals \cup {None}]

\* The exact sum, cut off at max.
Cut(n, max) == IF n > max THEN max ELSE n

\* A saturating fold is the exact sum, cut off once.
LEMMA SaturatingSumIsCut ==
    ASSUME NEW n \in Nat, NEW f \in [1 .. n -> Nat], NEW max \in Nat
    PROVE  /\ SumFunctionOnSet(f, 1 .. n) \in Nat
           /\ SaturatingSum(f, max) = Cut(SumFunctionOnSet(f, 1 .. n), max)
  <1>1. SaturatingSum(f, max) = SaturatingFold(f, max)[DOMAIN f]
    BY Zenon DEF SaturatingSum, FoldLeft, MapThenFoldSet, SaturatingFold, SaturatingAdd
  <1>2. DOMAIN f = 1 .. n
    OBVIOUS
  <1> QED
    BY <1>1, <1>2, SaturatingFoldIsSum DEF Cut

\* The deposit of a request.
LEMMA DepositIsCut ==
    ASSUME RequestOK
    PROVE  /\ DepositSent(request) \in Nat
           /\ total_deposit(request) = Cut(DepositSent(request), U128_MAX)
  <1> DEFINE actions == request.actions
             deposits == [i \in DOMAIN actions |-> actions[i].deposit]
  <1>1. PICK n \in Nat : n = Len(actions) /\ DOMAIN actions = 1 .. n
    BY DEF RequestOK
  <1>2. deposits \in [1 .. n -> Nat]
    <2>1. actions \in Seq(Calls)
      BY DEF RequestOK
    <2> HIDE DEF actions
    <2>2. \A i \in 1 .. n : actions[i] \in Calls
      BY <1>1, <2>1
    <2>3. \A i \in 1 .. n : actions[i].deposit \in Nat
      BY <2>2, AmountsAssumption DEF Calls
    <2> QED
      BY <1>1, <2>3
  <1>3. /\ SumFunctionOnSet(deposits, 1 .. n) \in Nat
        /\ SaturatingSum(deposits, U128_MAX) = Cut(SumFunctionOnSet(deposits, 1 .. n), U128_MAX)
    <2> HIDE DEF deposits
    <2> QED
      BY <1>2, SaturatingSumIsCut, WidthAssumption
  <1>4. /\ DepositSent(request) = SumFunctionOnSet(deposits, 1 .. n)
        /\ total_deposit(request) = SaturatingSum(deposits, U128_MAX)
    BY <1>1, Zenon DEF DepositSent, total_deposit, sum_deposits
  <1> QED
    BY <1>3, <1>4

\* The gas of a request, with and without the vote.
LEMMA GasIsCut ==
    ASSUME RequestOK
    PROVE  /\ GasCharged(request) \in Nat
           /\ total_gas(request) = Cut(GasCharged(request), U64_MAX)
  <1> DEFINE actions == request.actions
             gas  == [i \in DOMAIN actions |-> actions[i].gas]
             cost == [i \in DOMAIN actions |-> actions[i].gas + GAS_PER_ACTION]
             vote == IF request.approve = None THEN 0
                     ELSE GAS_PER_RECEIPT + GAS_PER_ACTION + GAS_FOR_ON_PROPOSAL_ADDED
                            + request.approve.act_proposal_gas
             attached == SaturatingSum(gas, U64_MAX)
  <1>1. PICK n \in Nat : n = Len(actions) /\ DOMAIN actions = 1 .. n
    BY DEF RequestOK
  <1>2. gas \in [1 .. n -> Nat]
    <2>1. actions \in Seq(Calls)
      BY DEF RequestOK
    <2> HIDE DEF actions
    <2>2. \A i \in 1 .. n : actions[i] \in Calls
      BY <1>1, <2>1
    <2>3. \A i \in 1 .. n : actions[i].gas \in Nat
      BY <2>2, AmountsAssumption DEF Calls
    <2> QED
      BY <1>1, <2>3
  <1>3. PICK exact \in Nat : exact = SumFunctionOnSet(gas, 1 .. n) /\ attached = Cut(exact, U64_MAX)
    <2> HIDE DEF gas
    <2> QED
      BY <1>2, SaturatingSumIsCut, WidthAssumption
  <1>4. SumFunctionOnSet(cost, 1 .. n) = exact + GAS_PER_ACTION * n
    <2>1. cost = [i \in 1 .. n |-> gas[i] + GAS_PER_ACTION]
      BY <1>1
    <2>2. GAS_PER_ACTION \in Nat
      BY DEF GAS_PER_ACTION
    <2> HIDE DEF gas, cost
    <2>3. SumFunctionOnSet([i \in 1 .. n |-> gas[i] + GAS_PER_ACTION], 1 .. n)
            = SumFunctionOnSet(gas, 1 .. n) + GAS_PER_ACTION * n
      BY <1>2, <2>2, SumWithFee
    <2> QED
      BY <2>1, <2>3, <1>3
  <1>5. GasCharged(request) = GAS_FOR_EXECUTE_BODY + GAS_PER_RECEIPT + SumFunctionOnSet(cost, 1 .. n) + vote
    BY <1>1, Zenon DEF GasCharged
  <1>6. batch_gas(request) =
          AddGas(AddGas(AddGas(attached, SaturatingMul(GAS_PER_ACTION, n, U64_MAX)), GAS_PER_RECEIPT),
                 GAS_FOR_EXECUTE_BODY)
    BY <1>1, Zenon DEF batch_gas
  <1>7. AddGas(attached, SaturatingMul(GAS_PER_ACTION, n, U64_MAX)) = Cut(exact + GAS_PER_ACTION * n, U64_MAX)
    <2> HIDE DEF attached
    <2> QED
      BY <1>3, WidthAssumption DEF AddGas, SaturatingAdd, SaturatingMul, Cut, GAS_PER_ACTION
  <1> DEFINE body == exact + GAS_PER_ACTION * n + GAS_PER_RECEIPT + GAS_FOR_EXECUTE_BODY
  <1>8. batch_gas(request) = Cut(body, U64_MAX)
    <2> HIDE DEF attached
    <2> QED
      BY <1>3, <1>6, <1>7, WidthAssumption
      DEF AddGas, SaturatingAdd, Cut, GAS_PER_ACTION, GAS_PER_RECEIPT, GAS_FOR_EXECUTE_BODY
  <1>9. body \in Nat
    BY DEF GAS_PER_ACTION, GAS_PER_RECEIPT, GAS_FOR_EXECUTE_BODY
  <1>10. vote \in Nat /\ total_gas(request) = Cut(body + vote, U64_MAX)
    <2>1. CASE request.approve = None
      BY <2>1, <1>8, <1>9 DEF total_gas
    <2>2. CASE request.approve # None
      <3>1. PICK g \in Nat : g = request.approve.act_proposal_gas
        BY <2>2, AmountsAssumption DEF RequestOK, Approvals
      <3>2. total_gas(request) =
              AddGas(AddGas(AddGas(AddGas(batch_gas(request), GAS_PER_RECEIPT), GAS_PER_ACTION),
                       GAS_FOR_ON_PROPOSAL_ADDED), g)
        BY <2>2, <3>1, Zenon DEF total_gas
      <3>3. vote = GAS_PER_RECEIPT + GAS_PER_ACTION + GAS_FOR_ON_PROPOSAL_ADDED + g
        BY <2>2, <3>1
      <3> HIDE DEF body, vote
      <3> QED
        BY <3>2, <3>3, <1>8, <1>9, WidthAssumption
        DEF AddGas, SaturatingAdd, Cut, GAS_PER_ACTION, GAS_PER_RECEIPT, GAS_FOR_ON_PROPOSAL_ADDED
    <2> QED
      BY <2>1, <2>2
  <1>11. GasCharged(request) = body + vote
    <2> HIDE DEF vote, cost
    <2> QED
      BY <1>4, <1>5, <1>10 DEF GAS_PER_ACTION, GAS_PER_RECEIPT, GAS_FOR_EXECUTE_BODY
  <1> HIDE DEF body, vote
  <1> QED
    BY <1>9, <1>10, <1>11

\* Init and Next build a request.
LEMMA RequestOKInvariant == Spec => []RequestOK
  <1>1. Init => RequestOK
    <2>1. << >> \in Seq(Calls)
      OBVIOUS
    <2> QED
      BY <2>1 DEF Init, RequestOK, Approvals
  <1>2. RequestOK /\ [Next]_request => RequestOK'
    <2> SUFFICES ASSUME RequestOK, [Next]_request PROVE RequestOK'
      OBVIOUS
    <2>1. CASE UNCHANGED request
      BY <2>1 DEF RequestOK
    <2>2. ASSUME NEW gas \in Gases, NEW deposit \in DepositAmounts, AddAction(gas, deposit)
          PROVE  RequestOK'
      <3>1. [gas |-> gas, deposit |-> deposit] \in Calls
        BY DEF Calls
      <3>2. request' = [request EXCEPT !.actions = Append(request.actions, [gas |-> gas, deposit |-> deposit])]
        BY <2>2 DEF AddAction
      <3>3. Append(request.actions, [gas |-> gas, deposit |-> deposit]) \in Seq(Calls)
        BY <3>1 DEF RequestOK
      <3> QED
        BY <3>2, <3>3 DEF RequestOK
    <2> QED
      BY <2>1, <2>2 DEF Next
  <1> QED
    BY <1>1, <1>2, PTL DEF Spec

\* What schedule accepts as the attached deposit is what execute attaches to
\* the calls, for a request of any number of calls with any deposits: a
\* saturated sum is more than there is NEAR.
THEOREM EscrowMatchesBatchHolds == Spec => []EscrowMatchesBatch
  <1>1. RequestOK => EscrowMatchesBatch
    BY DepositIsCut, SupplyAssumption, WidthAssumption DEF EscrowMatchesBatch, Cut
  <1> QED
    BY <1>1, RequestOKInvariant, PTL

\* A request that passes the check against MAX_EXECUTION_GAS, of any number
\* of calls with any gas, is executable within the gas limit of the protocol.
THEOREM AcceptedRequestsAreExecutableHolds == Spec => []AcceptedRequestsAreExecutable
  <1>1. RequestOK => AcceptedRequestsAreExecutable
    BY GasIsCut, GasAssumption, WidthAssumption
    DEF AcceptedRequestsAreExecutable, Cut, MAX_EXECUTION_GAS, MAX_PREPAID_GAS
  <1> QED
    BY <1>1, RequestOKInvariant, PTL
============================================================================
