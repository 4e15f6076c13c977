----------------------------- MODULE MCRequest -----------------------------
(***************************************************************************)
(* Checks the sums of module Request against exact reference sums over     *)
(* every batch of at most MaxActions calls, with amounts at the edges of   *)
(* the integer widths.  The batch grows one call at a time.                *)
(***************************************************************************)
EXTENDS Request

CONSTANTS Gases, DepositAmounts, MaxActions,
          Supply     \* all the NEAR there is: no deposit can be larger

ASSUME SupplyAssumption == Supply \in Nat /\ Supply < U128_MAX

ASSUME AmountsAssumption == Gases \subseteq Nat /\ DepositAmounts \subseteq Nat

\* A u64 holds more gas than a request may use.
ASSUME GasAssumption == U64_MAX > MAX_EXECUTION_GAS

VARIABLE request

Init == request \in [actions : {<< >>}, approve : [act_proposal_gas : Gases] \cup {None}]

AddAction(gas, deposit) ==
    /\ Len(request.actions) < MaxActions
    /\ request' = [request EXCEPT !.actions = Append(@, [gas |-> gas, deposit |-> deposit])]

Next == \E gas \in Gases, deposit \in DepositAmounts : AddAction(gas, deposit)

Spec == Init /\ [][Next]_request

\* A request that schedule accepts (lib.rs: attached_deposit == total_deposit)
\* escrows exactly what execute later attaches to the batch: saturation can
\* never let a batch be scheduled for less than it sends.
EscrowMatchesBatch ==
    total_deposit(request) <= Supply => DepositSent(request) = total_deposit(request)

\* A request within MAX_EXECUTION_GAS can be executed within the protocol's
\* 300 TGas, whatever its number of actions, with its callback and its vote.
AcceptedRequestsAreExecutable ==
    total_gas(request) <= MAX_EXECUTION_GAS => GasCharged(request) <= MAX_PREPAID_GAS
============================================================================
