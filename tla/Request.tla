------------------------------ MODULE Request ------------------------------
(***************************************************************************)
(* The arithmetic of a timelock request (dao-timelock/src/request.rs): the *)
(* deposit that must be escrowed for it and the gas its execution costs.   *)
(* Amounts saturate at the width of the Rust types, as NearToken (u128)    *)
(* and Gas (u64) do.  Gas is counted in GGas.                              *)
(***************************************************************************)
EXTENDS Integers, Sequences, SequencesExt, FiniteSetsExt

CONSTANTS None,      \* Rust's Option::None
          U64_MAX,   \* the width of gas, timestamps and request ids
          U128_MAX   \* the width of NEAR amounts

ASSUME WidthAssumption == U64_MAX \in Nat /\ U128_MAX \in Nat

\* Mutant: + in release mode.
WrappingAdd(a, b, max) == (a + b) % (max + 1)

SaturatingAdd(a, b, max) == IF a + b > max THEN max ELSE a + b

SaturatingMul(a, b, max) == IF a * b > max THEN max ELSE a * b

GAS_FOR_ON_PROPOSAL_ADDED == 10000
GAS_PER_ACTION            == 980
GAS_PER_RECEIPT           == 217
GAS_FOR_EXECUTE_BODY      == 5000
MAX_EXECUTION_GAS         == 280000

\* The protocol's limit on the gas of one transaction.
MAX_PREPAID_GAS           == 300000

AddGas(a, b) == SaturatingAdd(a, b, U64_MAX)

\* fold with saturating_add, from zero.
SaturatingSum(amounts, max) == FoldLeft(LAMBDA acc, n : SaturatingAdd(acc, n, max), 0, amounts)

sum_deposits(actions) == SaturatingSum([i \in DOMAIN actions |-> actions[i].deposit], U128_MAX)

total_deposit(request) == sum_deposits(request.actions)

\* Also the mutant of total_gas that forgets the callback and the vote.
batch_gas(request) ==
    LET actions  == request.actions
        attached == SaturatingSum([i \in DOMAIN actions |-> actions[i].gas], U64_MAX)
        fees     == SaturatingMul(GAS_PER_ACTION, Len(actions), U64_MAX)
    IN  AddGas(AddGas(AddGas(attached, fees), GAS_PER_RECEIPT), GAS_FOR_EXECUTE_BODY)

total_gas(request) ==
    IF request.approve = None
    THEN batch_gas(request)
    ELSE AddGas(AddGas(AddGas(AddGas(batch_gas(request), GAS_PER_RECEIPT), GAS_PER_ACTION),
                       GAS_FOR_ON_PROPOSAL_ADDED),
                request.approve.act_proposal_gas)

\* What the protocol takes from the executor for the promises execute creates:
\* exact sums, with one receipt per promise and one fee per action.  The fees per
\* byte of the arguments are left out, as the code has no constant for them.
GasCharged(request) ==
    LET actions == request.actions
        gas     == [i \in DOMAIN actions |-> actions[i].gas + GAS_PER_ACTION]
    IN  GAS_FOR_EXECUTE_BODY + GAS_PER_RECEIPT + SumFunctionOnSet(gas, DOMAIN actions)
          + (IF request.approve = None THEN 0
             ELSE GAS_PER_RECEIPT + GAS_PER_ACTION + GAS_FOR_ON_PROPOSAL_ADDED
                    + request.approve.act_proposal_gas)

\* What the batch really carries away from the timelock.
DepositSent(request) ==
    LET actions == request.actions
    IN  SumFunctionOnSet([i \in DOMAIN actions |-> actions[i].deposit], DOMAIN actions)
============================================================================
