# TLA+ specification of the House of Stake treasury contracts

Models, model checks and machine-checked proofs for the two NEAR contracts of
this repository, `dao-timelock` and `spending-account`. Source lines are given
definition by definition in `PROJECT.json` ("map").

## The system

| Component | State | Operations | Module |
|---|---|---|---|
| Timelock queue (`dao-timelock/src/lib.rs`) | `requests`, `next_request_id` | `schedule`, `execute`, `cancel` | `DaoTimelock` |
| Proposal requests (`lib.rs`) | the same queue, callbacks in flight | `schedule_proposal`, `on_proposal_added` | `DaoTimelock` |
| Timelock configuration (`admin.rs`, `new`) | `dao_id`, `admin_id`, `guardians`, `delay_ns` | `set_dao`, `set_admin`, `set_guardians`, `set_delay` | `DaoTimelock` |
| Request arithmetic (`request.rs`) | none | `total_deposit`, `total_gas` | `Request` |
| Transfers (`spending-account/src/transfer.rs`) | `whitelist`, funds, transfers in flight | `transfer`, `transfer_ft`, `on_transfer`, `on_transfer_ft` | `SpendingAccount` |
| Whitelist (`whitelist.rs`) | `whitelist` | `add_to_whitelist`, `remove_from_whitelist`, `set_limit`, `increase_limit`, `decrease_limit` | `Whitelist`, `SpendingAccount` |
| Roles (`spending-account/src/admin.rs`, `lib.rs`) | `spender_id`, `manager_id`, `admin_id` | `new`, `set_spender`, `set_manager`, `set_admin` | `SpendingAccount` |
| Sputnik DAO, NEP-141 token, NEAR runtime (external) | proposals, balances, receipts, clock | as the contracts use them | actions marked external in the map |
| Treasury topology (`README.md`, `scripts/`) | which account holds which role, the batch being run | deployment, batches at a spending account | `Treasury` |
| Events (`events.rs` of both) | `EVENT_JSON` logs | none | history variables of `DaoTimelock` and `SpendingAccount` |
| Paged views (`lib.rs`, `whitelist.rs`) | the key vector of the map, a reader's position | `get_requests`, `get_whitelist_entries`, the counts | `Views` |

**Interaction.** A DAO calls `schedule` on its timelock and attaches the
deposits of the batch. After the delay anyone calls `execute`: the request
leaves the queue and its batch travels to the receiver: another timelock
(setters), a Sputnik DAO (`add_proposal`, with a callback on the timelock that
votes or refunds), or any other contract such as a spending account. Guardians
may `cancel` in the meantime. A spending account pays a whitelisted recipient
by a transfer or an `ft_transfer`, and a callback restores the allowance when
that fails.

**What is hard.** Every cross-contract call is a receipt that runs later.
Between `schedule`, `execute`, the delivery of the batch, the callback, the
vote and the refund, anybody's calls may run: the delay, the DAO, the admin or
the whitelist may have changed, other proposals may have been added, the batch
may fail as a whole, a refund may bounce. Amounts saturate in some places and
panic in others. `PROJECT.json` lists these hazards at their lines, each with
the properties that cover it.

**What makes each part correct.** The queue: every request waits out the delay
of its scheduling, runs at most once, in the order asked for, and its escrow is
never mixed up with other money. Proposal requests: the vote goes to the
request's own proposal or the bond goes back to its funder. Configuration: a
timelock administered by a timelock changes only after a delay. Spending
account: nothing beyond what the manager granted leaves, failures cost no
allowance, removed recipients stay removed, the events tell what was paid. The
treasury: whatever a role held by a timelock allows happens only in a batch that
has waited, no voted call takes effect twice, and a batch does all it was voted
to do or nothing. The views: reading page by page misses
only what removals have moved.

## Modules

* `Request`: sums of deposits and gas, folded with an addition that saturates at
  `U128_MAX` and `U64_MAX` (`SaturatingSum`). Gas is counted in GGas, so the constants of `lib.rs` keep their ratios.
  `GasCharged` and `DepositSent` are the exact reference sums. `GasCharged` takes the
  fees from the constants of `lib.rs`; fees per byte of the arguments, for which the
  code has no constant and leaves a margin, are not in it.
* `DaoTimelock` (extends `Request`): all deployed timelocks at once, one action
  per contract method, plus the receipts they send (`batches`, `callbacks`,
  `votes`, `refunds`), the Sputnik DAOs as sequences of proposals, NEAR
  balances and the clock.
  `scheduled`, `executed`, `cancelled` record the contract's events;
  `delivered` and `stranded` record what became of batches and bounced refunds.
* `DaoTimelockProofs` (extends `QueueRefinement`) and `SettlementProofs`, which
  extends it: the theorems about `DaoTimelock`. `RequestProofs`, `WhitelistProofs`,
  `SpendingAccountProofs`, `ViewsProofs` and `TreasuryProofs` are about the modules
  in their names, and `SumLemmas` about sums over finite sets and folds over sequences.
* `Whitelist`: what the five manager methods do to a whitelist, in closed form.
  `MCWhitelist` has the loops of the source beside them (`Loop`, with one body per
  method).
* `SpendingAccount` (extends `Whitelist`): all spending accounts at once, one
  action per method. A transfer is charged and sent (`Send`), succeeds or fails
  at the receiver (`Succeeds`, `Fails`), and is settled by its callback.
  `granted`, `revoked`, `paid`, `fees` are history, and so are `charged` and
  `rolled_back`, the sums of the transfer and of the failure events.
* `VetoQueue`: the abstract queue a timelock promises (entries with a due time
  and an optional predecessor that wait, are vetoed, run, end).
  `QueueRefinement` (extends `DaoTimelock`) maps the timelock to it: the entry of
  a request is read off the events, with the due time computed from the delay
  recorded at scheduling and not from the stored `execute_after`.
* `AllowanceLedger`: the abstract ledger a spending account promises (available,
  reserved, paid). `SpendingAccount` instantiates it as `Ledger`: available is the
  remaining limit, reserved what is in flight and has not succeeded.
* `Treasury` (extends `DaoTimelock`, instantiates `SpendingAccount` as `SA`):
  timelocks in front of spending accounts. `calls` is history: every call in effect,
  with the request it belongs to and the nonce of the transfer it has sent.
* `Views`: the paged views over an `IterableMap` that changes between two pages.
* `MCRequest`, `MCTimelock`, `MCWhitelist`, `MCSpending`, `MCTreasury`: the
  instances for TLC. `Views` is run as it is.

### How code became actions

* A panic reverts the whole method, so a failed `require!` or `expect` is a
  guard. A method changes its contract and sends receipts in one step.
* A batch runs atomically at its receiver. A batch of setters is therefore one
  step (`Configure`): the last call of each setter stands, and `assert_admin`
  checks the caller against the admin the earlier calls left, which is how a
  batch that gives the admin role away too early fails as a whole.
* In `Treasury` a batch for a spending account is not one step, because its
  calls are actions of another module. `Begin` takes the receipt up and saves the
  state in `running`, `Invoke` runs the next call as the action of `SpendingAccount` with the
  timelock as caller, `Commit` ends the receipt and `Revert` puts the saved state
  back and lets the batch fail. While `running` holds a batch nothing else may
  happen, so the calls are atomic for everybody else: that the actions of one receipt
  run without interruption and are undone together is the promise of NEAR's runtime
  that the code builds on, and is assumed. Accounts that are no
  timelocks call the spending account directly (`DirectCall`).
* `execute` removes the request before it looks at the predecessor, so
  `PredecessorLeft` ignores a request that would name itself.
* The proposal kind is stored as JSON text and parsed again in the callback;
  `ToJson` and `FromJson` keep the two forms apart.
* A zero refund sends no transfer, as in `cancel` and `on_proposal_added`.

### Assumptions about the environment

* Receipts of one sender to one receiver arrive in order of sending
  (`dao-timelock/README.md`: "NEAR processes receipts to the same receiver in
  dispatch order"); all other receipts arrive in any order.
* A failed receipt returns its deposit to the sender before the callback runs.
* A batch, a proposal, a vote, a transfer or a refund may fail at any time and
  for any reason; a refund that fails stays on the timelock.
* Other contracts keep the deposits they receive and do not call back.
* The DAO of a timelock is a Sputnik DAO, and guardians are ordinary accounts.
  A batch addressed to a timelock has an effect only if it consists of setters:
  `schedule` and `cancel` would need a timelock in the role of DAO or guardian,
  and `execute` can be called by anyone anyway.
* Proposal ids count from 1 instead of 0.
* The u64 clock in nanoseconds does not come within `MAX_DELAY_NS` of its end
  (`ClockAssumption`).
* A pending request locks `StorageCost` of the timelock's balance, whatever its
  size, and a call that would leave less than the pending requests cost fails
  (`StorageCovered`). Timelocks are deployed with enough for all their requests
  (`StorageAssumption`), as `dao-timelock/README.md` asks: "The timelock should
  hold a small NEAR balance to cover storage for pending requests." Without it a
  request stored on its predecessor's escrow would keep the predecessor from
  being executed or cancelled.
* Gas burnt by contract code is not modelled.
* `IterableMap` appends new keys to its vector and fills the gap of a removed key
  with the last one (near-sdk 5.9).

## Runs

| Run | Instance | Properties | Distinct states |
|---|---|---|---|
| `request` | all requests of up to 3 calls, amounts at 0, 1, half the width and the maximum | `EscrowMatchesBatch`, `AcceptedRequestsAreExecutable` | 21,845 |
| `queue` | 1 self-administered timelock, 3 requests: plain batches with a deposit, one too costly, `[set_dao, set_delay]` on itself | `VetoWindow`, `OneFate`, `FrozenAtScheduling`, `PredecessorRunsFirst`, `RefundsReachFunder`, `EscrowExact` | 684,560 |
| `policy` | policy timelock administering itself and a second one; batches that change a setting twice, give the role away last or too early; direct calls | `TypeOK`, `ConfigChangesWait` | 563,858 |
| `proposal` | 2 requests among proposals with and without bond and a change of DAO, up to 3 proposals on the target DAO | `VoteOnOwnProposal`, `RefundsReachFunder`, `EscrowExact`, `ImplementsVetoQueue` | 187,419 |
| `live` | 2 requests, plain, too costly in gas, or proposals, under `FairSpec` | `QueueDrains`, `ProposalsSettle` | 79,326 |
| `whitelist` | all whitelists over 4 keys, all vectors of up to 3 elements, limits 0..2 | `BatchesAreAtomicLoops` | 30,160 |
| `spending` | 1 account, NEAR and a token, 3 transfers, 4 edits by manager and admin | `TypeOK`, `AllowanceConserved`, `FundsAccounted`, `SelfNotWhitelisted`, `EventsTellPayments`, `NoResurrection` | 855,604 |
| `chain` | fund pays surplus account pays vendor, 3 transfers, 3 edits, under `FairSpec` | `AllowanceConserved`, `FundsAccounted`, `ImplementsLedger`, `ReservationsEnd` | 162,270 |
| `treasury` | policy timelock (no delay, no guardians) with 1 request, payment timelock with 2, one spending account; batches that whitelist, pay, remove and reassign all roles; direct calls | `PaymentsVoted`, `BatchesAllOrNothing`, `AccountChangesWait` | 817,759 |
| `views` | both views, 4 keys, pages of 1 and 2, up to 3 removals in a scan | `MissedOnlyByRemoval`, `ListedTwiceOnlyIfReturned` | 1,907,626 |
| `rollback` | as `spending` | `RollbackSkippedAfterRemoval` is violated | |
| `shortcut` | as `treasury`, with a batch that whitelists and pays | `NewRecipientTakesTwoVotes` is violated | |

What they show:

* **Queue.** A request runs no earlier than the delay that was in force when it
  was scheduled (`VetoWindow`), unchanged (`FrozenAtScheduling`), once or not at
  all (`OneFate`). A dependent batch reaches a shared receiver after its
  predecessor's (`PredecessorRunsFirst`). Refunds return the attached amount to
  the DAO that attached it, even after `set_dao` (`RefundsReachFunder`). The
  balance is exactly the escrow of pending requests, the bonds owed by
  callbacks and the money failed batches left behind (`EscrowExact`); so no
  `execute`, `cancel` or refund ever spends another request's deposit.
* **Configuration.** As long as the admin is a timelock, the configuration
  changes only by a batch that this admin executed after its own delay and that
  no guardian cancelled (`ConfigChangesWait`).
* **Proposals.** The vote is cast on the request's own proposal with its kind,
  whatever else was added in between (`VoteOnOwnProposal`).
* **Liveness.** Everything accepted by `schedule` can be executed: predecessors
  form no cycle, and gas and funds suffice (`QueueDrains`); executed proposal
  requests end in a vote or in a refund (`ProposalsSettle`). Both legs are in the
  run: without the check of predecessors a cycle stays, without the limit on gas a
  request that no transaction can carry. Every transfer is settled, because its
  callback never panics (`ReservationsEnd`).
* **Spending account.** All that was ever granted for a recipient and an asset
  is unspent, in flight, paid or revoked (`AllowanceConserved`); funds leave
  only as payments and as one yocto per successful `ft_transfer`
  (`FundsAccounted`); a late callback never revives a removed entry
  (`NoResurrection`); no path whitelists the contract itself
  (`SelfNotWhitelisted`). The sums of its events less the reported failures are
  what was paid and what is under way, even for a recipient removed meanwhile
  (`EventsTellPayments`).
* **Abstractions.** Every step of a timelock is a step of the veto queue or
  changes nothing there (`ImplementsVetoQueue`), every step of a spending account
  one of the ledger (`ImplementsLedger`): in particular what is available to the
  spender never moves by itself, only by a call of the manager, a charge, or the
  return of a failed charge.
* **Treasury.** While a role of a spending account is held by a timelock, payments
  (spender), entries added, removed, raised or lowered (manager) and new holders of
  roles (admin) happen only inside a batch of that timelock that waited out its
  delay and was not cancelled, even when the policy timelock reassigns the roles
  between `execute` and the arrival of the batch (`AccountChangesWait`). The only
  other ways a limit moves are a payment, by its amount, and the return of a failed
  one. What is in flight to a recipient is what one call of a scheduled request
  says, and no call takes effect twice (`PaymentsVoted`). A batch that fails after
  some of its calls leaves none of them behind (`BatchesAllOrNothing`).
* **Views.** Read to the end page by page, a view misses at most one entry per
  entry removed meanwhile (`MissedOnlyByRemoval`), and no request is listed twice
  (`ListedTwiceOnlyIfReturned`). Only `get_requests` without a limit shows a
  guardian the whole queue for certain.

### Findings

Both are sentences of the documentation that the code does not keep.

* `rollback`: `spending-account/README.md:10`, "The rollback is skipped if the
  record was removed in the meantime." The callback looks only for an entry under
  the same key (`transfer.rs:48`). When the manager removes a recipient and adds
  it again while a transfer is in flight, the failed amount is added to the new
  limit. The unit tests `test_near_rollback_after_readd_tops_up_fresh_limit` and
  its token counterpart expect this, so the README is the one to change.
* `shortcut`: `README.md:42-44`, "paying a new recipient costs two votes and two
  full delays". Spender and manager are the same timelock and a request is a batch
  of calls, so one request `[add_to_whitelist, transfer]` does both after one vote
  and one delay. (Two requests scheduled together would also share one delay.)

Each property has a mutant of the code that violates it (`PROJECT.json`,
"mutants"); the mutated forms stand before the definitions they replace.

### Bounds

`MaxRequests` and `Capacity` bound the ids, `MaxTime` the clock, `MaxProposals`
the proposals of a DAO, `MaxTransfers` and `MaxEdits` the calls on a spending
account. Delays are 0 and 1, with 1 the maximum, so a request frozen with the
old delay can wait beside one that is due at once; requests are only scheduled while the
clock can still outlast the delay, so `QueueDrains` is not an artefact of
`MaxTime`. Three requests allow a chain of predecessors and a change of DAO
between two others. Widths are small (`U128_MAX` = 3 in `spending`) so that
saturation and overflow happen. Three transfers and four edits allow add, send,
remove, add again, fail. In `treasury` two requests of the payment timelock
allow whitelisting and then paying, with the request of the policy timelock
anywhere in between; `MaxTransfers` is out of reach there, and `MaxEdits` is met only
by repeated direct calls once an outside account has become manager.
`CHECK_DEADLOCK FALSE` is set because the bounds end
every behaviour.

### Fairness

`Fairness` of `DaoTimelock` asks that time passes (blocks are produced), that every kind of
receipt is eventually processed (the protocol guarantees it), and that someone
calls `execute` on an executable request, which anyone may do. Nothing is asked
of DAOs, guardians, admins and of the success of any receipt. `Fairness` of
`SpendingAccount` asks that every transfer's receipt and callback are processed.
The other runs check safety and need no fairness.

## Proofs

Everything below is proved for any sets of accounts, any arguments and any bounds
that satisfy the named assumptions. Each inductive invariant was checked with TLC
on the instances of the runs before it was proved (`TreasuryInv` with the number of a
call bounded). Every invariant and every action
property that a passing run checks is a theorem, and so are both refinements.

| Module | Inductive invariant | Theorems |
|---|---|---|
| `DaoTimelockProofs` | `IInv` | `TypeCorrect`, `VetoWindowHolds`, `OneFateHolds`, `FrozenAtSchedulingHolds`, `ConfigChangesWaitHolds` |
| | `DeliveryInv` | `PredecessorRunsFirstHolds`, `QueueRefinementHolds`: `Spec => ImplementsVetoQueue` |
| `SettlementProofs` | `SettlementInv` | `EscrowExactHolds`, `RefundsReachFunderHolds`, `VoteOnOwnProposalHolds` |
| `RequestProofs` | `RequestOK` | `EscrowMatchesBatchHolds`, `AcceptedRequestsAreExecutableHolds` |
| `WhitelistProofs` | `WhitelistInv` | `BatchesAreAtomicLoopsHolds` |
| `SpendingAccountProofs` | `SpendingInv` | `SpendingTypeOK`, `SelfNotWhitelistedHolds`, `AllowanceConservedHolds`, `EventsTellPaymentsHolds`, `FundsAccountedHolds`, `NoResurrectionHolds`, `LedgerRefinement`: `Spec => ImplementsLedger` |
| `ViewsProofs` | `ViewsInv` | `MissedOnlyByRemovalHolds`, `ListedTwiceOnlyIfReturnedHolds` |
| `TreasuryProofs` | `TreasuryInv` | `TimelocksOfTreasury`: `TreasurySpec => Spec`, `PaymentsVotedHolds`, `BatchesAllOrNothingHolds`, `AccountChangesWaitHolds` |

**`IInv`** is `TypeOK /\ ProposalShape /\ FrozenAtScheduling /\ OneFate /\
VetoWindow`. None of the last three is inductive alone. `VetoWindow` compares the
time of execution with the recorded delay, while the code compares it with the
stored `execute_after`; `FrozenAtScheduling` ties the two together.
`FrozenAtScheduling` in turn needs `OneFate`: a new id must be one never handed
out, or scheduling would overwrite the record of an older request.
`ProposalShape` is what makes the receivers of proposal requests DAOs, which
`TypeOK` needs for callbacks and votes. `ConfigChangesWait` follows from `IInv`:
only `Configure` touches the configuration, and the batch behind it is one that
`executed` and `scheduled` know.

**`DeliveryInv`** adds that what was executed is in flight or was delivered, once
(`DeliveredOnce`), and that a predecessor has the smaller id and, if executed at
all, was executed earlier (`ExecutedInOrder`). The order of execution is the order
of the nonces, and receipts to one receiver arrive in that order; hence
`PredecessorRunsFirst`. The refinement of `VetoQueue` rests on the same facts.

**`SettlementInv`** adds what scheduling, batches, callbacks and votes know of each
other: the deposit recorded is what `total_deposit` computes, a callback carries
funder, bond and kind of its request and the id of the proposal that this request
added, or the request has failed. `EscrowExact` is an equation between a balance and
two sums, so each action has a lemma on how it moves a summand.

**`SpendingInv`** is `TypeOK`, `Registered` and the four invariants of the run.
`Registered` says that the transfers are finitely many and that their nonces are
below `sent` and unique; without it a new transfer could coincide with an old one and the
set, and every sum over it, would not grow. `AllowanceConserved` makes `revoked` count
what a saturating or skipped rollback loses.

**`ViewsInv`**: no key has two places; what is ahead of the reader and was seen
before has come back; and the lasting keys that the reader has passed unseen
(`Missed`) are at most `removals`. A removal moves one key, the last, so it adds at
most that one; the next page shows all that it passes by.

**`TreasuryInv`** is `DeliveryInv`, the record of calls, transfers and counts
(`Recorded`), that delivered batches are whole (`Whole`), and, while a batch runs: it
is in flight, the saved state is one between two batches, every call is of a
delivered batch or of the running one, and of the running one exactly the first
`next - 1` were made. So a call about to run was not made before, `Commit` finds all
calls of the batch made, and `Revert` falls back on the saved calls, among which there
is none of a batch not delivered. `AccountChangesWait` then needs only what a
single method of the account changes and who may call it; that a charge is no edit
rests on the nonces, which make the transfer sent a new one.

**Requests.** `RequestOK` and `WhitelistInv` only say what the arguments are made of;
the work is in the lemmas about folds. Adding with saturation at every step gives the
exact sum cut off once at the width (`SaturatingSumIsCut`), for any number of calls.
So a `total_deposit` below the width is the exact deposit, and a `total_gas` within
`MAX_EXECUTION_GAS`, which is below the width of a u64, is the exact gas.

**Loops of the whitelist.** A closed form speaks about the whole vector (the last
entry of a key, the total of its changes), a loop about one element after another.
`WhitelistProofs` generalises each closed form to what the loop has done after the
elements with the indices in a set, or that it has panicked, and shows that one more
index is one more run of the body. For `increase_limit` this needs that totals only
grow, so that an overflow on the way is one at the end; for `decrease_limit` that
flooring at every step is flooring once.

**Sums and folds.** `SumFunctionOnSet` and `FoldLeft` are folds, and the induction
theorems of the library cannot be instantiated. `SumLemmas` derives what is needed (a
sum does not depend on the order; adding, removing and replacing a summand, images,
zero summands; what a saturating fold computes) from the one-step equation of the fold,
by taking a minimal finite set on which the claim fails, which needs no induction
principle with an operator as parameter.

**Assumptions.** Those a deployment satisfies: account sets are disjoint and,
where sums range over them, finite (`FiniteAssumption`); `None` is no value
(`NoneAssumption`, `EntryAssumption`, `ResultAssumption`); arguments have the types
of the signatures, a bond that of a `NearToken` (`ArgsAssumption`,
`ActionsAssumption`, `AmountAssumption`, `AmountsAssumption`); the supply of NEAR fits
into a u128 and the gas limit of a request into a u64 (`SupplyAssumption`,
`GasAssumption`); roles are deployed (`AccountDeployAssumption`); the clock does not
overflow (`ClockAssumption`). That the deposits of a request add up to an amount is
proved (`DepositType`).

Only model-checked:

* liveness (`QueueDrains`, `ProposalsSettle`, `ReservationsEnd`): fairness and
  `ENABLED` are beyond the prover;
* the two runs that expect a violation.

## Plan

1. Done: the modules, the runs, and the proofs above.
2. Left: the ledger of a spending account inside the treasury, where a failing
   batch takes several of its steps back.

## Not modelled

The views of a single value (`get_dao`, `get_request`, `get_whitelist_entry` and
the like return a variable of the model as it is) and the JSON layout of events
and view results; the `approve_proposal` and `proposal_failed` events as records
of their own (they coincide with the vote and the refund that are sent); the
dependence of storage costs on the size of a request and gas burnt by contract
code (not determined by the source); the inside of Sputnik DAOs and tokens
(third-party binaries, modelled only as the contracts use them); build, release
and test tooling.
