---------------------------- MODULE MCTimelock ----------------------------
(***************************************************************************)
(* Small deployments of DaoTimelock.  Delays are 0 and 1, the maximum.     *)
(***************************************************************************)
EXTENDS QueueRefinement, TLC

CONSTANTS policy, payment,  \* timelocks
          council, payers,  \* DAOs
          guardian, vendor  \* other accounts

Call(method_name, args, deposit) ==
    [method_name |-> method_name, args |-> args, deposit |-> deposit, gas |-> 30000]

Batch(receiver_id, actions) == [receiver_id |-> receiver_id, actions |-> actions]

\* Plain batches: one that carries a deposit, one that needs more gas than
\* a transaction can carry.
Buy       == Batch(vendor, <<Call("buy", None, 1), Call("ship", None, 0)>>)
TooCostly == Batch(vendor, <<[Call("buy", None, 0) EXCEPT !.gas = 300000]>>)

\* Batches of setters for timelock t.  The last one panics: it gives the
\* admin role away before it is done.
NewDao(t)    == Batch(t, <<Call("set_dao", [dao_id |-> council], 0),
                           Call("set_delay", [delay_ns |-> 0], 0)>>)
NoDelay(t)   == Batch(t, <<Call("set_delay", [delay_ns |-> 1], 0),
                           Call("set_delay", [delay_ns |-> 0], 0)>>)
GiveAway(t)  == Batch(t, <<Call("set_guardians", [guardians |-> {}], 0),
                           Call("set_admin", [admin_id |-> vendor], 0)>>)
TooLate(t)   == Batch(t, <<Call("set_admin", [admin_id |-> vendor], 0),
                           Call("set_guardians", [guardians |-> {}], 0)>>)

Proposal(d, kind, bond) ==
    [dao_id |-> d, kind |-> kind, proposal_bond |-> bond,
     add_proposal_gas |-> 30000, act_proposal_gas |-> 100000]

Funds == [a \in Accounts |-> IF a \in Daos THEN 2
                            ELSE IF a \in Timelocks THEN StorageCost * Capacity[a] ELSE 0]

Full == [t \in Timelocks |-> MaxRequests]

\* One self-administered timelock.
SelfAdministered ==
    {[dao_id    |-> [t \in Timelocks |-> payers],
      admin_id  |-> [t \in Timelocks |-> t],
      guardians |-> [t \in Timelocks |-> {guardian}],
      delay_ns  |-> [t \in Timelocks |-> 1]]}

QueueArgs == {Buy, TooCostly, NewDao(payment)}

\* The policy timelock administers itself and the payment timelock.
Policy ==
    {[dao_id    |-> [t \in Timelocks |-> IF t = policy THEN council ELSE payers],
      admin_id  |-> [t \in Timelocks |-> policy],
      guardians |-> [t \in Timelocks |-> {guardian}],
      delay_ns  |-> [t \in Timelocks |-> 1]]}

PolicyArgs == {NoDelay(policy), GiveAway(payment), TooLate(payment)}

PolicyCapacity == [t \in Timelocks |-> IF t = policy THEN 2 ELSE 1]

PolicySetters == {Call("set_delay", [delay_ns |-> 0], 0), Call("set_delay", [delay_ns |-> 2], 0)}

ProposalSet == {Proposal(council, "signers", 1), Proposal(council, "policy", 0)}
LiveArgs    == {Buy, TooCostly}
ReplaceDao  == {NewDao(payment)}
============================================================================
