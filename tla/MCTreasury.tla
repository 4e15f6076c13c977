----------------------------- MODULE MCTreasury -----------------------------
(***************************************************************************)
(* The surplus spending account as scripts/deploy-mainnet-test.sh deploys  *)
(* it: the Payment Timelock spends and manages, the Policy Timelock, with  *)
(* no delay and no guardians, administers.                                 *)
(***************************************************************************)
EXTENDS Treasury

CONSTANTS policy, payment,          \* timelocks
          council, payers,          \* DAOs
          guardian, vendor, ssa,    \* other accounts
          usd                       \* a token

Timelock ==
    {[dao_id    |-> [t \in Timelocks |-> IF t = policy THEN council ELSE payers],
      admin_id  |-> [t \in Timelocks |-> policy],
      guardians |-> [t \in Timelocks |-> IF t = policy THEN {} ELSE {guardian}],
      delay_ns  |-> [t \in Timelocks |-> IF t = policy THEN 0 ELSE 1]]}

Account ==
    {[spender_id |-> [a \in SpendingAccounts |-> payment],
      manager_id |-> [a \in SpendingAccounts |-> payment],
      admin_id   |-> [a \in SpendingAccounts |-> policy]]}

Call(method_name, args) ==
    [method_name |-> method_name, args |-> args, deposit |-> 0, gas |-> 30000]

Batch(actions) == [receiver_id |-> ssa, actions |-> actions]

Entry(token_id, limit) == [account_id |-> vendor, token_id |-> token_id, limit |-> limit]
Change(token_id, amount) == [account_id |-> vendor, token_id |-> token_id, amount |-> amount]

Add      == Call("add_to_whitelist", [entries |-> <<Entry(None, 2), Entry(usd, 1)>>])
Drop     == Call("remove_from_whitelist", [keys |-> <<[account_id |-> vendor, token_id |-> usd]>>])
Set      == Call("set_limit", [entries |-> <<Entry(None, 1)>>])
Increase == Call("increase_limit", [changes |-> <<Change(None, 1)>>])
Decrease == Call("decrease_limit", [changes |-> <<Change(None, 1)>>])
Pay      == Call("transfer", [receiver_id |-> vendor, amount |-> 1])
PayUsd   == Call("transfer_ft", [receiver_id |-> vendor, token_id |-> usd, amount |-> 1])
Spender  == Call("set_spender", [spender_id |-> policy])
Manager  == Call("set_manager", [manager_id |-> council])
Admin    == Call("set_admin", [admin_id |-> council])

\* Batches that whitelist, that pay, that reassign the roles, and one that
\* whitelists and pays at once.
Batches == {Batch(<<Add, Decrease>>), Batch(<<Increase, Pay>>), Batch(<<PayUsd, Drop, Set>>),
            Batch(<<Spender, Manager, Admin>>)}
Shortcut == {Batch(<<Add>>), Batch(<<Pay>>), Batch(<<Add, Pay>>)}

Outside == {Pay, Set, Drop}

Room  == [t \in Timelocks |-> IF t = policy THEN 1 ELSE 2]
Funds == [a \in Accounts |-> IF a \in Timelocks THEN 2 ELSE 0]
Purse == [a \in SpendingAccounts |-> [asset \in Tokens \cup {None} |-> 3]]
============================================================================
