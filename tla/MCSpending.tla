---------------------------- MODULE MCSpending ----------------------------
(***************************************************************************)
(* Small deployments of SpendingAccount: a fund that may pay a second      *)
(* spending account, which pays vendors.                                   *)
(***************************************************************************)
EXTENDS SpendingAccount

CONSTANTS swf, ssa,             \* spending accounts
          vendor,               \* an account outside the treasury
          timelock, council,    \* role holders
          usd                   \* a token

Entry(account_id, token_id, limit) ==
    [account_id |-> account_id, token_id |-> token_id, limit |-> limit]

Change(account_id, token_id, amount) ==
    [account_id |-> account_id, token_id |-> token_id, amount |-> amount]

EntryKey(account_id, token_id) == [account_id |-> account_id, token_id |-> token_id]

\* The timelock is spender and manager, the council's timelock the admin.
Wiring ==
    {[spender_id |-> [a \in SpendingAccounts |-> timelock],
      manager_id |-> [a \in SpendingAccounts |-> timelock],
      admin_id   |-> [a \in SpendingAccounts |-> council]]}

OneHolder ==
    {[spender_id |-> [a \in SpendingAccounts |-> timelock],
      manager_id |-> [a \in SpendingAccounts |-> timelock],
      admin_id   |-> [a \in SpendingAccounts |-> timelock]]}

Purse == [a \in SpendingAccounts |-> [asset \in Assets |-> 3]]

VendorEntries == {<<Entry(vendor, None, 2), Entry(vendor, usd, 1)>>, <<Entry(vendor, usd, 1)>>,
                  <<Entry(ssa, None, 1)>>}
VendorKeys    == {<<EntryKey(vendor, None)>>, <<EntryKey(vendor, usd)>>}
VendorChanges == {<<Change(vendor, None, 1), Change(vendor, None, 1)>>,
                  <<Change(vendor, usd, 2)>>, <<Change(ssa, None, 1)>>}

\* For a fund that pays its surplus account, which pays a vendor.
ChainEntries  == {<<Entry(ssa, None, 2), Entry(ssa, usd, 1)>>,
                  <<Entry(vendor, None, 2), Entry(vendor, usd, 1)>>}
ChainPurse    == [a \in SpendingAccounts |-> [asset \in Assets |-> IF a = swf THEN 3 ELSE 0]]
===========================================================================
