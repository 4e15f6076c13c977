----------------------------- MODULE Whitelist -----------------------------
(***************************************************************************)
(* What the manager's methods of the spending-account contract do to the   *)
(* whitelist (spending-account/src/whitelist.rs).  A whitelist is a total  *)
(* function from keys, pairs of a recipient and a token, to remaining      *)
(* limits; None stands for a missing entry, and as a token for native      *)
(* NEAR.  A method takes a whole vector of elements and is given here in   *)
(* closed form; None as its result means that it panics.                   *)
(***************************************************************************)
EXTENDS Integers, Sequences, FiniteSetsExt

CONSTANTS None,      \* Rust's Option::None
          U128_MAX   \* the largest limit

ASSUME U128Assumption == U128_MAX \in Nat

Key(element) == <<element.account_id, element.token_id>>

KeysOf(elements) == {Key(elements[i]) : i \in DOMAIN elements}

\* The limit of the last entry for key k.
LastLimit(entries, k) ==
    entries[CHOOSE i \in DOMAIN entries :
               /\ Key(entries[i]) = k
               /\ \A j \in i + 1 .. Len(entries) : Key(entries[j]) # k].limit

\* The sum of all changes for key k.
TotalChange(changes, k) ==
    SumFunctionOnSet([i \in DOMAIN changes |-> changes[i].amount],
                     {i \in DOMAIN changes : Key(changes[i]) = k})

Limit(w, k) == IF w[k] = None THEN 0 ELSE w[k]

AllPresent(w, elements) == \A k \in KeysOf(elements) : w[k] # None

NoDuplicates(elements) ==
    \A i, j \in DOMAIN elements : Key(elements[i]) = Key(elements[j]) => i = j

NotSelf(self, elements) == \A i \in DOMAIN elements : elements[i].account_id # self

\* w with the limits f gives to the keys of the elements, if the call is valid.
Update(valid, w, elements, f(_)) ==
    IF elements # << >> /\ valid
    THEN [k \in DOMAIN w |-> IF k \in KeysOf(elements) THEN f(k) ELSE w[k]]
    ELSE None

add_to_whitelist(self, w, entries) ==
    Update(/\ NotSelf(self, entries) /\ NoDuplicates(entries)
           /\ \A k \in KeysOf(entries) : w[k] = None,
           w, entries, LAMBDA k : LastLimit(entries, k))

remove_from_whitelist(w, keys) ==
    Update(NoDuplicates(keys) /\ AllPresent(w, keys), w, keys, LAMBDA k : None)

set_limit(w, entries) ==
    Update(AllPresent(w, entries), w, entries, LAMBDA k : LastLimit(entries, k))

\* Mutant: the contract itself may get an allowance, and so be created.
IncreaseAny(self, w, changes) ==
    Update(\A k \in KeysOf(changes) : Limit(w, k) + TotalChange(changes, k) <= U128_MAX,
           w, changes, LAMBDA k : Limit(w, k) + TotalChange(changes, k))

increase_limit(self, w, changes) ==
    Update(/\ NotSelf(self, changes)
           /\ \A k \in KeysOf(changes) : Limit(w, k) + TotalChange(changes, k) <= U128_MAX,
           w, changes, LAMBDA k : Limit(w, k) + TotalChange(changes, k))

\* Mutant: - instead of saturating_sub.
DecreaseNoFloor(w, changes) ==
    Update(AllPresent(w, changes), w, changes, LAMBDA k : w[k] - TotalChange(changes, k))

decrease_limit(w, changes) ==
    Update(AllPresent(w, changes), w, changes,
           LAMBDA k : IF w[k] < TotalChange(changes, k) THEN 0
                      ELSE w[k] - TotalChange(changes, k))
============================================================================
