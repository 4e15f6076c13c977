---------------------------- MODULE MCWhitelist ----------------------------
(***************************************************************************)
(* Checks the closed forms of module Whitelist against the loops of the    *)
(* source, element by element, for every whitelist over Keys and every     *)
(* vector of at most MaxElements elements.  The vector grows by one        *)
(* element at a time.                                                      *)
(***************************************************************************)
EXTENDS Whitelist, SequencesExt

CONSTANTS Self, Recipients, Tokens, MaxElements

Keys == ({Self} \cup Recipients) \X (Tokens \cup {None})

Limits == 0 .. U128_MAX

\* A missing entry is not a limit, a panic not a whitelist.
ASSUME EntryAssumption == None \notin Nat /\ None \notin [Keys -> Limits \cup {None}]

Put(w, k, limit) == [w EXCEPT ![k] = limit]

\* The bodies of the loops: what one element does to the whitelist.
add_one(w, e) ==
    IF e.account_id = Self \/ w[Key(e)] # None THEN None ELSE Put(w, Key(e), e.limit)

remove_one(w, e) == IF w[Key(e)] = None THEN None ELSE Put(w, Key(e), None)

set_one(w, e) == IF w[Key(e)] = None THEN None ELSE Put(w, Key(e), e.limit)

increase_one(w, e) ==
    IF e.account_id = Self \/ Limit(w, Key(e)) + e.amount > U128_MAX THEN None
    ELSE Put(w, Key(e), Limit(w, Key(e)) + e.amount)

decrease_one(w, e) ==
    IF w[Key(e)] = None THEN None
    ELSE Put(w, Key(e), IF w[Key(e)] < e.amount THEN 0 ELSE w[Key(e)] - e.amount)

Body(method, w, e) ==
    CASE method = "add_to_whitelist"      -> add_one(w, e)
      [] method = "remove_from_whitelist" -> remove_one(w, e)
      [] method = "set_limit"             -> set_one(w, e)
      [] method = "increase_limit"        -> increase_one(w, e)
      [] method = "decrease_limit"        -> decrease_one(w, e)

\* The loop of a method, from element to element, None once an element panics.
Loop(method, w, elements) ==
    IF elements = << >> THEN None
    ELSE FoldLeft(LAMBDA acc, e : IF acc = None THEN None ELSE Body(method, acc, e), w, elements)

VARIABLES whitelist, elements

\* An element serves as entry, key and change: limit and amount are one number.
Element(k, n) == [account_id |-> k[1], token_id |-> k[2], limit |-> n, amount |-> n]

Init ==
    /\ whitelist \in [Keys -> Limits \cup {None}]
    /\ \A k \in Keys : k[1] = Self => whitelist[k] = None
    /\ elements = << >>

Next ==
    /\ Len(elements) < MaxElements
    /\ \E k \in Keys, n \in Limits : elements' = Append(elements, Element(k, n))
    /\ UNCHANGED whitelist

Spec == Init /\ [][Next]_<<whitelist, elements>>

\* For every batch the closed forms give what the loops of whitelist.rs give:
\* duplicates, overflow, flooring at zero and the panic of a later element,
\* which reverts the earlier ones.
BatchesAreAtomicLoops ==
    /\ add_to_whitelist(Self, whitelist, elements) = Loop("add_to_whitelist", whitelist, elements)
    /\ remove_from_whitelist(whitelist, elements) = Loop("remove_from_whitelist", whitelist, elements)
    /\ set_limit(whitelist, elements) = Loop("set_limit", whitelist, elements)
    /\ increase_limit(Self, whitelist, elements) = Loop("increase_limit", whitelist, elements)
    /\ decrease_limit(whitelist, elements) = Loop("decrease_limit", whitelist, elements)
============================================================================
