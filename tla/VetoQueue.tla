----------------------------- MODULE VetoQueue -----------------------------
(***************************************************************************)
(* What a timelock promises the DAO and its guardians (README.md), without *)
(* deposits, roles, receipts or configuration.  An entry is submitted with *)
(* the time at which it is due and, optionally, an entry it comes after.   *)
(* While it waits it may be vetoed; it starts to run at most once, not     *)
(* before it is due and not while the entry it comes after still waits.    *)
(* What it was submitted with never changes.                               *)
(***************************************************************************)
EXTENDS Integers

CONSTANTS Queues, Ids, Times, None

VARIABLES now, entry

Entry(due, after, state) == [due |-> due, after |-> after, state |-> state]

In(q, id, state) == entry[q][id] # None /\ entry[q][id].state = state

Init ==
    /\ now = 0
    /\ entry = [q \in Queues |-> [id \in Ids |-> None]]

\* Ids are handed out in order.
Submit(q, id, due, after) ==
    /\ entry[q][id] = None
    /\ \A earlier \in Ids : earlier < id => entry[q][earlier] # None
    /\ due >= now
    /\ after # None => In(q, after, "waiting")
    /\ entry' = [entry EXCEPT ![q][id] = Entry(due, after, "waiting")]
    /\ UNCHANGED now

Move(q, id, from, to) ==
    /\ In(q, id, from)
    /\ entry' = [entry EXCEPT ![q][id].state = to]
    /\ UNCHANGED now

Veto(q, id) == Move(q, id, "waiting", "vetoed")

Run(q, id) ==
    /\ Move(q, id, "waiting", "running")
    /\ now >= entry[q][id].due
    /\ entry[q][id].after # None => ~In(q, entry[q][id].after, "waiting")

End(q, id) == Move(q, id, "running", "done") \/ Move(q, id, "running", "failed")

Advance == now' = now + 1 /\ UNCHANGED entry

Next ==
    \/ \E q \in Queues, id \in Ids :
         \/ \E due \in Times, after \in Ids \cup {None} : Submit(q, id, due, after)
         \/ Veto(q, id) \/ Run(q, id) \/ End(q, id)
    \/ Advance

Spec == Init /\ [][Next]_<<now, entry>>
============================================================================
