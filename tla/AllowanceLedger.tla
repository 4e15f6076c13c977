-------------------------- MODULE AllowanceLedger --------------------------
(***************************************************************************)
(* What a spending account promises (spending-account/README.md), without  *)
(* receipts, results or callbacks.  An allowance has three parts: what is  *)
(* available to the spender, what is reserved for transfers under way, and *)
(* what has been paid.  Only a call of the manager moves what is available *)
(* by itself; a payment comes out of what was reserved, a reservation out  *)
(* of what was available, and of a failed reservation at most its amount   *)
(* becomes available again.                                                *)
(***************************************************************************)
EXTENDS Integers

CONSTANTS Accounts, Keys,   \* spending accounts; recipients with an asset
          MaxLimit          \* the largest allowance

VARIABLES available, reserved, paid,   \* per account and key
          edits                        \* calls of the manager or the admin

ledger == <<available, reserved, paid, edits>>

Empty == [a \in Accounts |-> [k \in Keys |-> 0]]

Init == available = Empty /\ reserved = Empty /\ paid = Empty /\ edits = 0

Regrant(a) ==
    /\ edits' = edits + 1
    /\ available' \in [Accounts -> [Keys -> 0 .. MaxLimit]]
    /\ \A b \in Accounts \ {a} : available'[b] = available[b]
    /\ UNCHANGED <<reserved, paid>>

Reserve(a, k, n) ==
    /\ n <= available[a][k]
    /\ available' = [available EXCEPT ![a][k] = @ - n]
    /\ reserved' = [reserved EXCEPT ![a][k] = @ + n]
    /\ UNCHANGED <<paid, edits>>

Pay(a, k, n) ==
    /\ n <= reserved[a][k]
    /\ reserved' = [reserved EXCEPT ![a][k] = @ - n]
    /\ paid' = [paid EXCEPT ![a][k] = @ + n]
    /\ UNCHANGED <<available, edits>>

Release(a, k, n) ==
    /\ n <= reserved[a][k]
    /\ reserved' = [reserved EXCEPT ![a][k] = @ - n]
    /\ \E m \in 0 .. n : available' = [available EXCEPT ![a][k] = @ + m]
    /\ UNCHANGED <<paid, edits>>

Next ==
    \E a \in Accounts :
        \/ Regrant(a)
        \/ \E k \in Keys, n \in 1 .. MaxLimit : Reserve(a, k, n) \/ Pay(a, k, n) \/ Release(a, k, n)

Spec == Init /\ [][Next]_ledger
============================================================================
