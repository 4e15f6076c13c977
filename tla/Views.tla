------------------------------- MODULE Views -------------------------------
(***************************************************************************)
(* The paged views get_requests (dao-timelock/src/lib.rs) and              *)
(* get_whitelist_entries (spending-account/src/whitelist.rs), read page by *)
(* page while the map behind them changes.  Both iterate over an           *)
(* IterableMap, which keeps its keys in a vector: a new key is appended,   *)
(* and the last key takes the place of a removed one.  A view call is      *)
(* atomic; any call may run between two pages.                             *)
(*                                                                         *)
(* listed is what the reader has got so far.  The rest is history: gone    *)
(* has the keys ever removed, stable those in the map since the scan       *)
(* began, removals how many were removed since, and returned those removed *)
(* before and added since.                                                 *)
(***************************************************************************)
EXTENDS Integers, FiniteSets, SequencesExt

CONSTANTS None,
          Entries,       \* request ids, or keys of the whitelist
          PageSizes,     \* the limits a reader uses
          U32_MAX,
          MaxRemovals    \* bound: removals during a scan

ASSUME PageAssumption ==
    /\ U32_MAX \in Nat /\ PageSizes \subseteq 1 .. U32_MAX /\ None \notin Nat
    /\ MaxRemovals \in Nat

VARIABLES view, keys, gone,
          limit, from_index, listed,      \* limit is None while nobody reads
          stable, removals, returned

map  == <<view, keys, gone>>
scan == <<limit, from_index, listed, stable, removals, returned>>

Init ==
    /\ view \in {"get_requests", "get_whitelist_entries"}
    /\ keys = << >> /\ gone = {}
    /\ limit = None /\ from_index = 0 /\ listed = << >>
    /\ stable = {} /\ removals = 0 /\ returned = {}

-----------------------------------------------------------------------------
(* The map: schedule and add_to_whitelist insert; execute, cancel and       *)
(* remove_from_whitelist remove.  A request id is never used again.         *)

Insert(k) ==
    /\ k \notin ToSet(keys)
    /\ view = "get_requests" => k \notin gone
    /\ keys' = Append(keys, k)
    /\ returned' = returned \cup ({k} \cap gone)
    /\ UNCHANGED <<view, gone, limit, from_index, listed, stable, removals>>

SwapRemove(s, i) == Front(IF i = Len(s) THEN s ELSE [s EXCEPT ![i] = Last(s)])

Delete(i) ==
    /\ removals < MaxRemovals                                       \* bound
    /\ keys' = SwapRemove(keys, i)
    /\ gone' = gone \cup {keys[i]}
    /\ stable' = stable \ {keys[i]}
    /\ removals' = removals + 1
    /\ UNCHANGED <<view, limit, from_index, listed, returned>>

-----------------------------------------------------------------------------
(* The views *)

unwrap_or(option, default) == IF option = None THEN default ELSE option

\* Mutants: a page one entry too late, and one entry too long.
SkipOneMore(s, n) == SubSeq(s, n + 2, Len(s))
TakeOneMore(s, n) == SubSeq(s, 1, Min({n + 1, Len(s)}))

skip(s, n) == SubSeq(s, n + 1, Len(s))

take(s, n) == SubSeq(s, 1, Min({n, Len(s)}))

get_requests(from, max) == take(skip(keys, unwrap_or(from, 0)), unwrap_or(max, U32_MAX))

get_whitelist_entries(from, max) ==
    take(skip(keys, unwrap_or(from, 0)), unwrap_or(max, U32_MAX))

\* get_num_requests and get_num_whitelisted.
get_num == Len(keys)

Page(from, max) ==
    IF view = "get_requests" THEN get_requests(from, max) ELSE get_whitelist_entries(from, max)

\* A reader starts, reads on, and stops where the entries end.
Start(max) ==
    /\ limit = None
    /\ limit' = max
    /\ listed' = Page(None, max)
    /\ from_index' = max
    /\ stable' = ToSet(keys) /\ removals' = 0 /\ returned' = {}
    /\ UNCHANGED map

Continue ==
    /\ limit # None
    /\ from_index < get_num
    /\ listed' = listed \o Page(from_index, limit)
    /\ from_index' = from_index + limit
    /\ UNCHANGED <<map, limit, stable, removals, returned>>

Complete == limit # None /\ from_index >= get_num

Stop ==
    /\ Complete
    /\ limit' = None
    /\ UNCHANGED <<map, from_index, listed, stable, removals, returned>>

Next ==
    \/ \E k \in Entries : Insert(k)
    \/ \E i \in DOMAIN keys : Delete(i)
    \/ \E max \in PageSizes : Start(max)
    \/ Continue
    \/ Stop

Spec == Init /\ [][Next]_<<map, scan>>

-----------------------------------------------------------------------------
(* Properties *)

\* What a reader of all pages fails to see, although it was there from the
\* first page to the last, is at most one entry for every entry removed
\* meanwhile: without removals the pages are complete, whatever is added
\* (get_requests, get_whitelist_entries: "The order is arbitrary").
MissedOnlyByRemoval ==
    Complete => Cardinality(stable \ ToSet(listed)) <= removals

\* Nothing is listed twice, however removals move entries, but for what was
\* removed and whitelisted again; a request never is.
ListedTwiceOnlyIfReturned ==
    \A i, j \in DOMAIN listed :
        listed[i] = listed[j] /\ i # j => view # "get_requests" /\ listed[i] \in returned
============================================================================
