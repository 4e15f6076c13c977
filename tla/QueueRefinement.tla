-------------------------- MODULE QueueRefinement --------------------------
(***************************************************************************)
(* DaoTimelock implements VetoQueue.  The entry of a request is read from  *)
(* the events: it is due when the delay in force at scheduling ends, was   *)
(* vetoed when it was cancelled, runs from execute until its batch has     *)
(* succeeded or failed at the receiver, and waits before that.             *)
(***************************************************************************)
EXTENDS DaoTimelock

\* None stands for the entry of an id not yet handed out.
ASSUME EntryAssumption ==
    None \notin [due : 0 .. MaxTime + MAX_DELAY_NS, after : RequestIds \cup {None},
                 state : {"waiting", "vetoed", "running", "done", "failed"}]

Succeeded(t, id) ==
    \E i \in DOMAIN delivered[t] : delivered[t][i] = [request_id |-> id, ok |-> TRUE]

State(t, id) ==
    CASE id \in CancelledIds(t) -> "vetoed"
      [] id \in ExecutedIds(t)  -> IF Failed(t, id) THEN "failed"
                                   ELSE IF Succeeded(t, id) THEN "done" ELSE "running"
      [] OTHER                  -> "waiting"

EntryOf(t, id) ==
    LET s == scheduled[t][id]
    IN  IF s = None THEN None
        ELSE [due |-> s.at + s.delay, after |-> s.request.predecessor_id, state |-> State(t, id)]

Entries == [t \in Timelocks |-> [id \in RequestIds |-> EntryOf(t, id)]]

Queue == INSTANCE VetoQueue WITH
             Queues <- Timelocks, Ids <- RequestIds, Times <- 0 .. MaxTime + MAX_DELAY_NS,
             now    <- block_timestamp, entry <- Entries

\* Whatever is reconfigured, refunded, bounced or delayed meanwhile, every timelock
\* keeps the promise of the abstract queue: nothing runs early, twice, after a
\* veto or while its predecessor waits (lib.rs schedule, execute, cancel).
ImplementsVetoQueue == Queue!Spec
============================================================================
