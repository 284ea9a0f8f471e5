--------------------------- MODULE BoundedExecutor ---------------------------
(***************************************************************************)
(* What a bounded executor of calls promises its caller, whatever runs the *)
(* calls: bounded admission, bounded parallelism, every call started at    *)
(* most once and finished once, and a shutdown that leaves nothing behind. *)
(***************************************************************************)
EXTENDS Naturals, FiniteSets

CONSTANTS Tasks, MaxWorkers, MaxPending

VARIABLES status, open

vars == <<status, open>>

With(what) == {t \in Tasks : status[t] = what}
Pending == With("waiting") \cup With("running")

TypeOK ==
    /\ status \in [Tasks -> {"new", "waiting", "running", "finished"}]
    /\ open \in BOOLEAN

Init ==
    /\ status = [t \in Tasks |-> "new"]
    /\ open = TRUE

Submit(t) ==
    /\ status[t] = "new" /\ open
    /\ Cardinality(Pending) < MaxPending
    /\ status' = [status EXCEPT ![t] = "waiting"]
    /\ UNCHANGED open

Reject(t) ==
    /\ status[t] = "new"
    /\ status' = [status EXCEPT ![t] = "finished"]
    /\ UNCHANGED open

Start(t) ==
    /\ status[t] = "waiting" /\ open
    /\ Cardinality(With("running")) < MaxWorkers
    /\ status' = [status EXCEPT ![t] = "running"]
    /\ UNCHANGED open

Finish(t) ==
    /\ status[t] \in {"waiting", "running"}
    /\ status' = [status EXCEPT ![t] = "finished"]
    /\ UNCHANGED open

\* Shutdown finishes what waits and lets what runs end.
Shutdown ==
    /\ open' = FALSE
    /\ status' = [t \in Tasks |-> IF status[t] = "waiting" THEN "finished" ELSE status[t]]

Next ==
    \/ \E t \in Tasks : Submit(t) \/ Reject(t) \/ Start(t) \/ Finish(t)
    \/ Shutdown

Spec == Init /\ [][Next]_vars

\* Whatever is started or waits is finished.
FairSpec == Spec /\ \A t \in Tasks : WF_vars(Finish(t))

=============================================================================
