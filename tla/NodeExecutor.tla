---------------------------- MODULE NodeExecutor ----------------------------
(***************************************************************************)
(* The bounded worker pool of javascript/src/node-executor.js, and the     *)
(* worker loop of json-worker.js it talks to.                              *)
(*                                                                         *)
(* The host is one JavaScript thread: a handler runs to its end before     *)
(* the next event is dispatched.  Handlers that call drain() leave pc at   *)
(* "drain", and nothing else may happen on the host until drain's loop     *)
(* has put pc back to "loop".  Worker threads run at any moment.           *)
(***************************************************************************)
EXTENDS Naturals, SequencesExt

CONSTANTS
    Tasks,           \* calls of evaluate()
    SlotIds,         \* names for worker slots, at least one more than fit
    Closers,         \* callers of close()
    MaxWorkers,      \* option "workers"
    MaxPending,      \* option "maxPending"
    None

ASSUME MaxWorkersAssumption == MaxWorkers \in Nat \ {0}
ASSUME MaxPendingAssumption == MaxPending \in Nat \ {0}
ASSUME NoneAssumption == None \notin Tasks

VARIABLES
    pc,        \* "loop": event loop idle; "drain": inside drain()
    closed,    \* the executor's flag
    queue,     \* tasks not yet posted to a worker
    tasks,     \* the Set of pending tasks
    outcome,   \* how each call's promise settled, "none" before
    slots,     \* the Set of worker slots
    running,   \* slot.task
    retiring,  \* the reason of the first retire(slot), "none" before
    thread,    \* life of the worker thread behind a slot
    job,       \* the task whose text the thread is evaluating
    mail,      \* reply posted by the thread, not yet dispatched
    event,     \* lifecycle event of the thread not yet dispatched
    closer,    \* progress of each close() call
    awaiting   \* slots whose retirement a close() call still awaits

hostVars == <<closed, queue, tasks, outcome, slots, running, retiring>>
threadVars == <<thread, job, mail, event>>
closeVars == <<closer, awaiting>>
vars == <<pc, hostVars, threadVars, closeVars>>

Cancellations == {"abort", "timeout"}
Reasons == Cancellations \cup {"crash", "clone", "closed"}
Replies == {"value", "error"}
Outcomes == Replies \cup Reasons \cup {"spawn", "refused"}

NoMail == [id |-> None, reply |-> "none"]

Init ==
    /\ pc = "loop" /\ closed = FALSE
    /\ queue = <<>> /\ tasks = {} /\ outcome = [t \in Tasks |-> "none"]
    /\ slots = {}
    /\ running = [s \in SlotIds |-> None]
    /\ retiring = [s \in SlotIds |-> "none"]
    /\ thread = [s \in SlotIds |-> "off"]
    /\ job = [s \in SlotIds |-> None]
    /\ mail = [s \in SlotIds |-> NoMail]
    /\ event = [s \in SlotIds |-> "none"]
    /\ closer = [c \in Closers |-> "idle"]
    /\ awaiting = [c \in Closers |-> {}]
-----------------------------------------------------------------------------
Elements(q) == {q[i] : i \in 1..Len(q)}

\* Mutant: settle() leaves the task in the queue.
Without_KeepsQueued(q, t) == q

Without(q, t) ==
    IF t \in Elements(q)
    THEN RemoveAt(q, CHOOSE i \in 1..Len(q) : q[i] = t)
    ELSE q

\* settle(): the promise, the Set of pending tasks and the queue change at
\* once; the timer and the abort listener live exactly as long as t \in tasks.
Settle(t, how) ==
    /\ outcome' = [outcome EXCEPT ![t] = how]
    /\ tasks' = tasks \ {t}
    /\ queue' = Without(queue, t)

\* Mutants: a later reason replaces the first; slots without a task are skipped.
Retire_LastReason(S, why) ==
    /\ retiring' = [s \in SlotIds |-> IF s \in S THEN why ELSE retiring[s]]
    /\ mail' = [s \in SlotIds |-> IF s \in S THEN NoMail ELSE mail[s]]
Retire_BusyOnly(S, why) ==
    LET B == {s \in S : running[s] # None} IN
    /\ retiring' = [s \in SlotIds |->
                      IF s \in B /\ retiring[s] = "none" THEN why ELSE retiring[s]]
    /\ mail' = [s \in SlotIds |-> IF s \in B THEN NoMail ELSE mail[s]]

\* retire() up to its await: the first reason stands, and no reply of the
\* worker is listened to any more.
Retire(S, why) ==
    /\ retiring' = [s \in SlotIds |->
                      IF s \in S /\ retiring[s] = "none" THEN why ELSE retiring[s]]
    /\ mail' = [s \in SlotIds |-> IF s \in S THEN NoMail ELSE mail[s]]

Idle(s) == s \in slots /\ running[s] = None /\ retiring[s] = "none"
-----------------------------------------------------------------------------
(* evaluate(), cancellation and close()                                    *)

\* Mutant: a closed executor admits calls.
Admits_AfterClose == Cardinality(tasks) < MaxPending

Admits == ~closed /\ Cardinality(tasks) < MaxPending

Accept(t) ==
    /\ pc = "loop" /\ outcome[t] = "none" /\ t \notin tasks
    /\ Admits
    /\ tasks' = tasks \cup {t}
    /\ queue' = Append(queue, t)
    /\ pc' = "drain"
    /\ UNCHANGED <<closed, outcome, slots, running, retiring, threadVars, closeVars>>

\* A call may also be refused for its aborted signal or its length.
Refuse(t) ==
    /\ pc = "loop" /\ outcome[t] = "none" /\ t \notin tasks
    /\ outcome' = [outcome EXCEPT ![t] = "refused"]
    /\ UNCHANGED <<pc, closed, queue, tasks, slots, running, retiring,
                   threadVars, closeVars>>

CancelQueued(t, why) ==
    /\ \A s \in slots : running[s] # t
    /\ Settle(t, why)
    /\ pc' = "drain"
    /\ UNCHANGED <<closed, slots, running, retiring, threadVars, closeVars>>

\* Mutant: the task settles and its slot is free before the thread has exited.
CancelRunning_FreesSlot(t, why) ==
    /\ \E s \in slots : running[s] = t /\ running' = [running EXCEPT ![s] = None]
    /\ Settle(t, why)
    /\ UNCHANGED <<pc, closed, slots, retiring, threadVars, closeVars>>

CancelRunning(t, why) ==
    /\ \E s \in slots : running[s] = t /\ Retire({s}, why)
    /\ UNCHANGED <<pc, closed, queue, tasks, outcome, slots, running,
                   thread, job, event, closeVars>>

\* The timer or the abort listener of a task that is still pending.
MayCancel(t) == pc = "loop" /\ t \in tasks

\* Mutant: a running task cannot be cancelled.
Cancel_QueuedOnly(t, why) == MayCancel(t) /\ CancelQueued(t, why)

Cancel(t, why) ==
    /\ MayCancel(t)
    /\ CancelQueued(t, why) \/ CancelRunning(t, why)

Close(c) ==
    /\ pc = "loop" /\ closer[c] = "idle"
    /\ closed' = TRUE
    /\ outcome' = [t \in Tasks |-> IF t \in Elements(queue) THEN "closed" ELSE outcome[t]]
    /\ tasks' = tasks \ Elements(queue)
    /\ queue' = <<>>
    /\ Retire(slots, "closed")
    /\ closer' = [closer EXCEPT ![c] = "waiting"]
    /\ awaiting' = [awaiting EXCEPT ![c] = slots]
    /\ UNCHANGED <<pc, slots, running, thread, job, event>>

MayResolve(c) == pc = "loop" /\ closer[c] = "waiting" /\ awaiting[c] = {}

CloseResolves(c) ==
    /\ MayResolve(c)
    /\ closer' = [closer EXCEPT ![c] = "resolved"]
    /\ UNCHANGED <<pc, hostVars, threadVars, awaiting>>
-----------------------------------------------------------------------------
(* drain(): one step per turn of its loop                                  *)

MayAssign == pc = "drain" /\ ~closed /\ queue # <<>>

\* Mutant: one worker too many.
MaySpawn_OffByOne ==
    (~\E s \in SlotIds : Idle(s)) /\ Cardinality(slots) <= MaxWorkers

MaySpawn == (~\E s \in SlotIds : Idle(s)) /\ Cardinality(slots) < MaxWorkers

\* Posting to a thread that has already died is silently lost.
Assign(s) ==
    /\ running' = [running EXCEPT ![s] = Head(queue)]
    /\ queue' = Tail(queue)
    /\ \/ /\ job' = [job EXCEPT ![s] = IF thread'[s] = "alive" THEN Head(queue) ELSE None]
          /\ UNCHANGED <<retiring, mail>>
       \/ /\ Retire({s}, "clone")
          /\ UNCHANGED job

DrainReuse(s) ==
    /\ MayAssign /\ Idle(s)
    /\ UNCHANGED thread
    /\ Assign(s)
    /\ UNCHANGED <<pc, closed, tasks, outcome, slots, event, closeVars>>

DrainSpawn(s) ==
    /\ MayAssign /\ MaySpawn /\ s \notin slots /\ thread[s] = "off"
    /\ slots' = slots \cup {s}
    /\ thread' = [thread EXCEPT ![s] = "alive"]
    /\ Assign(s)
    /\ UNCHANGED <<pc, closed, tasks, outcome, event, closeVars>>

DrainSpawnFails ==
    /\ MayAssign /\ MaySpawn
    /\ Settle(Head(queue), "spawn")
    /\ UNCHANGED <<pc, closed, slots, running, retiring, threadVars, closeVars>>

\* Mutant: drain() returns without looking at the rest of the queue.
DrainStop_Early ==
    /\ pc = "drain" /\ pc' = "loop"
    /\ UNCHANGED <<hostVars, threadVars, closeVars>>

DrainStop ==
    /\ pc = "drain"
    /\ ~MayAssign \/ ~(MaySpawn \/ \E s \in SlotIds : Idle(s))
    /\ pc' = "loop"
    /\ UNCHANGED <<hostVars, threadVars, closeVars>>
-----------------------------------------------------------------------------
(* Handlers of a slot's worker events                                      *)

HandleMessage(s) ==
    /\ pc = "loop" /\ s \in slots /\ retiring[s] = "none"
    /\ mail[s].id # None /\ running[s] = mail[s].id /\ outcome[running[s]] = "none"
    /\ running' = [running EXCEPT ![s] = None]
    /\ mail' = [mail EXCEPT ![s] = NoMail]
    /\ Settle(running[s], mail[s].reply)
    /\ pc' = "drain"
    /\ UNCHANGED <<closed, slots, retiring, thread, job, event, closeVars>>

\* 'error' is followed by 'exit'; a slot already retiring ignores both.
HandleEvent(s) ==
    /\ pc = "loop" /\ s \in slots /\ event[s] # "none"
    /\ event' = [event EXCEPT ![s] = IF @ = "error" THEN "exit" ELSE "none"]
    /\ Retire({s}, "crash")
    /\ UNCHANGED <<pc, closed, queue, tasks, outcome, slots, running,
                   thread, job, closeVars>>

\* Mutant: the interrupted task goes back to the queue.
SettleOf_Requeues(s) ==
    IF running[s] # None
    THEN queue' = Append(queue, running[s]) /\ UNCHANGED <<outcome, tasks>>
    ELSE UNCHANGED <<outcome, tasks, queue>>

SettleOf(s) ==
    IF running[s] # None THEN Settle(running[s], retiring[s])
                         ELSE UNCHANGED <<outcome, tasks, queue>>

\* retire() after its await: the thread is known to have exited.
MayEnd(s) == pc = "loop" /\ s \in slots /\ retiring[s] # "none" /\ thread[s] = "dead"

RetireEnds(s) ==
    /\ MayEnd(s)
    /\ slots' = slots \ {s}
    /\ SettleOf(s)
    /\ running' = [running EXCEPT ![s] = None]
    /\ retiring' = [retiring EXCEPT ![s] = "none"]
    /\ event' = [event EXCEPT ![s] = "none"]
    /\ mail' = [mail EXCEPT ![s] = NoMail]
    /\ thread' = [thread EXCEPT ![s] = "off"]
    /\ awaiting' = [c \in Closers |-> awaiting[c] \ {s}]
    /\ pc' = "drain"
    /\ UNCHANGED <<closed, job, closer>>
-----------------------------------------------------------------------------
(* Worker threads                                                          *)

Reply(s) ==
    /\ thread[s] = "alive" /\ job[s] # None
    /\ job' = [job EXCEPT ![s] = None]
    /\ IF s \in slots /\ retiring[s] = "none"
       THEN \E r \in Replies : mail' = [mail EXCEPT ![s] = [id |-> job[s], reply |-> r]]
       ELSE UNCHANGED mail
    /\ UNCHANGED <<pc, hostVars, thread, event, closeVars>>

\* Heap exhaustion or an uncaught error ('error', 'exit'), or a plain exit.
Crash(s) ==
    /\ thread[s] = "alive"
    /\ thread' = [thread EXCEPT ![s] = "dead"]
    /\ job' = [job EXCEPT ![s] = None]
    /\ \E e \in {"error", "exit"} : event' = [event EXCEPT ![s] = e]
    /\ UNCHANGED <<pc, hostVars, mail, closeVars>>

\* terminate() takes effect, however stuck the evaluation is.
MayStop(s) == thread[s] = "alive" /\ retiring[s] # "none"

Stop(s) ==
    /\ MayStop(s)
    /\ thread' = [thread EXCEPT ![s] = "dead"]
    /\ job' = [job EXCEPT ![s] = None]
    /\ UNCHANGED <<pc, hostVars, mail, event, closeVars>>
-----------------------------------------------------------------------------
DrainStep == \/ \E s \in SlotIds : DrainReuse(s) \/ DrainSpawn(s)
             \/ DrainSpawnFails
             \/ DrainStop

Next ==
    \/ \E t \in Tasks : Accept(t) \/ Refuse(t)
    \/ \E t \in Tasks, why \in Cancellations : Cancel(t, why)
    \/ \E c \in Closers : Close(c) \/ CloseResolves(c)
    \/ DrainStep
    \/ \E s \in SlotIds :
         HandleMessage(s) \/ HandleEvent(s) \/ RetireEnds(s) \/ Reply(s) \/ Crash(s) \/ Stop(s)

\* The event loop runs, an armed timer fires, terminate() stops a thread and
\* its promise is resumed.  Nothing says that a worker ever answers.
Fairness ==
    /\ WF_vars(DrainStep)
    /\ \A t \in Tasks : WF_vars(Cancel(t, "timeout"))
    /\ \A c \in Closers : WF_vars(CloseResolves(c))
    /\ \A s \in SlotIds : WF_vars(Stop(s)) /\ WF_vars(RetireEnds(s))

Spec == Init /\ [][Next]_vars
FairSpec == Spec /\ Fairness
-----------------------------------------------------------------------------
TypeOK ==
    /\ pc \in {"loop", "drain"} /\ closed \in BOOLEAN
    /\ queue \in Seq(Tasks) /\ tasks \subseteq Tasks
    /\ outcome \in [Tasks -> Outcomes \cup {"none"}]
    /\ slots \subseteq SlotIds
    /\ running \in [SlotIds -> Tasks \cup {None}]
    /\ retiring \in [SlotIds -> Reasons \cup {"none"}]
    /\ thread \in [SlotIds -> {"off", "alive", "dead"}]
    /\ job \in [SlotIds -> Tasks \cup {None}]
    /\ mail \in [SlotIds -> [id : Tasks \cup {None}, reply : Replies \cup {"none"}]]
    /\ event \in [SlotIds -> {"none", "error", "exit"}]
    /\ closer \in [Closers -> {"idle", "waiting", "resolved"}]
    /\ awaiting \in [Closers -> SUBSET SlotIds]

-----------------------------------------------------------------------------
\* Every pending call is in exactly one place, once: the queue or one slot.
\* This is what settle()'s guard and the two sides of task.slot rely on.
TaskAccounting ==
    /\ tasks = Elements(queue) \cup ({running[s] : s \in slots} \ {None})
    /\ \A t \in tasks : outcome[t] = "none"
    /\ \A i, j \in 1..Len(queue) : queue[i] = queue[j] => i = j
    /\ \A s \in slots : running[s] \notin Elements(queue)
    /\ \A r, s \in slots : running[r] = running[s] /\ running[r] # None => r = s

\* No more operating-system threads exist than the option "workers" allows,
\* those being terminated included, and each belongs to a slot of the pool.
PoolBound ==
    /\ {s \in SlotIds : thread[s] # "off"} = slots
    /\ Cardinality(slots) <= MaxWorkers

\* At most maxPending calls hold a copy of their text.
PendingBound == Cardinality(tasks) <= MaxPending

\* "There is no abandoned background regex computation": a thread that still
\* evaluates does it for the pending task of its slot.
NoAbandonedWork ==
    \A s \in SlotIds : job[s] # None => /\ s \in slots /\ running[s] = job[s]
                                       /\ job[s] \in tasks

\* A reply waiting to be dispatched is the reply to the slot's task: the id
\* comparison of the message handler never discards one.
RepliesMatch ==
    \A s \in slots : mail[s].id # None => /\ mail[s].id = running[s]
                                         /\ job[s] = None

\* Whenever the event loop is idle, a queued task has to wait for a worker:
\* the pool is full and every slot is occupied or being retired.
WorkConserving ==
    pc = "loop" /\ queue # <<>> =>
        /\ ~closed
        /\ Cardinality(slots) >= MaxWorkers
        /\ \A s \in slots : running[s] # None \/ retiring[s] # "none"

\* Once some close() has resolved, no thread, slot or pending call remains.
CloseIsFinal ==
    (\E c \in Closers : closer[c] = "resolved") =>
        /\ slots = {} /\ tasks = {} /\ \A s \in SlotIds : thread[s] = "off"

\* How the pool looks to its callers.
Status == [t \in Tasks |->
             IF outcome[t] # "none" THEN "finished"
             ELSE IF t \notin tasks THEN "new"
             ELSE IF \E s \in slots : running[s] = t THEN "running"
             ELSE "waiting"]

Executor == INSTANCE BoundedExecutor WITH status <- Status, open <- ~closed

\* The pool keeps the promises of a bounded executor.
ImplementsExecutor == Executor!FairSpec

\* A promise settles once.
SettlesOnce ==
    [][\A t \in Tasks : outcome[t] # "none" => outcome'[t] = outcome[t]]_vars

\* A running task whose worker is being retired settles only when the thread
\* is gone, and for the reason that retired it first: neither a late reply nor
\* a second cancellation overtakes it.
FirstReasonStands ==
    [][/\ \A s \in slots : \A t \in tasks :
         running[s] = t /\ retiring[s] # "none" /\ outcome'[t] # "none" =>
             thread[s] = "dead" /\ outcome'[t] = retiring[s]
       /\ \A s \in slots \cap slots' :
            retiring[s] # "none" => retiring'[s] = retiring[s]]_vars

\* Every accepted call settles, even if its worker hangs or dies.
EveryTaskSettles == \A t \in Tasks : t \in tasks ~> outcome[t] # "none"

\* close() resolves.
CloseCompletes == \A c \in Closers : closer[c] = "waiting" ~> closer[c] = "resolved"

=============================================================================
