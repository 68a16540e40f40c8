---------------------------- MODULE ResumableTasks ----------------------------
(***************************************************************************)
(* The resumable tasks: a durable store of tasks with timeouts, and the    *)
(* processes that run tasks, extend their timeouts while they work, and    *)
(* resume, when they open, the tasks that others left behind.              *)
(*                                                                         *)
(* Time is counted in periods of timeoutExtensionFrequencyInSeconds.  A    *)
(* task is held for two of them, "ample time for extension to take place": *)
(* the clock does not advance past a timer that is due or an extension     *)
(* that is under way.                                                      *)
(***************************************************************************)
EXTENDS Naturals, FiniteSets, Functions, TLC

CONSTANTS
    Process,
    Task,         \* by ID: the CID of the task
    BatchSize,    \* tasks grabbed at once
    MaxTime,      \* bound on the clock
    MaxRuns,      \* bound on the tasks that requests ask for
    MaxFailures,  \* bound on handlers that throw
    MaxStops      \* bound on processes that stop

ASSUME ResumableTasksAssumption ==
    /\ BatchSize \in Nat \ {0}
    /\ {MaxTime, MaxRuns, MaxFailures, MaxStops} \subseteq Nat

VARIABLES
    store,        \* task -> time at which it times out, for the stored tasks
    now,
    mode,         \* of a process: "down", "grab", "retry" (both are open()), "up"
    seen,         \* what the iterator of a grab has still to visit, as it was
    batch,        \* tasks grabbed and not yet completed
    run,          \* of a process and a task: what its run is about to do
    timer,        \* when its extension timer fires next
    attempt,     \* 1 for the first run since its process got the task, 2 for a retry
    extending,    \* extensions between their get and their put
    \* history and bounds
    accepted,     \* tasks registered
    completed,    \* tasks whose handler succeeded
    overdue,      \* of a process: tasks timed out when it began to open, that no
                  \* request has asked for again since
    runs, failures, stops

work == <<run, timer, attempt>>
counts == <<runs, failures, stops>>
history == <<accepted, completed, overdue>>
vars == <<store, now, mode, seen, batch, work, extending, history, counts>>

HeldFor == 2

None == [t \in {} |-> 0]

TimedOut(tasks, t) == tasks[t] <= now

Running(p, t) == run[p][t] \in {"handle", "delete"}

\* A run ends, and with it its timer.
EndRun(p, t, how) ==
    /\ run' = [run EXCEPT ![p][t] = how]
    /\ timer' = [timer EXCEPT ![p][t] = 0]
    /\ attempt' = [attempt EXCEPT ![p][t] = 0]

Hold(t) == store' = [u \in DOMAIN store \cup {t} |->
                        IF u = t THEN now + HeldFor ELSE store[u]]

\* A run begins with a new timer.
StartedIn(p, ts, try) ==
    /\ run' = [run EXCEPT ![p] = [t \in Task |-> IF t \in ts THEN "handle" ELSE @[t]]]
    /\ timer' = [timer EXCEPT ![p] = [t \in Task |-> IF t \in ts THEN now + 1 ELSE @[t]]]
    /\ attempt' = [attempt EXCEPT ![p] = [t \in Task |-> IF t \in ts THEN try ELSE @[t]]]

----------------------------------------------------------------------------
Init ==
    /\ store = None /\ now = 0
    /\ mode = [p \in Process |-> "down"]
    /\ seen = [p \in Process |-> None] /\ batch = [p \in Process |-> {}]
    /\ run = [p \in Process |-> [t \in Task |-> "none"]]
    /\ timer = [p \in Process |-> [t \in Task |-> 0]]
    /\ attempt = [p \in Process |-> [t \in Task |-> 0]]
    /\ extending = {}
    /\ accepted = {} /\ completed = {} /\ overdue = [p \in Process |-> {}]
    /\ runs = 0 /\ failures = 0 /\ stops = 0

\* A handler runs a task that a request asks for: register, then start.  (Two
\* requests of one process for the same task at once are not told apart.)
RunBad(p, t) ==
    /\ mode[p] = "up" /\ run[p][t] = "none" /\ runs < MaxRuns
    /\ StartedIn(p, {t}, 1)
    /\ accepted' = accepted \cup {t}
    /\ overdue' = [q \in Process |-> overdue[q] \ {t}]
    /\ runs' = runs + 1
    /\ UNCHANGED <<store, now, mode, seen, batch, extending, completed, failures, stops>>

Run(p, t) ==
    /\ mode[p] = "up" /\ run[p][t] = "none" /\ runs < MaxRuns
    /\ Hold(t)
    /\ StartedIn(p, {t}, 1)
    /\ accepted' = accepted \cup {t}
    /\ overdue' = [q \in Process |-> overdue[q] \ {t}]
    /\ runs' = runs + 1
    /\ UNCHANGED <<now, mode, seen, batch, extending, completed, failures, stops>>

\* The timer fires: extend reads the task, and will put it back.
FireBad(p, t) ==
    /\ Running(p, t) /\ timer[p][t] <= now
    /\ timer' = [timer EXCEPT ![p][t] = now + HeldFor]
    /\ extending' = IF t \in DOMAIN store THEN extending \cup {<<p, t>>} ELSE extending
    /\ UNCHANGED <<store, now, mode, seen, batch, run, attempt, history, counts>>

Fire(p, t) ==
    /\ Running(p, t) /\ timer[p][t] <= now
    /\ timer' = [timer EXCEPT ![p][t] = now + 1]
    /\ extending' = IF t \in DOMAIN store THEN extending \cup {<<p, t>>} ELSE extending
    /\ UNCHANGED <<store, now, mode, seen, batch, run, attempt, history, counts>>

\* The put of an extension, even if the task was deleted since its get.
Extend(p, t) ==
    /\ <<p, t>> \in extending
    /\ Hold(t)
    /\ extending' = extending \ {<<p, t>>}
    /\ UNCHANGED <<now, mode, seen, batch, work, history, counts>>

\* The handler succeeds.
Succeed(p, t) ==
    /\ run[p][t] = "handle"
    /\ run' = [run EXCEPT ![p][t] = "delete"]
    /\ completed' = completed \cup {t}
    /\ UNCHANGED <<store, now, mode, seen, batch, timer, attempt, extending,
                   accepted, overdue, counts>>

\* The handler or the delete of its task throws, which ends the run and its timer:
\* the task of a request is left in the store, a resumed one waits for the others of
\* its batch.
Fail(p, t) ==
    /\ Running(p, t) /\ failures < MaxFailures
    /\ EndRun(p, t, IF mode[p] = "up" THEN "none" ELSE "failed")
    /\ failures' = failures + 1
    /\ UNCHANGED <<store, now, mode, seen, batch, extending, history, runs, stops>>

\* The completed task stays among those to be retried.
CompleteBad(p, t) ==
    /\ run[p][t] = "delete"
    /\ store' = Restrict(store, DOMAIN store \ {t})
    /\ EndRun(p, t, "none")
    /\ UNCHANGED <<now, mode, seen, batch, extending, history, counts>>

\* The completed task is deleted, and its timer cleared.
Complete(p, t) ==
    /\ run[p][t] = "delete"
    /\ store' = Restrict(store, DOMAIN store \ {t})
    /\ EndRun(p, t, "none")
    /\ batch' = [batch EXCEPT ![p] = @ \ {t}]
    /\ UNCHANGED <<now, mode, seen, extending, history, counts>>

----------------------------------------------------------------------------
\* open(), by one process at a time: the iterator of a grab is not exclusive.
Open(p) ==
    /\ mode[p] = "down" /\ \A q \in Process : mode[q] \in {"down", "up"}
    /\ mode' = [mode EXCEPT ![p] = "grab"]
    /\ seen' = [seen EXCEPT ![p] = store]
    /\ overdue' = [overdue EXCEPT ![p] = {t \in DOMAIN store : TimedOut(store, t)}]
    /\ UNCHANGED <<store, now, batch, work, extending, accepted, completed, counts>>

\* The iterator visits one task; a timed-out one is put back and grabbed.
Grab(p, t) ==
    /\ mode[p] = "grab" /\ t \in DOMAIN seen[p] /\ Cardinality(batch[p]) < BatchSize
    /\ seen' = [seen EXCEPT ![p] = Restrict(@, DOMAIN @ \ {t})]
    /\ IF TimedOut(seen[p], t)
       THEN Hold(t) /\ batch' = [batch EXCEPT ![p] = @ \cup {t}]
       ELSE UNCHANGED <<store, batch>>
    /\ UNCHANGED <<now, mode, work, extending, history, counts>>

\* An empty batch is taken like any other.
StartBatchBad(p) ==
    /\ mode[p] = "grab"
    /\ DOMAIN seen[p] = {} \/ Cardinality(batch[p]) >= BatchSize
    /\ mode' = [mode EXCEPT ![p] = "retry"]
    /\ seen' = [seen EXCEPT ![p] = None]
    /\ StartedIn(p, batch[p], 1)
    /\ UNCHANGED <<store, now, batch, extending, history, counts>>

\* The batch is full, or the iterator at its end: all grabbed tasks are started.
StartBatch(p) ==
    /\ mode[p] = "grab" /\ batch[p] # {}
    /\ DOMAIN seen[p] = {} \/ Cardinality(batch[p]) >= BatchSize
    /\ mode' = [mode EXCEPT ![p] = "retry"]
    /\ seen' = [seen EXCEPT ![p] = None]
    /\ StartedIn(p, batch[p], 1)
    /\ UNCHANGED <<store, now, batch, extending, history, counts>>

\* All runs have ended: those that failed are tried again.
RetryBatch(p) ==
    /\ mode[p] = "retry" /\ batch[p] # {}
    /\ \A t \in batch[p] : run[p][t] = "failed"
    /\ StartedIn(p, batch[p], 2)
    /\ UNCHANGED <<store, now, mode, seen, batch, extending, history, counts>>

\* The batch is done: open() ends without looking for another.
NextBatchBad(p) ==
    /\ mode[p] = "retry" /\ batch[p] = {}
    /\ mode' = [mode EXCEPT ![p] = "up"]
    /\ UNCHANGED <<store, now, seen, batch, work, extending, history, counts>>

\* The batch is done: the next is grabbed.
NextBatch(p) ==
    /\ mode[p] = "retry" /\ batch[p] = {}
    /\ mode' = [mode EXCEPT ![p] = "grab"]
    /\ seen' = [seen EXCEPT ![p] = store]
    /\ UNCHANGED <<store, now, batch, work, extending, history, counts>>

\* Nothing was grabbed: open() returns, and requests are served.
Opened(p) ==
    /\ mode[p] = "grab" /\ DOMAIN seen[p] = {} /\ batch[p] = {}
    /\ mode' = [mode EXCEPT ![p] = "up"]
    /\ UNCHANGED <<store, now, seen, batch, work, extending, history, counts>>

----------------------------------------------------------------------------
\* A process stops: only the store remains.
Stop(p) ==
    /\ mode[p] # "down" /\ stops < MaxStops
    /\ mode' = [mode EXCEPT ![p] = "down"]
    /\ seen' = [seen EXCEPT ![p] = None]
    /\ batch' = [batch EXCEPT ![p] = {}]
    /\ run' = [run EXCEPT ![p] = [t \in Task |-> "none"]]
    /\ timer' = [timer EXCEPT ![p] = [t \in Task |-> 0]]
    /\ attempt' = [attempt EXCEPT ![p] = [t \in Task |-> 0]]
    /\ extending' = {e \in extending : e[1] # p}
    /\ overdue' = [overdue EXCEPT ![p] = {}]
    /\ stops' = stops + 1
    /\ UNCHANGED <<store, now, accepted, completed, runs, failures>>

\* A period passes, which is long for a timer or a step of the store.
Tick ==
    /\ now < MaxTime
    /\ extending = {}
    /\ \A p \in Process : mode[p] # "grab"
    /\ \A p \in Process, t \in Task : Running(p, t) => timer[p][t] > now
    /\ now' = now + 1
    /\ UNCHANGED <<store, mode, seen, batch, work, extending, history, counts>>

ProcessNext(p) ==
    \/ \E t \in Task : Fire(p, t) \/ Extend(p, t) \/ Succeed(p, t) \/ Complete(p, t)
    \/ \E t \in Task : Grab(p, t)
    \/ StartBatch(p) \/ RetryBatch(p) \/ NextBatch(p) \/ Opened(p)

Next ==
    \/ \E p \in Process : ProcessNext(p) \/ Open(p) \/ Stop(p)
    \/ \E p \in Process, t \in Task : Run(p, t) \/ Fail(p, t)
    \/ Tick

Spec == Init /\ [][Next]_vars

\* The event loop forgets no promise; each handler eventually succeeds.
Fairness ==
    \A p \in Process :
        /\ WF_vars(ProcessNext(p))
        /\ \A t \in Task : WF_vars(Succeed(p, t)) /\ WF_vars(Complete(p, t))

FairSpec == Spec /\ Fairness

----------------------------------------------------------------------------
\* Types of the runs.
WorkTypeOK ==
    /\ run \in [Process -> [Task -> {"none", "handle", "delete", "failed"}]]
    /\ timer \in [Process -> [Task -> Nat]]
    /\ attempt \in [Process -> [Task -> 0 .. 2]]

\* A task that waits to be completed in a batch has a run; there is a batch only
\* while a process opens.
BatchRuns ==
    \A p \in Process :
        /\ mode[p] = "retry" => \A t \in batch[p] : run[p][t] # "none"
        /\ mode[p] \in {"down", "up"} => batch[p] = {}

TasksTypeOK ==
    /\ DOMAIN store \subseteq Task /\ store \in [DOMAIN store -> Nat]
    /\ now \in Nat
    /\ mode \in [Process -> {"down", "grab", "retry", "up"}]
    /\ DOMAIN seen = Process
    /\ \A p \in Process : DOMAIN seen[p] \subseteq Task /\ seen[p] \in [DOMAIN seen[p] -> Nat]
    /\ batch \in [Process -> SUBSET Task]
    /\ WorkTypeOK /\ BatchRuns
    /\ extending \subseteq Process \X Task
    /\ accepted \subseteq Task /\ completed \subseteq Task
    /\ overdue \in [Process -> SUBSET Task]

\* A task that was registered and never completed is in the store, whatever
\* stops, failures, late extensions and runs of the same task by another
\* process came in between.  (resumable-task-manager.ts:36-64)
NoTaskLost == accepted \ completed \subseteq DOMAIN store

\* While a process works at a task for the first time since it got it, the task
\* is not timed out: no process that opens meanwhile grabs it as abandoned.
\* (resumable-task-manager.ts:49-56, resumable-task-store-level.ts:71-78)
RunningHeld ==
    \A p \in Process, t \in DOMAIN store :
        Running(p, t) /\ attempt[p][t] = 1 => ~TimedOut(store, t)

\* When open() returns, all tasks that were timed out when it began have been
\* completed, over as many batches as that took and after any failure; except
\* for those that a request to another process asked for again meanwhile, which
\* that process holds.  (resumable-task-manager.ts:78-113)
ResumedOnOpen ==
    \A p \in Process : mode[p] = "up" => overdue[p] \subseteq completed

\* open() returns, or the process stops.  (resumable-task-manager.ts:79-89)
OpenReturns ==
    \A p \in Process : mode[p] \in {"grab", "retry"} ~> mode[p] \in {"up", "down"}
=============================================================================
