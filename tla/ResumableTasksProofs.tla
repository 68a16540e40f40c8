------------------------- MODULE ResumableTasksProofs -------------------------
(***************************************************************************)
(* Theorems about ResumableTasks, for any processes, tasks, batch size,    *)
(* number of runs, failures and stops, and without end of time.            *)
(***************************************************************************)
EXTENDS ResumableTasks, TLAPS

\* A run past its handler is of a completed task; what a process grabbed, it
\* holds for two periods; a run that has not been tried before has its timer
\* set, and until the timer is due its task is held for two periods more.
Finished == \A p \in Process, t \in Task : run[p][t] = "delete" => t \in completed

Grabbed ==
    \A p \in Process : mode[p] = "grab" =>
        \A t \in batch[p] \cap DOMAIN store : store[t] >= now + 2

AtWork(p, t) ==
    Running(p, t) /\ attempt[p][t] = 1 =>
        /\ timer[p][t] <= now + 1
        /\ t \in DOMAIN store => store[t] > now
        /\ t \in DOMAIN store /\ <<p, t>> \notin extending /\ timer[p][t] > now
            => store[t] >= now + 2

TasksInv ==
    /\ TasksTypeOK /\ NoTaskLost
    /\ Finished /\ Grabbed
    /\ \A p \in Process, t \in Task : AtWork(p, t)

----------------------------------------------------------------------------
\* Holding a task sets its timeout two periods ahead and leaves the others.
LEMMA Holds ==
    ASSUME TasksTypeOK, NEW t \in Task, Hold(t)
    PROVE  /\ DOMAIN store' = DOMAIN store \cup {t}
           /\ store'[t] = now + 2
           /\ \A u \in DOMAIN store : u # t => store'[u] = store[u]
           /\ DOMAIN store' \subseteq Task /\ store' \in [DOMAIN store' -> Nat]
BY DEF TasksTypeOK, Hold, HeldFor

\* Updating one entry of a function of processes and tasks keeps its type.
LEMMA UpdateType ==
    ASSUME NEW S, NEW f \in [Process -> [Task -> S]],
           NEW p \in Process, NEW g \in [Task -> S]
    PROVE  /\ [f EXCEPT ![p] = g] \in [Process -> [Task -> S]]
           /\ [f EXCEPT ![p] = g][p] = g
           /\ \A q \in Process : q # p => [f EXCEPT ![p] = g][q] = f[q]
OBVIOUS

\* Starting runs, for some tasks of one process.
LEMMA Starts ==
    ASSUME TasksTypeOK, NEW p \in Process, NEW ts \in SUBSET Task,
           NEW try \in 1 .. 2, StartedIn(p, ts, try)
    PROVE  /\ run' \in [Process -> [Task -> {"none", "handle", "delete", "failed"}]]
           /\ timer' \in [Process -> [Task -> Nat]]
           /\ attempt' \in [Process -> [Task -> 0 .. 2]]
           /\ \A t \in ts : run'[p][t] = "handle" /\ timer'[p][t] = now + 1
                                /\ attempt'[p][t] = try
           /\ \A q \in Process, t \in Task : ~(q = p /\ t \in ts) =>
                run'[q][t] = run[q][t] /\ timer'[q][t] = timer[q][t]
                    /\ attempt'[q][t] = attempt[q][t]
<1> DEFINE R == [t \in Task |-> IF t \in ts THEN "handle" ELSE run[p][t]]
           T == [t \in Task |-> IF t \in ts THEN now + 1 ELSE timer[p][t]]
           F == [t \in Task |-> IF t \in ts THEN try ELSE attempt[p][t]]
<1>1. R \in [Task -> {"none", "handle", "delete", "failed"}]
  BY DEF TasksTypeOK, WorkTypeOK
<1>2. T \in [Task -> Nat] /\ F \in [Task -> 0 .. 2]
  BY DEF TasksTypeOK, WorkTypeOK
<1>3. run' = [run EXCEPT ![p] = R] /\ timer' = [timer EXCEPT ![p] = T]
        /\ attempt' = [attempt EXCEPT ![p] = F]
  BY DEF StartedIn, TasksTypeOK, WorkTypeOK
<1>4. /\ \A t \in ts : R[t] = "handle" /\ T[t] = now + 1 /\ F[t] = try
      /\ \A t \in Task \ ts : R[t] = run[p][t] /\ T[t] = timer[p][t]
                                /\ F[t] = attempt[p][t]
  OBVIOUS
<1> HIDE DEF R, T, F
<1>5. /\ run' \in [Process -> [Task -> {"none", "handle", "delete", "failed"}]]
      /\ run'[p] = R /\ \A q \in Process : q # p => run'[q] = run[q]
  BY <1>1, <1>3, UpdateType DEF TasksTypeOK, WorkTypeOK
<1>6. /\ timer' \in [Process -> [Task -> Nat]]
      /\ timer'[p] = T /\ \A q \in Process : q # p => timer'[q] = timer[q]
  BY <1>2, <1>3, UpdateType DEF TasksTypeOK, WorkTypeOK
<1>7. /\ attempt' \in [Process -> [Task -> 0 .. 2]]
      /\ attempt'[p] = F /\ \A q \in Process : q # p => attempt'[q] = attempt[q]
  BY <1>2, <1>3, UpdateType DEF TasksTypeOK, WorkTypeOK
<1> QED  BY <1>4, <1>5, <1>6, <1>7

\* Setting one entry.
LEMMA SetEntry ==
    ASSUME NEW S, NEW f \in [Process -> [Task -> S]],
           NEW p \in Process, NEW t \in Task, NEW v \in S
    PROVE  /\ [f EXCEPT ![p][t] = v] \in [Process -> [Task -> S]]
           /\ [f EXCEPT ![p][t] = v][p][t] = v
           /\ \A q \in Process, u \in Task : ~(q = p /\ u = t) =>
                [f EXCEPT ![p][t] = v][q][u] = f[q][u]
<1>1. [f[p] EXCEPT ![t] = v] \in [Task -> S]
  OBVIOUS
<1>2. [f EXCEPT ![p][t] = v] = [f EXCEPT ![p] = [f[p] EXCEPT ![t] = v]]
  OBVIOUS
<1> QED  BY <1>1, <1>2, UpdateType

\* Ending a run.
LEMMA Ends ==
    ASSUME TasksTypeOK, NEW p \in Process, NEW t \in Task,
           NEW how \in {"none", "failed"}, EndRun(p, t, how)
    PROVE  /\ run' \in [Process -> [Task -> {"none", "handle", "delete", "failed"}]]
           /\ timer' \in [Process -> [Task -> Nat]]
           /\ attempt' \in [Process -> [Task -> 0 .. 2]]
           /\ run'[p][t] = how /\ timer'[p][t] = 0 /\ attempt'[p][t] = 0
           /\ \A q \in Process, u \in Task : ~(q = p /\ u = t) =>
                run'[q][u] = run[q][u] /\ timer'[q][u] = timer[q][u]
                    /\ attempt'[q][u] = attempt[q][u]
<1>1. how \in {"none", "handle", "delete", "failed"} /\ 0 \in Nat /\ 0 \in 0 .. 2
  OBVIOUS
<1>2. /\ run \in [Process -> [Task -> {"none", "handle", "delete", "failed"}]]
      /\ timer \in [Process -> [Task -> Nat]]
      /\ attempt \in [Process -> [Task -> 0 .. 2]]
  BY DEF TasksTypeOK, WorkTypeOK
<1>3. /\ run' = [run EXCEPT ![p][t] = how]
      /\ timer' = [timer EXCEPT ![p][t] = 0]
      /\ attempt' = [attempt EXCEPT ![p][t] = 0]
  BY DEF EndRun
<1>4. /\ run' \in [Process -> [Task -> {"none", "handle", "delete", "failed"}]]
      /\ run'[p][t] = how
      /\ \A q \in Process, u \in Task : ~(q = p /\ u = t) => run'[q][u] = run[q][u]
  BY <1>1, <1>2, <1>3, SetEntry
<1>5. /\ timer' \in [Process -> [Task -> Nat]] /\ timer'[p][t] = 0
      /\ \A q \in Process, u \in Task : ~(q = p /\ u = t) => timer'[q][u] = timer[q][u]
  BY <1>1, <1>2, <1>3, SetEntry
<1>6. /\ attempt' \in [Process -> [Task -> 0 .. 2]] /\ attempt'[p][t] = 0
      /\ \A q \in Process, u \in Task : ~(q = p /\ u = t) =>
            attempt'[q][u] = attempt[q][u]
  BY <1>1, <1>2, <1>3, SetEntry
<1> QED  BY <1>4, <1>5, <1>6

\* What a step does to the store that keeps the stored tasks held: it leaves
\* each timeout as it is or sets it two periods ahead.
Later == \A u \in DOMAIN store' : \/ store'[u] = now + 2
                                  \/ u \in DOMAIN store /\ store'[u] = store[u]

\* A step that starts no run, sets no timer and ends no extension without a put
\* keeps the runs at work.
LEMMA KeepsAtWork ==
    ASSUME TasksInv, Later, now' = now, UNCHANGED work,
           NEW p \in Process, NEW t \in Task,
           <<p, t>> \in extending \ extending' => t \in DOMAIN store' /\ store'[t] = now + 2
    PROVE  AtWork(p, t)'
<1>1. now \in Nat /\ timer[p][t] \in Nat
  BY DEF TasksInv, TasksTypeOK, WorkTypeOK
<1>2. t \in DOMAIN store => store[t] \in Nat
  BY DEF TasksInv, TasksTypeOK
<1>3. AtWork(p, t)
  BY DEF TasksInv
<1>4. t \in DOMAIN store' =>
            (store'[t] = now + 2) \/ (t \in DOMAIN store /\ store'[t] = store[t])
  BY DEF Later
<1> QED  BY <1>1, <1>2, <1>3, <1>4 DEF AtWork, Running, work

\* Grabbed tasks stay held as long as the clock does not advance.
LEMMA KeepsGrabbed ==
    ASSUME TasksInv, Later, now' = now,
           \A p \in Process : mode'[p] = "grab" =>
                mode[p] = "grab" /\ batch'[p] \subseteq batch[p]
    PROVE  Grabbed'
<1> SUFFICES ASSUME NEW p \in Process, mode'[p] = "grab",
                    NEW t \in batch'[p] \cap DOMAIN store'
             PROVE  store'[t] >= now + 2
  BY DEF Grabbed
<1>1. mode[p] = "grab" /\ t \in batch[p]
  OBVIOUS
<1>2. now \in Nat
  BY DEF TasksInv, TasksTypeOK
<1>3. CASE store'[t] = now + 2
  BY <1>2, <1>3
<1>4. CASE t \in DOMAIN store /\ store'[t] = store[t]
  BY <1>1, <1>4 DEF TasksInv, Grabbed
<1> QED  BY <1>3, <1>4 DEF Later

\* The runs of other processes and tasks are not disturbed by one that ends.
LEMMA KeepsOthers ==
    ASSUME TasksInv, Later, now' = now, extending \subseteq extending',
           NEW p \in Process, NEW t \in Task,
           run'[p][t] = run[p][t], timer'[p][t] = timer[p][t],
           attempt'[p][t] = attempt[p][t]
    PROVE  AtWork(p, t)'
<1>1. now \in Nat /\ timer[p][t] \in Nat
  BY DEF TasksInv, TasksTypeOK, WorkTypeOK
<1>2. t \in DOMAIN store => store[t] \in Nat
  BY DEF TasksInv, TasksTypeOK
<1>3. AtWork(p, t)
  BY DEF TasksInv
<1>4. t \in DOMAIN store' =>
            (store'[t] = now + 2) \/ (t \in DOMAIN store /\ store'[t] = store[t])
  BY DEF Later
<1> QED  BY <1>1, <1>2, <1>3, <1>4 DEF AtWork, Running

----------------------------------------------------------------------------
\* The invariant holds at the start.
LEMMA TasksInit == Init => TasksInv
<1> SUFFICES ASSUME Init PROVE TasksInv
  OBVIOUS
<1>1. TasksTypeOK
  BY DEF Init, TasksTypeOK, WorkTypeOK, BatchRuns, None
<1> QED  BY <1>1 DEF Init, TasksInv, NoTaskLost, Finished, Grabbed, AtWork, Running, None

\* A run begins with its task in the store.
LEMMA StepRun ==
    ASSUME TasksInv, NEW p \in Process, NEW t \in Task, Run(p, t)
    PROVE  TasksInv'
<1> USE DEF TasksInv
<1>0. /\ run' \in [Process -> [Task -> {"none", "handle", "delete", "failed"}]]
      /\ timer' \in [Process -> [Task -> Nat]]
      /\ attempt' \in [Process -> [Task -> 0 .. 2]]
      /\ run'[p][t] = "handle" /\ timer'[p][t] = now + 1
      /\ \A q \in Process, u \in Task : ~(q = p /\ u = t) =>
            run'[q][u] = run[q][u] /\ timer'[q][u] = timer[q][u]
                /\ attempt'[q][u] = attempt[q][u]
  <2>1. {t} \in SUBSET Task /\ 1 \in 1 .. 2 /\ StartedIn(p, {t}, 1)
    BY DEF Run
  <2> QED  BY <2>1, Starts
<1>1. Later
  BY Holds DEF Run, Later
<1>2. TasksTypeOK'
  <2>1. WorkTypeOK'
    BY <1>0 DEF WorkTypeOK
  <2>2. BatchRuns'
    <3>1. mode[p] = "up" /\ mode' = mode /\ batch' = batch
      BY DEF Run
    <3>2. \A q \in Process : batch[q] \subseteq Task
      BY DEF TasksTypeOK
    <3>3. ASSUME NEW q \in Process, mode[q] = "retry", NEW u \in batch[q]
          PROVE  run'[q][u] # "none"
      <4>1. q # p /\ u \in Task
        BY <3>1, <3>2, <3>3
      <4>2. run'[q][u] = run[q][u]
        BY <4>1, <1>0
      <4> QED  BY <4>2, <3>3 DEF BatchRuns, TasksTypeOK
    <3> QED  BY <3>1, <3>3 DEF BatchRuns, TasksTypeOK
  <2>3. overdue' \in [Process -> SUBSET Task]
    BY DEF Run, TasksTypeOK
  <2> QED  BY <2>1, <2>2, <2>3, Holds DEF Run, TasksTypeOK
<1>3. NoTaskLost'
  BY Holds DEF Run, NoTaskLost
<1>4. Finished'
  BY <1>0 DEF Run, Finished
<1>5. Grabbed'
  BY <1>1, KeepsGrabbed DEF Run
<1>6. ASSUME NEW q \in Process, NEW u \in Task PROVE AtWork(q, u)'
  <2>1. CASE q = p /\ u = t
    <3>1. store'[t] = now + 2 /\ t \in DOMAIN store' /\ now' = now /\ timer'[p][t] = now + 1
      BY <1>0, Holds DEF Run
    <3>2. now \in Nat
      BY DEF TasksTypeOK
    <3> QED  BY <2>1, <3>1, <3>2 DEF AtWork
  <2>2. CASE ~(q = p /\ u = t)
    <3>1. run'[q][u] = run[q][u] /\ timer'[q][u] = timer[q][u]
            /\ attempt'[q][u] = attempt[q][u]
      BY <2>2, <1>0
    <3> QED  BY <3>1, <1>1, KeepsOthers DEF Run
  <2> QED  BY <2>1, <2>2
<1> QED  BY <1>2, <1>3, <1>4, <1>5, <1>6

\* A due timer is set anew and its extension begins.
LEMMA StepFire ==
    ASSUME TasksInv, NEW p \in Process, NEW t \in Task, Fire(p, t)
    PROVE  TasksInv'
<1> USE DEF TasksInv
<1>0. /\ timer' \in [Process -> [Task -> Nat]] /\ timer'[p][t] = now + 1
      /\ \A q \in Process, u \in Task : ~(q = p /\ u = t) => timer'[q][u] = timer[q][u]
  <2>1. timer' = [timer EXCEPT ![p][t] = now + 1]
    BY DEF Fire
  <2>2. now + 1 \in Nat /\ timer \in [Process -> [Task -> Nat]]
    BY DEF TasksTypeOK, WorkTypeOK
  <2> QED  BY <2>1, <2>2, SetEntry
<1>1. Later
  BY DEF Fire, Later
<1>2. TasksTypeOK'
  <2>1. extending' \subseteq Process \X Task
    BY DEF Fire, TasksTypeOK
  <2>2. WorkTypeOK' /\ BatchRuns'
    BY <1>0 DEF Fire, TasksTypeOK, WorkTypeOK, BatchRuns
  <2> QED  BY <2>1, <2>2 DEF Fire, TasksTypeOK, history
<1>3. NoTaskLost' /\ Finished'
  BY DEF Fire, NoTaskLost, Finished, history
<1>4. Grabbed'
  BY <1>1, KeepsGrabbed DEF Fire
<1>5. ASSUME NEW q \in Process, NEW u \in Task PROVE AtWork(q, u)'
  <2>1. CASE q = p /\ u = t
    <3>1. now \in Nat /\ (t \in DOMAIN store => store[t] \in Nat)
      BY DEF TasksTypeOK
    <3>2. timer'[p][t] = now + 1 /\ now' = now /\ store' = store
            /\ run' = run /\ attempt' = attempt
      BY <1>0 DEF Fire
    <3>3. t \in DOMAIN store => <<p, t>> \in extending'
      BY DEF Fire
    <3>4. AtWork(p, t)
      OBVIOUS
    <3> QED  BY <2>1, <3>1, <3>2, <3>3, <3>4 DEF AtWork, Running
  <2>2. CASE ~(q = p /\ u = t)
    <3>1. run'[q][u] = run[q][u] /\ timer'[q][u] = timer[q][u]
            /\ attempt'[q][u] = attempt[q][u]
      BY <2>2, <1>0 DEF Fire
    <3>2. extending \subseteq extending' /\ now' = now
      BY DEF Fire
    <3> QED  BY <3>1, <3>2, <1>1, KeepsOthers
  <2> QED  BY <2>1, <2>2
<1> QED  BY <1>2, <1>3, <1>4, <1>5

\* The put of an extension.
LEMMA StepExtend ==
    ASSUME TasksInv, NEW p \in Process, NEW t \in Task, Extend(p, t)
    PROVE  TasksInv'
<1> USE DEF TasksInv
<1>1. Later
  BY Holds DEF Extend, Later
<1>2. TasksTypeOK'
  <2>1. DOMAIN store' \subseteq Task /\ store' \in [DOMAIN store' -> Nat]
    BY Holds DEF Extend
  <2>2. WorkTypeOK' /\ BatchRuns'
    BY DEF Extend, TasksTypeOK, WorkTypeOK, BatchRuns, work
  <2>3. extending' \subseteq Process \X Task
    BY DEF Extend, TasksTypeOK
  <2> QED  BY <2>1, <2>2, <2>3 DEF Extend, TasksTypeOK, history
<1>3. NoTaskLost' /\ Finished'
  BY Holds DEF Extend, NoTaskLost, Finished, history, work
<1>4. Grabbed'
  BY <1>1, KeepsGrabbed DEF Extend
<1>5. ASSUME NEW q \in Process, NEW u \in Task PROVE AtWork(q, u)'
  <2>1. <<q, u>> \in extending \ extending' =>
            u \in DOMAIN store' /\ store'[u] = now + 2
    BY Holds DEF Extend
  <2> QED  BY <2>1, <1>1, KeepsAtWork DEF Extend
<1> QED  BY <1>2, <1>3, <1>4, <1>5

\* A handler that succeeds completes its task; one that throws ends its run.
LEMMA StepEnd ==
    ASSUME TasksInv, NEW p \in Process, NEW t \in Task,
           Succeed(p, t) \/ Fail(p, t) \/ Complete(p, t)
    PROVE  TasksInv'
<1> USE DEF TasksInv
<1>1. /\ now' = now /\ mode' = mode /\ seen' = seen /\ extending' = extending
      /\ accepted' = accepted /\ overdue' = overdue
      /\ completed \subseteq completed' /\ completed' \subseteq Task
      /\ batch' \in [Process -> SUBSET Task]
      /\ \A q \in Process : batch'[q] \subseteq batch[q]
  <2>1. CASE Succeed(p, t) \/ Fail(p, t)
    BY <2>1 DEF Succeed, Fail, history, TasksTypeOK
  <2>2. CASE Complete(p, t)
    BY <2>2 DEF Complete, history, TasksTypeOK
  <2> QED  BY <2>1, <2>2
<1>2. /\ DOMAIN store' \subseteq DOMAIN store
      /\ \A u \in DOMAIN store' : store'[u] = store[u]
      /\ store' \in [DOMAIN store' -> Nat]
  BY DEF Succeed, Fail, Complete, Restrict, TasksTypeOK
<1>3. /\ run' \in [Process -> [Task -> {"none", "handle", "delete", "failed"}]]
      /\ timer' \in [Process -> [Task -> Nat]]
      /\ attempt' \in [Process -> [Task -> 0 .. 2]]
      /\ \A q \in Process, u \in Task : ~(q = p /\ u = t) =>
            run'[q][u] = run[q][u] /\ timer'[q][u] = timer[q][u]
                /\ attempt'[q][u] = attempt[q][u]
      /\ run'[p][t] = "delete" => Succeed(p, t)
      /\ ~Succeed(p, t) => run'[p][t] \in {"none", "failed"}
      /\ run'[p][t] = "none" => mode[p] = "up" \/ Complete(p, t)
  <2>1. CASE Succeed(p, t)
    <3>1. run \in [Process -> [Task -> {"none", "handle", "delete", "failed"}]]
      BY DEF TasksTypeOK, WorkTypeOK
    <3>2. run' = [run EXCEPT ![p][t] = "delete"] /\ timer' = timer /\ attempt' = attempt
      BY <2>1 DEF Succeed
    <3>3. /\ run' \in [Process -> [Task -> {"none", "handle", "delete", "failed"}]]
          /\ run'[p][t] = "delete"
          /\ \A q \in Process, u \in Task : ~(q = p /\ u = t) => run'[q][u] = run[q][u]
      BY <3>1, <3>2, SetEntry
    <3> QED  BY <2>1, <3>2, <3>3 DEF TasksTypeOK, WorkTypeOK
  <2>2. CASE Fail(p, t)
    <3> DEFINE how == IF mode[p] = "up" THEN "none" ELSE "failed"
    <3>1. how \in {"none", "failed"} /\ EndRun(p, t, how)
      BY <2>2 DEF Fail
    <3>2. how = "none" => mode[p] = "up"
      OBVIOUS
    <3> HIDE DEF how
    <3> QED  BY <3>1, <3>2, Ends
  <2>3. CASE Complete(p, t)
    <3>1. EndRun(p, t, "none")
      BY <2>3 DEF Complete
    <3> QED  BY <2>3, <3>1, Ends
  <2> QED  BY <2>1, <2>2, <2>3
<1>4. ASSUME NEW q \in Process, NEW u \in Task, ~(q = p /\ u = t)
      PROVE  run'[q][u] = run[q][u] /\ timer'[q][u] = timer[q][u]
                /\ attempt'[q][u] = attempt[q][u]
  BY <1>3, <1>4
<1>5. ASSUME mode[p] = "retry", t \in batch'[p] PROVE run'[p][t] # "none"
  <2>1. ~Complete(p, t)
    BY <1>5 DEF Complete, TasksTypeOK
  <2> QED  BY <2>1, <1>3, <1>5
<1>6. TasksTypeOK'
  <2>1. ASSUME NEW q \in Process, mode'[q] = "retry", NEW u \in batch'[q]
        PROVE  run'[q][u] # "none"
    BY <2>1, <1>1, <1>4, <1>5 DEF TasksTypeOK, BatchRuns
  <2>2. BatchRuns'
    BY <2>1, <1>1 DEF BatchRuns, TasksTypeOK
  <2>3. WorkTypeOK'
    BY <1>3 DEF WorkTypeOK
  <2> QED  BY <2>2, <2>3, <1>1, <1>2 DEF TasksTypeOK
<1>7. NoTaskLost'
  BY DEF Succeed, Fail, Complete, Restrict, NoTaskLost, Finished, history
<1>8. Finished'
  <2>1. run'[p][t] = "delete" => t \in completed'
    BY <1>3 DEF Succeed
  <2> QED  BY <2>1, <1>1, <1>4 DEF Finished
<1>9. Later
  BY <1>2 DEF Later
<1>10. Grabbed'
  BY <1>1, <1>9, KeepsGrabbed
<1>11. ASSUME NEW q \in Process, NEW u \in Task PROVE AtWork(q, u)'
  <2>1. CASE q = p /\ u = t /\ ~Succeed(p, t)
    BY <2>1, <1>3 DEF AtWork, Running
  <2>2. CASE q = p /\ u = t /\ Succeed(p, t)
    <3>1. Running(p, t) /\ timer' = timer /\ attempt' = attempt /\ store' = store
      BY <2>2 DEF Succeed, Running
    <3>2. AtWork(p, t)
      OBVIOUS
    <3> QED  BY <2>2, <3>1, <3>2, <1>1 DEF AtWork
  <2>3. CASE ~(q = p /\ u = t)
    <3>1. extending \subseteq extending' /\ now' = now
      BY <1>1
    <3> QED  BY <2>3, <3>1, <1>4, <1>9, KeepsOthers
  <2> QED  BY <2>1, <2>2, <2>3
<1> QED  BY <1>6, <1>7, <1>8, <1>10, <1>11

\* The iterator of a grab is set up, or open() ends.
LEMMA StepOpen ==
    ASSUME TasksInv, NEW p \in Process, Open(p) \/ NextBatch(p) \/ Opened(p)
    PROVE  TasksInv'
<1> USE DEF TasksInv
<1>1. /\ store' = store /\ now' = now /\ batch' = batch /\ UNCHANGED work
      /\ extending' = extending /\ accepted' = accepted /\ completed' = completed
      /\ overdue' \in [Process -> SUBSET Task]
      /\ mode' \in [Process -> {"down", "grab", "retry", "up"}]
  BY SMTT(20) DEF Open, NextBatch, Opened, history, TasksTypeOK
<1>2. batch[p] = {} /\ mode'[p] \in {"grab", "up"}
      /\ \A q \in Process : q # p => mode'[q] = mode[q]
  BY DEF Open, NextBatch, Opened, TasksTypeOK, BatchRuns
<1>3. /\ DOMAIN seen' = Process
      /\ \A q \in Process : DOMAIN seen'[q] \subseteq Task
                                /\ seen'[q] \in [DOMAIN seen'[q] -> Nat]
  BY DEF Open, NextBatch, Opened, TasksTypeOK
<1>4. WorkTypeOK' /\ BatchRuns'
  BY <1>1, <1>2 DEF TasksTypeOK, WorkTypeOK, BatchRuns, work
<1>5. TasksTypeOK'
  BY <1>1, <1>3, <1>4 DEF TasksTypeOK
<1>6. NoTaskLost' /\ Finished'
  BY <1>1 DEF NoTaskLost, Finished, work
<1>7. Later
  BY <1>1 DEF Later
<1>8. Grabbed'
  BY <1>1, <1>2 DEF Grabbed
<1>9. ASSUME NEW q \in Process, NEW u \in Task PROVE AtWork(q, u)'
  BY <1>1, <1>7, KeepsAtWork
<1> QED  BY <1>5, <1>6, <1>8, <1>9

\* The iterator of a grab visits a task.
LEMMA StepGrab ==
    ASSUME TasksInv, NEW p \in Process, NEW t \in Task, Grab(p, t)
    PROVE  TasksInv'
<1> USE DEF TasksInv
<1>1. /\ now' = now /\ mode' = mode /\ UNCHANGED work /\ mode[p] = "grab"
      /\ extending' = extending /\ UNCHANGED history
  BY DEF Grab
<1>2. /\ DOMAIN seen' = Process
      /\ \A q \in Process : DOMAIN seen'[q] \subseteq Task
                                /\ seen'[q] \in [DOMAIN seen'[q] -> Nat]
  BY DEF Grab, Restrict, TasksTypeOK
<1>3. /\ batch' \in [Process -> SUBSET Task]
      /\ \A q \in Process \ {p} : batch'[q] = batch[q]
      /\ batch'[p] \subseteq batch[p] \cup {t}
      /\ (store' = store /\ batch' = batch) \/ Hold(t)
  BY DEF Grab, TasksTypeOK
<1>4. /\ DOMAIN store \subseteq DOMAIN store' /\ DOMAIN store' \subseteq Task
      /\ store' \in [DOMAIN store' -> Nat] /\ Later
  <2>1. CASE store' = store
    BY <2>1 DEF Later, TasksTypeOK
  <2>2. CASE Hold(t)
    BY <2>2, Holds DEF Later
  <2> QED  BY <1>3, <2>1, <2>2
<1>5. WorkTypeOK' /\ BatchRuns'
  BY <1>1, <1>3 DEF TasksTypeOK, WorkTypeOK, BatchRuns, work
<1>6. TasksTypeOK'
  BY <1>1, <1>2, <1>3, <1>4, <1>5 DEF TasksTypeOK, history
<1>7. NoTaskLost' /\ Finished'
  BY <1>1, <1>4 DEF NoTaskLost, Finished, work, history
<1>8. Grabbed'
  <2> SUFFICES ASSUME NEW q \in Process, mode[q] = "grab",
                      NEW u \in batch'[q] \cap DOMAIN store'
               PROVE  store'[u] >= now + 2
    BY <1>1 DEF Grabbed
  <2>1. now \in Nat
    BY DEF TasksTypeOK
  <2>2. CASE store'[u] = now + 2
    BY <2>1, <2>2
  <2>3. CASE u \in batch[q] /\ u \in DOMAIN store /\ store'[u] = store[u]
    BY <2>3 DEF Grabbed
  <2>4. CASE u \notin batch[q]
    <3>1. u = t /\ Hold(t)
      BY <1>3, <2>4
    <3> QED  BY <3>1, Holds, <2>2
  <2> QED  BY <2>2, <2>3, <2>4, <1>4 DEF Later
<1>9. ASSUME NEW q \in Process, NEW u \in Task PROVE AtWork(q, u)'
  BY <1>1, <1>4, KeepsAtWork
<1> QED  BY <1>6, <1>7, <1>8, <1>9

\* The tasks of a batch are started, or started again.
LEMMA StepBatch ==
    ASSUME TasksInv, NEW p \in Process, StartBatch(p) \/ RetryBatch(p)
    PROVE  TasksInv'
<1> USE DEF TasksInv
<1>1. /\ now' = now /\ store' = store /\ batch' = batch /\ extending' = extending
      /\ UNCHANGED history /\ mode'[p] = "retry"
      /\ mode' \in [Process -> {"down", "grab", "retry", "up"}]
      /\ \A q \in Process : q # p => mode'[q] = mode[q]
  BY DEF StartBatch, RetryBatch, TasksTypeOK
<1>2. /\ DOMAIN seen' = Process
      /\ \A q \in Process : DOMAIN seen'[q] \subseteq Task
                                /\ seen'[q] \in [DOMAIN seen'[q] -> Nat]
  <2>1. DOMAIN None \subseteq Task /\ None \in [DOMAIN None -> Nat]
    BY DEF None
  <2>2. seen' = [seen EXCEPT ![p] = None] \/ seen' = seen
    BY DEF StartBatch, RetryBatch
  <2> QED  BY <2>1, <2>2 DEF TasksTypeOK
<1>3. PICK try \in 1 .. 2 :
        /\ StartedIn(p, batch[p], try)
        /\ try = 1 => mode[p] = "grab"
  BY DEF StartBatch, RetryBatch
<1>4. batch[p] \in SUBSET Task
  BY DEF TasksTypeOK
<1>5. /\ run' \in [Process -> [Task -> {"none", "handle", "delete", "failed"}]]
      /\ timer' \in [Process -> [Task -> Nat]]
      /\ attempt' \in [Process -> [Task -> 0 .. 2]]
      /\ \A t \in batch[p] : run'[p][t] = "handle" /\ timer'[p][t] = now + 1
                                /\ attempt'[p][t] = try
      /\ \A q \in Process, t \in Task : ~(q = p /\ t \in batch[p]) =>
            run'[q][t] = run[q][t] /\ timer'[q][t] = timer[q][t]
                /\ attempt'[q][t] = attempt[q][t]
  BY <1>3, <1>4, Starts
<1>6. WorkTypeOK'
  BY <1>5 DEF WorkTypeOK
<1>7. BatchRuns'
  <2>1. ASSUME NEW q \in Process, mode'[q] = "retry", NEW t \in batch[q]
        PROVE  run'[q][t] # "none"
    <3>1. t \in Task
      BY DEF TasksTypeOK
    <3>2. CASE q = p
      BY <3>2, <1>5
    <3>3. CASE q # p
      <4>1. mode[q] = "retry" /\ run'[q][t] = run[q][t]
        BY <3>1, <3>3, <2>1, <1>1, <1>5
      <4> QED  BY <4>1 DEF TasksTypeOK, BatchRuns
    <3> QED  BY <3>2, <3>3
  <2> QED  BY <2>1, <1>1 DEF BatchRuns, TasksTypeOK
<1>8. TasksTypeOK'
  BY <1>1, <1>2, <1>6, <1>7 DEF TasksTypeOK, history
<1>9. NoTaskLost'
  BY <1>1 DEF NoTaskLost, history
<1>10. Finished'
  <2>1. \A q \in Process, t \in Task : run'[q][t] = "delete" => run[q][t] = "delete"
    BY <1>5
  <2> QED  BY <2>1, <1>1 DEF Finished, history
<1>11. Grabbed'
  BY <1>1 DEF Grabbed
<1>12. ASSUME NEW q \in Process, NEW t \in Task PROVE AtWork(q, t)'
  <2>1. CASE q = p /\ t \in batch[p]
    <3>1. now \in Nat
      BY DEF TasksTypeOK
    <3>2. CASE try = 1
      <4>1. t \in DOMAIN store => store[t] >= now + 2 /\ store[t] \in Nat
        BY <3>2, <2>1, <1>3 DEF Grabbed, TasksTypeOK
      <4>2. timer'[p][t] = now + 1
        BY <2>1, <1>5
      <4> QED  BY <2>1, <3>1, <4>1, <4>2, <1>1 DEF AtWork
    <3>3. CASE try # 1
      BY <2>1, <3>3, <1>5 DEF AtWork
    <3> QED  BY <3>2, <3>3
  <2>2. CASE ~(q = p /\ t \in batch[p])
    <3>1. run'[q][t] = run[q][t] /\ timer'[q][t] = timer[q][t]
            /\ attempt'[q][t] = attempt[q][t]
      BY <2>2, <1>5
    <3>2. Later
      BY <1>1 DEF Later
    <3> QED  BY <3>1, <3>2, <1>1, KeepsOthers
  <2> QED  BY <2>1, <2>2
<1> QED  BY <1>8, <1>9, <1>10, <1>11, <1>12

\* A process stops: its runs and extensions end.
LEMMA StepStop ==
    ASSUME TasksInv, NEW p \in Process, Stop(p)
    PROVE  TasksInv'
<1> USE DEF TasksInv
<1>1. /\ now' = now /\ store' = store /\ accepted' = accepted /\ completed' = completed
      /\ extending' = {e \in extending : e[1] # p}
      /\ overdue' \in [Process -> SUBSET Task]
      /\ mode' \in [Process -> {"down", "grab", "retry", "up"}] /\ mode'[p] = "down"
      /\ batch' \in [Process -> SUBSET Task] /\ batch'[p] = {}
      /\ \A q \in Process : q # p => mode'[q] = mode[q] /\ batch'[q] = batch[q]
  BY DEF Stop, TasksTypeOK
<1>2. /\ DOMAIN seen' = Process
      /\ \A q \in Process : DOMAIN seen'[q] \subseteq Task
                                /\ seen'[q] \in [DOMAIN seen'[q] -> Nat]
  BY DEF Stop, None, TasksTypeOK
<1>3. /\ run' \in [Process -> [Task -> {"none", "handle", "delete", "failed"}]]
      /\ \A t \in Task : run'[p][t] = "none"
      /\ \A q \in Process : q # p => run'[q] = run[q]
  BY DEF Stop, TasksTypeOK, WorkTypeOK
<1>4. /\ timer' \in [Process -> [Task -> Nat]]
      /\ \A q \in Process : q # p => timer'[q] = timer[q]
  BY DEF Stop, TasksTypeOK, WorkTypeOK
<1>5. /\ attempt' \in [Process -> [Task -> 0 .. 2]]
      /\ \A q \in Process : q # p => attempt'[q] = attempt[q]
  BY DEF Stop, TasksTypeOK, WorkTypeOK
<1>6. WorkTypeOK'
  BY <1>3, <1>4, <1>5 DEF WorkTypeOK
<1>7. BatchRuns'
  <2>1. \A q \in Process : q # p => mode'[q] = mode[q] /\ batch'[q] = batch[q]
                                        /\ run'[q] = run[q]
    BY <1>1, <1>3
  <2> QED  BY <1>1, <2>1 DEF TasksTypeOK, BatchRuns
<1>8. TasksTypeOK'
  BY <1>1, <1>2, <1>6, <1>7 DEF TasksTypeOK
<1>9. NoTaskLost' /\ Grabbed'
  BY <1>1 DEF NoTaskLost, Grabbed
<1>10. Finished'
  BY <1>1, <1>3 DEF Finished
<1>11. ASSUME NEW q \in Process, NEW t \in Task PROVE AtWork(q, t)'
  <2>1. CASE q = p
    BY <2>1, <1>3 DEF AtWork, Running
  <2>2. CASE q # p
    <3>1. run'[q][t] = run[q][t] /\ timer'[q][t] = timer[q][t]
            /\ attempt'[q][t] = attempt[q][t]
      BY <2>2, <1>3, <1>4, <1>5
    <3>2. <<q, t>> \in extending' <=> <<q, t>> \in extending
      BY <2>2, <1>1
    <3>3. AtWork(q, t)
      OBVIOUS
    <3> QED  BY <3>1, <3>2, <3>3, <1>1 DEF AtWork, Running
  <2> QED  BY <2>1, <2>2
<1> QED  BY <1>8, <1>9, <1>10, <1>11

\* A period passes: all timers that were due have fired.
LEMMA StepTick == ASSUME TasksInv, Tick PROVE TasksInv'
<1> USE DEF TasksInv
<1>1. /\ now' = now + 1 /\ now \in Nat
      /\ UNCHANGED <<store, mode, seen, batch, run, timer, attempt, extending,
                     accepted, completed, overdue>>
      /\ extending = {}
  BY DEF Tick, work, history, TasksTypeOK
<1>2. WorkTypeOK' /\ BatchRuns'
  BY <1>1 DEF WorkTypeOK, BatchRuns, TasksTypeOK
<1>3. TasksTypeOK'
  BY <1>1, <1>2 DEF TasksTypeOK
<1>4. NoTaskLost' /\ Finished'
  BY <1>1 DEF NoTaskLost, Finished
<1>5. Grabbed'
  BY <1>1 DEF Tick, Grabbed
<1>6. ASSUME NEW p \in Process, NEW t \in Task PROVE AtWork(p, t)'
  <2>1. timer[p][t] \in Nat /\ (t \in DOMAIN store => store[t] \in Nat)
    BY DEF TasksTypeOK, WorkTypeOK
  <2>2. Running(p, t) => timer[p][t] > now
    BY DEF Tick
  <2>3. AtWork(p, t)
    OBVIOUS
  <2>4. <<p, t>> \notin extending
    BY <1>1
  <2>5. Running(p, t)' <=> Running(p, t)
    BY <1>1 DEF Running
  <2> QED  BY <1>1, <2>1, <2>2, <2>3, <2>4, <2>5 DEF AtWork
<1> QED  BY <1>3, <1>4, <1>5, <1>6

\* Every step keeps the invariant.
LEMMA TasksStep == TasksInv /\ [Next]_vars => TasksInv'
<1> SUFFICES ASSUME TasksInv, [Next]_vars PROVE TasksInv'
  OBVIOUS
<1>1. ASSUME NEW p \in Process, NEW t \in Task,
             \/ Run(p, t) \/ Fire(p, t) \/ Extend(p, t) \/ Grab(p, t)
             \/ Succeed(p, t) \/ Fail(p, t) \/ Complete(p, t)
      PROVE  TasksInv'
  BY <1>1, StepRun, StepFire, StepExtend, StepGrab, StepEnd
<1>2. ASSUME NEW p \in Process,
             \/ Open(p) \/ NextBatch(p) \/ Opened(p)
             \/ StartBatch(p) \/ RetryBatch(p) \/ Stop(p)
      PROVE  TasksInv'
  BY <1>2, StepOpen, StepBatch, StepStop
<1>3. CASE UNCHANGED vars
  BY <1>3 DEF vars, work, history, TasksInv, TasksTypeOK, WorkTypeOK, BatchRuns,
              NoTaskLost, Finished, Grabbed, AtWork, Running
<1> QED  BY <1>1, <1>2, <1>3, StepTick DEF Next, ProcessNext

----------------------------------------------------------------------------
\* TasksInv is an invariant.
LEMMA TasksInvariant == Spec => []TasksInv
BY TasksInit, TasksStep, PTL DEF Spec

\* The variables of the task store and of its processes keep their types, and
\* what waits in a batch has a run.
THEOREM TasksTypeCorrect == Spec => []TasksTypeOK
<1>1. TasksInv => TasksTypeOK
  BY DEF TasksInv
<1> QED  BY <1>1, TasksInvariant, PTL

\* No registered task is lost before its handler has succeeded, for any number of
\* stops, failures, late extensions and processes.
\* (resumable-task-manager.ts:36-64)
THEOREM TaskNeverLost == Spec => []NoTaskLost
<1>1. TasksInv => NoTaskLost
  BY DEF TasksInv
<1> QED  BY <1>1, TasksInvariant, PTL

\* A task that is being worked at for the first time since it was registered or
\* grabbed is never timed out, however long its handler takes.
\* (resumable-task-manager.ts:49-56)
THEOREM RunningAlwaysHeld == Spec => []RunningHeld
<1>1. TasksInv => RunningHeld
  <2> SUFFICES ASSUME TasksInv, NEW p \in Process, NEW t \in DOMAIN store,
                      Running(p, t), attempt[p][t] = 1
               PROVE  ~TimedOut(store, t)
    BY DEF RunningHeld
  <2>1. t \in Task /\ store[t] \in Nat /\ now \in Nat
    BY DEF TasksInv, TasksTypeOK
  <2>2. store[t] > now
    BY <2>1 DEF TasksInv, AtWork
  <2> QED  BY <2>1, <2>2 DEF TimedOut
<1> QED  BY <1>1, TasksInvariant, PTL

----------------------------------------------------------------------------
\* open() leaves nothing behind.

Opening(p) == mode[p] \in {"grab", "retry"}

\* One process opens at a time.
Alone == \A p, q \in Process : Opening(p) /\ Opening(q) => p = q

\* Runs are those of requests, at their first attempt, or those of a batch.
RunsOfBatch ==
    \A p \in Process, t \in Task : run[p][t] # "none" =>
        \/ mode[p] = "up" /\ attempt[p][t] = 1
        \/ mode[p] = "retry" /\ t \in batch[p]

\* An extension under way is of a batch, of a task completed since its get, or of
\* a task that is held: its put revives no task that is timed out.
ExtendsHeld ==
    \A p \in Process, t \in Task : <<p, t>> \in extending =>
        \/ t \in batch[p] \cup completed
        \/ t \in DOMAIN store => store[t] > now

\* The next grab finds the task timed out, or the current one still has it to visit.
Due(p, t) ==
    /\ t \in DOMAIN store /\ TimedOut(store, t)
    /\ mode[p] = "grab" => t \in DOMAIN seen[p] /\ TimedOut(seen[p], t)

\* Each task that open() is to resume is completed, in the batch, or due.
WillResume ==
    \A p \in Process, t \in Task : t \in overdue[p] \ completed =>
        Opening(p) /\ (t \in batch[p] \/ Due(p, t))

ResumeInv ==
    /\ TasksInv
    /\ Alone /\ RunsOfBatch /\ ExtendsHeld /\ WillResume

LEMMA ResumeInit == Init => ResumeInv
<1> SUFFICES ASSUME Init PROVE ResumeInv
  OBVIOUS
<1>1. \A p \in Process : mode[p] = "down" /\ overdue[p] = {}
  BY DEF Init
<1>2. \A p \in Process, t \in Task : run[p][t] = "none"
  BY DEF Init
<1>3. extending = {}
  BY DEF Init
<1> QED  BY <1>1, <1>2, <1>3, TasksInit
         DEF ResumeInv, Alone, Opening, RunsOfBatch, ExtendsHeld, WillResume

\* A request runs a task.
LEMMA ResumeRun ==
    ASSUME ResumeInv, TasksInv', NEW p \in Process, NEW t \in Task, Run(p, t)
    PROVE  ResumeInv'
<1> USE DEF ResumeInv
<1>0. TasksTypeOK
  BY DEF TasksInv
<1>1. /\ mode' = mode /\ batch' = batch /\ seen' = seen /\ now' = now
      /\ extending' = extending /\ completed' = completed /\ mode[p] = "up"
  BY DEF Run
<1>2. /\ run'[p][t] = "handle" /\ attempt'[p][t] = 1
      /\ \A q \in Process, u \in Task : ~(q = p /\ u = t) =>
            run'[q][u] = run[q][u] /\ attempt'[q][u] = attempt[q][u]
  <2>1. {t} \in SUBSET Task /\ 1 \in 1 .. 2 /\ StartedIn(p, {t}, 1)
    BY DEF Run
  <2> QED  BY <2>1, <1>0, Starts
<1>3. /\ DOMAIN store' = DOMAIN store \cup {t} /\ store'[t] = now + 2
      /\ \A u \in DOMAIN store : u # t => store'[u] = store[u]
  BY <1>0, Holds DEF Run
<1>4. Alone'
  BY <1>1 DEF Alone, Opening
<1>5. RunsOfBatch'
  BY <1>1, <1>2 DEF RunsOfBatch
<1>6. ExtendsHeld'
  <2> SUFFICES ASSUME NEW q \in Process, NEW u \in Task, <<q, u>> \in extending
               PROVE  u \in batch[q] \cup completed \/ (u \in DOMAIN store' => store'[u] > now)
    BY <1>1 DEF ExtendsHeld
  <2>1. CASE u = t
    BY <2>1, <1>0, <1>3 DEF TasksTypeOK
  <2>2. CASE u # t
    BY <2>2, <1>3 DEF ExtendsHeld
  <2> QED  BY <2>1, <2>2
<1>7. WillResume'
  <2> SUFFICES ASSUME NEW q \in Process, NEW u \in Task, u \in overdue'[q] \ completed'
               PROVE  Opening(q)' /\ (u \in batch'[q] \/ Due(q, u)')
    BY DEF WillResume
  <2>1. overdue'[q] = overdue[q] \ {t}
    BY DEF Run
  <2>2. u # t /\ Opening(q) /\ (u \in batch[q] \/ Due(q, u))
    BY <2>1, <1>1 DEF WillResume
  <2>3. Due(q, u) => Due(q, u)'
    BY <2>2, <1>1, <1>3 DEF Due, TimedOut
  <2> QED  BY <2>2, <2>3, <1>1 DEF Opening
<1> QED  BY <1>4, <1>5, <1>6, <1>7

\* A due timer fires: the task it is to extend is of a batch, or held.
LEMMA ResumeFire ==
    ASSUME ResumeInv, TasksInv', NEW p \in Process, NEW t \in Task, Fire(p, t)
    PROVE  ResumeInv'
<1> USE DEF ResumeInv
<1>1. /\ UNCHANGED <<store, now, mode, seen, batch, run, attempt, completed, overdue>>
      /\ extending' \subseteq extending \cup {<<p, t>>}
      /\ run[p][t] # "none" /\ Running(p, t)
  BY DEF Fire, Running, history
<1>2. t \in batch[p] \/ (t \in DOMAIN store => store[t] > now)
  BY <1>1 DEF RunsOfBatch, TasksInv, AtWork
<1>3. ExtendsHeld'
  BY <1>1, <1>2 DEF ExtendsHeld
<1>4. Alone' /\ RunsOfBatch' /\ WillResume'
  BY <1>1 DEF Alone, Opening, RunsOfBatch, WillResume, Due, TimedOut
<1> QED  BY <1>3, <1>4

\* The put of an extension holds a task that is in no other's batch: it revives none
\* that open() still has to grab.
LEMMA ResumeExtend ==
    ASSUME ResumeInv, TasksInv', NEW p \in Process, NEW t \in Task, Extend(p, t)
    PROVE  ResumeInv'
<1> USE DEF ResumeInv
<1>0. TasksTypeOK
  BY DEF TasksInv
<1>1. /\ UNCHANGED <<now, mode, seen, batch, run, attempt, completed, overdue>>
      /\ extending' \subseteq extending /\ <<p, t>> \in extending
  BY DEF Extend, work, history
<1>2. /\ DOMAIN store' = DOMAIN store \cup {t} /\ store'[t] = now + 2
      /\ \A u \in DOMAIN store : u # t => store'[u] = store[u]
  BY <1>0, Holds DEF Extend
<1>3. Alone' /\ RunsOfBatch'
  BY <1>1 DEF Alone, Opening, RunsOfBatch
<1>4. ExtendsHeld'
  <2> SUFFICES ASSUME NEW q \in Process, NEW u \in Task, <<q, u>> \in extending
               PROVE  u \in batch[q] \cup completed \/ (u \in DOMAIN store' => store'[u] > now)
    BY <1>1 DEF ExtendsHeld
  <2>1. CASE u = t
    BY <2>1, <1>0, <1>2 DEF TasksTypeOK
  <2>2. CASE u # t
    BY <2>2, <1>2 DEF ExtendsHeld
  <2> QED  BY <2>1, <2>2
<1>5. WillResume'
  <2> SUFFICES ASSUME NEW q \in Process, NEW u \in Task, u \in overdue[q] \ completed,
                      Opening(q), Due(q, u), u \notin batch[q]
               PROVE  Due(q, u)'
    BY <1>1 DEF WillResume, Opening
  <2>1. u # t
    <3> SUFFICES ASSUME u = t PROVE FALSE
      OBVIOUS
    <3>1. store[u] \in Nat /\ now \in Nat
      BY <1>0 DEF TasksTypeOK, Due
    <3>2. t \in batch[p]
      BY <1>1, <3>1 DEF ExtendsHeld, Due, TimedOut
    <3>3. Opening(p)
      BY <3>2, <1>0 DEF TasksTypeOK, BatchRuns, Opening
    <3> QED  BY <3>2, <3>3 DEF Alone
  <2> QED  BY <2>1, <1>1, <1>2 DEF Due, TimedOut
<1> QED  BY <1>3, <1>4, <1>5

\* Failures are counted, so that a delete that throws is told from one that succeeds.
Counted == failures \in Nat

LEMMA CountedAlways == Spec => []Counted
<1>1. Init => Counted
  BY DEF Init, Counted
<1>2. Counted /\ [Next]_vars => Counted'
  <2> SUFFICES ASSUME Counted, [Next]_vars PROVE failures' = failures \/ failures' = failures + 1
    BY DEF Counted
  <2>1. ASSUME NEW p \in Process, NEW t \in Task,
               \/ Run(p, t) \/ Fire(p, t) \/ Extend(p, t) \/ Grab(p, t)
               \/ Succeed(p, t) \/ Fail(p, t) \/ Complete(p, t)
        PROVE  failures' = failures \/ failures' = failures + 1
    BY <2>1 DEF Run, Fire, Extend, Grab, Succeed, Fail, Complete, counts
  <2>2. ASSUME NEW p \in Process,
               \/ Open(p) \/ NextBatch(p) \/ Opened(p)
               \/ StartBatch(p) \/ RetryBatch(p) \/ Stop(p)
        PROVE  failures' = failures
    BY <2>2 DEF Open, NextBatch, Opened, StartBatch, RetryBatch, Stop, counts
  <2>3. CASE Tick \/ UNCHANGED vars
    BY <2>3 DEF Tick, vars, counts
  <2> QED  BY <2>1, <2>2, <2>3 DEF Next, ProcessNext
<1> QED  BY <1>1, <1>2, PTL DEF Spec

\* A handler ends, or its task is deleted: a task leaves the store or its batch
\* only when it is completed.
LEMMA ResumeEnd ==
    ASSUME ResumeInv, Counted, TasksInv', NEW p \in Process, NEW t \in Task,
           Succeed(p, t) \/ Fail(p, t) \/ Complete(p, t)
    PROVE  ResumeInv'
<1> USE DEF ResumeInv
<1>0. TasksTypeOK
  BY DEF TasksInv
<1>1. /\ UNCHANGED <<now, mode, seen, extending, overdue>>
      /\ completed \subseteq completed' /\ run[p][t] # "none"
  BY DEF Succeed, Fail, Running, Complete, history
<1>2. /\ \A q \in Process, u \in Task : ~(q = p /\ u = t) =>
            run'[q][u] = run[q][u] /\ attempt'[q][u] = attempt[q][u]
      /\ run'[p][t] # "none" => /\ attempt'[p][t] = attempt[p][t] \/ mode[p] # "up"
                                /\ ~Complete(p, t)
  <2>1. CASE Succeed(p, t)
    <3>1. run \in [Process -> [Task -> {"none", "handle", "delete", "failed"}]]
      BY <1>0 DEF TasksTypeOK, WorkTypeOK
    <3>2. run' = [run EXCEPT ![p][t] = "delete"] /\ attempt' = attempt
      BY <2>1 DEF Succeed
    <3>3. \A q \in Process, u \in Task : ~(q = p /\ u = t) => run'[q][u] = run[q][u]
      BY <3>1, <3>2, SetEntry
    <3>4. ~Complete(p, t)
      BY <2>1 DEF Succeed, Complete
    <3> QED  BY <3>2, <3>3, <3>4
  <2>2. CASE Fail(p, t)
    <3> DEFINE how == IF mode[p] = "up" THEN "none" ELSE "failed"
    <3>1. how \in {"none", "failed"} /\ EndRun(p, t, how)
      BY <2>2 DEF Fail
    <3>2. how # "none" => mode[p] # "up"
      OBVIOUS
    <3>3. ~Complete(p, t)
      BY <2>2 DEF Fail, Complete, counts, Counted
    <3> HIDE DEF how
    <3> QED  BY <3>1, <3>2, <3>3, <1>0, Ends
  <2>3. CASE Complete(p, t)
    <3>1. EndRun(p, t, "none")
      BY <2>3 DEF Complete
    <3> QED  BY <3>1, <1>0, Ends
  <2> QED  BY <2>1, <2>2, <2>3
<1>3. /\ \A q \in Process : batch'[q] \subseteq batch[q]
      /\ \A q \in Process : \A u \in batch[q] \ batch'[q] :
            q = p /\ u = t /\ Complete(p, t)
      /\ \A u \in DOMAIN store' : u \in DOMAIN store /\ store'[u] = store[u]
      /\ \A u \in DOMAIN store \ DOMAIN store' : u = t /\ Complete(p, t)
  <2>1. CASE Succeed(p, t) \/ Fail(p, t)
    BY <2>1 DEF Succeed, Fail
  <2>2. CASE Complete(p, t)
    BY <2>2, <1>0 DEF Complete, Restrict, TasksTypeOK
  <2> QED  BY <2>1, <2>2
<1>4. Complete(p, t) => t \in completed
  BY DEF Complete, TasksInv, Finished
<1>5. Alone'
  BY <1>1 DEF Alone, Opening
<1>6. RunsOfBatch'
  <2> SUFFICES ASSUME NEW q \in Process, NEW u \in Task, run'[q][u] # "none"
               PROVE  \/ mode[q] = "up" /\ attempt'[q][u] = 1
                      \/ mode[q] = "retry" /\ u \in batch'[q]
    BY <1>1 DEF RunsOfBatch
  <2>1. \/ mode[q] = "up" /\ attempt[q][u] = 1
        \/ mode[q] = "retry" /\ u \in batch[q]
    BY <1>1, <1>2 DEF RunsOfBatch
  <2> QED  BY <2>1, <1>2, <1>3
<1>7. ExtendsHeld'
  <2> SUFFICES ASSUME NEW q \in Process, NEW u \in Task, <<q, u>> \in extending
               PROVE  u \in batch'[q] \cup completed' \/ (u \in DOMAIN store' => store'[u] > now)
    BY <1>1 DEF ExtendsHeld
  <2> QED  BY <1>1, <1>3, <1>4 DEF ExtendsHeld
<1>8. WillResume'
  <2> SUFFICES ASSUME NEW q \in Process, NEW u \in Task, u \in overdue[q] \ completed'
               PROVE  Opening(q)' /\ (u \in batch'[q] \/ Due(q, u)')
    BY <1>1 DEF WillResume
  <2>1. u \notin completed /\ Opening(q) /\ (u \in batch[q] \/ Due(q, u))
    BY <1>1 DEF WillResume
  <2>2. u \in batch[q] => u \in batch'[q]
    BY <2>1, <1>3, <1>4
  <2>3. Due(q, u) => Due(q, u)'
    BY <2>1, <1>1, <1>3, <1>4 DEF Due, TimedOut
  <2> QED  BY <2>1, <2>2, <2>3, <1>1 DEF Opening
<1> QED  BY <1>5, <1>6, <1>7, <1>8

\* open() begins, with an empty batch and all that is timed out before it.
LEMMA ResumeOpen ==
    ASSUME ResumeInv, TasksInv', NEW p \in Process, Open(p)
    PROVE  ResumeInv'
<1> USE DEF ResumeInv
<1>0. TasksTypeOK
  BY DEF TasksInv
<1>1. /\ UNCHANGED <<store, now, batch, run, attempt, extending, completed>>
      /\ mode[p] = "down" /\ \A q \in Process : ~Opening(q)
      /\ mode' = [mode EXCEPT ![p] = "grab"] /\ seen' = [seen EXCEPT ![p] = store]
      /\ overdue' = [overdue EXCEPT ![p] = {t \in DOMAIN store : TimedOut(store, t)}]
  BY DEF Open, Opening, work
<1>2. /\ mode'[p] = "grab" /\ seen'[p] = store
      /\ overdue'[p] = {t \in DOMAIN store : TimedOut(store, t)}
      /\ \A q \in Process : q # p => mode'[q] = mode[q] /\ seen'[q] = seen[q]
                                        /\ overdue'[q] = overdue[q]
  BY <1>0, <1>1 DEF TasksTypeOK
<1>3. Alone'
  BY <1>1, <1>2 DEF Alone, Opening
<1>4. RunsOfBatch'
  BY <1>1, <1>2 DEF RunsOfBatch
<1>5. ExtendsHeld'
  BY <1>1 DEF ExtendsHeld
<1>6. ASSUME NEW q \in Process, NEW u \in Task, u \in overdue'[q] \ completed'
      PROVE  Opening(q)' /\ (u \in batch'[q] \/ Due(q, u)')
  <2>1. q = p
    BY <1>1, <1>2, <1>6 DEF WillResume
  <2>2. Due(p, u)'
    BY <2>1, <1>1, <1>2, <1>6 DEF Due, TimedOut
  <2> QED  BY <2>1, <2>2, <1>2 DEF Opening
<1> QED  BY <1>3, <1>4, <1>5, <1>6 DEF WillResume

\* A batch is done and the next is grabbed, or nothing was grabbed: then all that
\* was overdue is completed.
LEMMA ResumeNext ==
    ASSUME ResumeInv, TasksInv', NEW p \in Process, NextBatch(p) \/ Opened(p)
    PROVE  ResumeInv'
<1> USE DEF ResumeInv
<1>0. TasksTypeOK
  BY DEF TasksInv
<1>1. /\ UNCHANGED <<store, now, batch, run, attempt, extending, completed, overdue>>
      /\ Opening(p) /\ batch[p] = {} /\ mode'[p] \in {"grab", "up"}
      /\ \A q \in Process : q # p => mode'[q] = mode[q] /\ seen'[q] = seen[q]
  BY <1>0 DEF NextBatch, Opened, Opening, work, history, TasksTypeOK
<1>2. Alone'
  BY <1>1 DEF Alone, Opening
<1>3. RunsOfBatch'
  <2>1. \A u \in Task : run[p][u] = "none"
    BY <1>1 DEF RunsOfBatch, Opening
  <2> QED  BY <2>1, <1>1 DEF RunsOfBatch
<1>4. ExtendsHeld'
  BY <1>1 DEF ExtendsHeld
<1>5. ASSUME NEW u \in Task, u \in overdue[p] \ completed
      PROVE  mode'[p] = "grab" /\ Due(p, u)'
  <2>1. Due(p, u)
    BY <1>1, <1>5 DEF WillResume
  <2>2. CASE NextBatch(p)
    BY <2>1, <2>2, <1>0 DEF NextBatch, Due, TimedOut, TasksTypeOK
  <2>3. CASE Opened(p)
    BY <2>1, <2>3 DEF Opened, Due
  <2> QED  BY <2>2, <2>3
<1>6. ASSUME NEW q \in Process, q # p, NEW u \in Task, u \in overdue[q] \ completed
      PROVE  FALSE
  BY <1>1, <1>6 DEF WillResume, Alone
<1> QED  BY <1>1, <1>2, <1>3, <1>4, <1>5, <1>6 DEF WillResume, Opening

\* The iterator visits a task, and grabs it when it is timed out.
LEMMA ResumeGrab ==
    ASSUME ResumeInv, TasksInv', NEW p \in Process, NEW t \in Task, Grab(p, t)
    PROVE  ResumeInv'
<1> USE DEF ResumeInv
<1>0. TasksTypeOK
  BY DEF TasksInv
<1>1. /\ UNCHANGED <<now, mode, run, attempt, extending, completed, overdue>>
      /\ mode[p] = "grab"
      /\ \A q \in Process : q # p => seen'[q] = seen[q] /\ batch'[q] = batch[q]
      /\ seen' = [seen EXCEPT ![p] = Restrict(@, DOMAIN @ \ {t})]
  BY <1>0 DEF Grab, work, history, TasksTypeOK
<1>2. /\ batch[p] \subseteq batch'[p]
      /\ \/ TimedOut(seen[p], t) /\ t \in batch'[p]
         \/ ~TimedOut(seen[p], t) /\ batch' = batch
      /\ \A u \in DOMAIN store : u # t => u \in DOMAIN store' /\ store'[u] = store[u]
      /\ \A u \in DOMAIN store' :
            \/ u \in DOMAIN store /\ store'[u] = store[u]
            \/ store'[u] = now + 2
  <2>1. CASE TimedOut(seen[p], t)
    <3>1. Hold(t) /\ batch' = [batch EXCEPT ![p] = @ \cup {t}]
      BY <2>1 DEF Grab
    <3> QED  BY <2>1, <3>1, <1>0, Holds DEF TasksTypeOK
  <2>2. CASE ~TimedOut(seen[p], t)
    BY <2>2 DEF Grab
  <2> QED  BY <2>1, <2>2
<1>3. \A u \in DOMAIN seen[p] : u # t =>
            u \in DOMAIN seen'[p] /\ seen'[p][u] = seen[p][u]
  BY <1>0, <1>1 DEF Restrict, TasksTypeOK
<1>4. Alone'
  BY <1>1 DEF Alone, Opening
<1>5. RunsOfBatch'
  BY <1>1, <1>2 DEF RunsOfBatch
<1>6. ExtendsHeld'
  <2> SUFFICES ASSUME NEW q \in Process, NEW u \in Task, <<q, u>> \in extending
               PROVE  u \in batch'[q] \cup completed \/ (u \in DOMAIN store' => store'[u] > now)
    BY <1>1 DEF ExtendsHeld
  <2>1. batch[q] \subseteq batch'[q]
    BY <1>1, <1>2
  <2> QED  BY <2>1, <1>0, <1>2 DEF ExtendsHeld, TasksTypeOK
<1>7. ASSUME NEW u \in Task, u \in overdue[p] \ completed
      PROVE  u \in batch'[p] \/ Due(p, u)'
  <2>1. CASE u \in batch[p]
    BY <2>1, <1>2
  <2>2. CASE Due(p, u) /\ u = t
    BY <2>2, <1>1, <1>2 DEF Due
  <2>3. CASE Due(p, u) /\ u # t
    BY <2>3, <1>1, <1>2, <1>3 DEF Due, TimedOut
  <2> QED  BY <2>1, <2>2, <2>3, <1>7 DEF WillResume
<1>8. ASSUME NEW q \in Process, q # p, NEW u \in Task, u \in overdue[q] \ completed
      PROVE  FALSE
  BY <1>1, <1>8 DEF WillResume, Alone, Opening
<1> QED  BY <1>1, <1>4, <1>5, <1>6, <1>7, <1>8 DEF WillResume, Opening

\* The batch is started, or tried again.
LEMMA ResumeBatch ==
    ASSUME ResumeInv, TasksInv', NEW p \in Process, StartBatch(p) \/ RetryBatch(p)
    PROVE  ResumeInv'
<1> USE DEF ResumeInv
<1>0. TasksTypeOK
  BY DEF TasksInv
<1>1. /\ UNCHANGED <<store, now, batch, extending, completed, overdue>>
      /\ Opening(p) /\ mode'[p] = "retry"
      /\ \A q \in Process : q # p => mode'[q] = mode[q] /\ seen'[q] = seen[q]
  BY <1>0 DEF StartBatch, RetryBatch, Opening, history, TasksTypeOK
<1>2. \A q \in Process, u \in Task : ~(q = p /\ u \in batch[p]) =>
            run'[q][u] = run[q][u] /\ attempt'[q][u] = attempt[q][u]
  <2>1. PICK try \in 1 .. 2 : StartedIn(p, batch[p], try)
    BY DEF StartBatch, RetryBatch
  <2>2. batch[p] \in SUBSET Task
    BY <1>0 DEF TasksTypeOK
  <2> QED  BY <2>1, <2>2, <1>0, Starts
<1>3. Alone'
  BY <1>1 DEF Alone, Opening
<1>4. RunsOfBatch'
  <2> SUFFICES ASSUME NEW q \in Process, NEW u \in Task, run'[q][u] # "none"
               PROVE  \/ mode'[q] = "up" /\ attempt'[q][u] = 1
                      \/ mode'[q] = "retry" /\ u \in batch'[q]
    BY DEF RunsOfBatch
  <2>1. CASE q = p /\ u \in batch[p]
    BY <2>1, <1>1
  <2>2. CASE ~(q = p /\ u \in batch[p])
    <3>1. \/ mode[q] = "up" /\ attempt[q][u] = 1
          \/ mode[q] = "retry" /\ u \in batch[q]
      BY <2>2, <1>2 DEF RunsOfBatch
    <3> QED  BY <2>2, <3>1, <1>1, <1>2 DEF Opening
  <2> QED  BY <2>1, <2>2
<1>5. ExtendsHeld'
  BY <1>1 DEF ExtendsHeld
<1>6. ASSUME NEW u \in Task, u \in overdue[p] \ completed
      PROVE  u \in batch[p] \/ Due(p, u)'
  BY <1>1, <1>6 DEF WillResume, Due, TimedOut
<1>7. ASSUME NEW q \in Process, q # p, NEW u \in Task, u \in overdue[q] \ completed
      PROVE  FALSE
  BY <1>1, <1>7 DEF WillResume, Alone
<1> QED  BY <1>1, <1>3, <1>4, <1>5, <1>6, <1>7 DEF WillResume, Opening

\* A process stops, and what it had left to resume is for the next open().
LEMMA ResumeStop ==
    ASSUME ResumeInv, TasksInv', NEW p \in Process, Stop(p)
    PROVE  ResumeInv'
<1> USE DEF ResumeInv
<1>0. TasksTypeOK
  BY DEF TasksInv
<1>1. /\ UNCHANGED <<store, now, completed>>
      /\ extending' = {e \in extending : e[1] # p}
      /\ mode'[p] = "down" /\ overdue'[p] = {} /\ \A u \in Task : run'[p][u] = "none"
  BY <1>0 DEF Stop, TasksTypeOK, WorkTypeOK
<1>2. \A q \in Process : q # p =>
            /\ mode'[q] = mode[q] /\ seen'[q] = seen[q] /\ batch'[q] = batch[q]
            /\ run'[q] = run[q] /\ attempt'[q] = attempt[q] /\ overdue'[q] = overdue[q]
  BY <1>0 DEF Stop, TasksTypeOK, WorkTypeOK
<1>3. Alone'
  BY <1>1, <1>2 DEF Alone, Opening
<1>4. RunsOfBatch'
  BY <1>1, <1>2 DEF RunsOfBatch
<1>5. ExtendsHeld'
  BY <1>1, <1>2 DEF ExtendsHeld
<1>6. WillResume'
  BY <1>1, <1>2 DEF WillResume, Opening, Due, TimedOut
<1> QED  BY <1>3, <1>4, <1>5, <1>6

\* A period passes: no extension is under way, and what was due stays due.
LEMMA ResumeTick ==
    ASSUME ResumeInv, TasksInv', Tick
    PROVE  ResumeInv'
<1> USE DEF ResumeInv
<1>0. TasksTypeOK
  BY DEF TasksInv
<1>1. /\ UNCHANGED <<store, mode, seen, batch, run, attempt, extending, completed, overdue>>
      /\ now' = now + 1 /\ extending = {} /\ \A p \in Process : mode[p] # "grab"
  BY DEF Tick, work, history
<1>2. Alone' /\ RunsOfBatch' /\ ExtendsHeld'
  BY <1>1 DEF Alone, Opening, RunsOfBatch, ExtendsHeld
<1>3. \A p \in Process, t \in Task : Due(p, t) => Due(p, t)'
  BY <1>0, <1>1 DEF Due, TimedOut, TasksTypeOK
<1> QED  BY <1>1, <1>2, <1>3 DEF WillResume, Opening

\* Every step keeps the invariant.
LEMMA ResumeStep == ResumeInv /\ Counted /\ [Next]_vars => ResumeInv'
<1> SUFFICES ASSUME ResumeInv, Counted, [Next]_vars PROVE ResumeInv'
  OBVIOUS
<1>0. TasksInv'
  BY TasksStep DEF ResumeInv
<1>1. ASSUME NEW p \in Process, NEW t \in Task,
             \/ Run(p, t) \/ Fire(p, t) \/ Extend(p, t) \/ Grab(p, t)
             \/ Succeed(p, t) \/ Fail(p, t) \/ Complete(p, t)
      PROVE  ResumeInv'
  BY <1>0, <1>1, ResumeRun, ResumeFire, ResumeExtend, ResumeGrab, ResumeEnd
<1>2. ASSUME NEW p \in Process,
             \/ Open(p) \/ NextBatch(p) \/ Opened(p)
             \/ StartBatch(p) \/ RetryBatch(p) \/ Stop(p)
      PROVE  ResumeInv'
  BY <1>0, <1>2, ResumeOpen, ResumeNext, ResumeBatch, ResumeStop
<1>3. CASE UNCHANGED vars
  BY <1>0, <1>3 DEF vars, work, history, ResumeInv, Alone, Opening, RunsOfBatch,
                    ExtendsHeld, WillResume, Due, TimedOut
<1> QED  BY <1>0, <1>1, <1>2, <1>3, ResumeTick DEF Next, ProcessNext

\* When open() returns, every task that was timed out when it began, and that no
\* request has asked for again, is completed: for any number of other processes at
\* work, of extensions under way, of failures, and of batches.
\* (resumable-task-manager.ts:78-113)
THEOREM OpenResumesAll == Spec => []ResumedOnOpen
<1>1. Spec => []ResumeInv
  BY ResumeInit, ResumeStep, CountedAlways, PTL DEF Spec
<1>2. ResumeInv => ResumedOnOpen
  <2> SUFFICES ASSUME ResumeInv, NEW p \in Process, mode[p] = "up"
               PROVE  overdue[p] \subseteq completed
    BY DEF ResumedOnOpen
  <2>1. overdue[p] \subseteq Task
    BY DEF ResumeInv, TasksInv, TasksTypeOK
  <2> QED  BY <2>1 DEF ResumeInv, WillResume, Opening
<1> QED  BY <1>1, <1>2, PTL
=============================================================================
