---------------------------- MODULE HostTasks_proofs ----------------------------
(***************************************************************************)
(* Proofs about HostTasks, for any number of tasks, instances, executors,  *)
(* retries and restarts.                                                   *)
(***************************************************************************)
EXTENDS HostTasks, TLAPS

\* At most one claim transaction is past the host's lock; its task is not running,
\* and the host still is as free as when the transaction looked.
ClaimsInv ==
    /\ \A s, t \in claims : s = t
    /\ \A t \in claims : status[t] \notin {"none", "processing"} /\ HostFree(t)

\* One executor at most is on the first run of a task, and only a task that was
\* put back into its queue has an executor writing a log entry.
RunInv ==
    /\ \A e, f \in Executors : FirstRun(e) /\ FirstRun(f) /\ task[e] = task[f] => e = f
    /\ \A e \in Executors : step[e] = "log" => retried[task[e]] > 0

\* What a sweep has read is not claimed again unless it was put back into its
\* queue, and what it is about to fail is not running for the first time.
SweepInv ==
    \A t \in sweep.ids :
        retried[t] = 0 =>
            /\ status[t] \notin {"none", "pending"} /\ t \notin claims
            /\ sweep.next = "write" => t \notin running

\* Of two light tasks of an instance the later one was inserted when the earlier one
\* was no longer active.  If that one is claimed all the same, it is PROCESSING before
\* the later one can be claimed, and the later one does not get past its checks.
EarlierInv ==
    \A s, t \in Ids : s < t /\ status[t] # "none" =>
        /\ status[s] # "none"
        /\ Kind(s) = "light" /\ Kind(t) = "light" /\ Inst(s) = Inst(t) =>
               /\ status[s] # "pending"
               /\ s \in claims => status[t] # "processing"
               /\ status[s] = "processing" =>
                      \A e \in Executors :
                          FirstRun(e) /\ task[e] = t => step[e] \in {"look", "failed"}

IInv ==
    /\ TypeOK /\ ClaimsInv /\ RowsExclusive
    /\ RunInv /\ SweepInv /\ EarlierInv
    /\ WorkIsCovered /\ WorkOnLiveInstance

-------------------------------------------------------------------------------
(* Types *)

\* The initial state.
LEMMA InitEstablishes == Init => IInv
<1> SUFFICES ASSUME Init PROVE IInv
  OBVIOUS
<1> USE HostTasksAssumption DEF Init, Resting
<1>1. TypeOK
  BY DEF TypeOK, Ids, Steps
<1>2. ClaimsInv /\ SweepInv /\ EarlierInv
  BY DEF ClaimsInv, SweepInv, EarlierInv
<1>3. Processing = {}
  BY DEF Processing
<1>4. RowsExclusive
  BY <1>3 DEF RowsExclusive
<1>5. RunInv /\ WorkIsCovered /\ WorkOnLiveInstance
  BY DEF RunInv, WorkIsCovered, WorkOnLiveInstance, FirstRun
<1>6. QED
  BY <1>1, <1>2, <1>4, <1>5 DEF IInv

\* An executor that stops, or goes on to a step other than "idle", keeps its type.
LEMMA ExecutorType ==
  ASSUME TypeOK, NEW e \in Executors,
         \/ \E ids \in SUBSET Ids : Stop(e, ids)
         \/ /\ step[e] # "idle" /\ UNCHANGED <<task, running>>
            /\ \E next \in Steps \ {"idle"} : Become(e, next)
  PROVE  /\ step' \in [Executors -> Steps]
         /\ task' \in [Executors -> Ids \cup {None}]
         /\ \A x \in Executors : task'[x] = None <=> step'[x] = "idle"
         /\ running' \subseteq Ids
  BY DEF TypeOK, Stop, Become, Steps

\* No step of an executor leaves the types.
LEMMA ExecuteType ==
  ASSUME TypeOK, NEW e \in Executors, Execute(e) PROVE TypeOK'
<1>1. step[e] # "idle" => task[e] \in Ids
  BY DEF TypeOK
<1>2. CASE Look(e) \/ RunFails(e) \/ Works(e) \/ CompleteThrows(e)
  <2>1. /\ step[e] # "idle"
        /\ \E next \in Steps \ {"idle"} : Become(e, next)
        /\ UNCHANGED <<job, status, retried, late, gone, claims, task, running, sweep, restarts>>
    BY <1>2 DEF Look, RunFails, Works, CompleteThrows, rows, Steps
  <2>2. QED
    BY <2>1, ExecutorType DEF TypeOK
<1>3. CASE LookThrows(e) \/ FailThrows(e) \/ Logged(e)
  <2>1. /\ \E ids \in SUBSET Ids : Stop(e, ids)
        /\ UNCHANGED <<job, status, retried, late, gone, claims, sweep, restarts>>
    BY <1>1, <1>3 DEF LookThrows, FailThrows, Logged, rows
  <2>2. QED
    BY <2>1, ExecutorType DEF TypeOK
<1>4. CASE Complete(e) \/ Fail(e)
  <2>1. /\ \E ids \in SUBSET Ids : Stop(e, ids)
        /\ UNCHANGED <<job, retried, gone, claims, sweep, restarts>>
        /\ step[e] # "idle"
        /\ \E new \in {"completed", "failed"} : Conclude(task[e], new)
    BY <1>1, <1>4 DEF Complete, Fail
  <2>2. QED
    BY <1>1, <2>1, ExecutorType DEF TypeOK, Conclude, Timely
<1>5. CASE Requeue(e)
  <2>1. /\ \/ \E ids \in SUBSET Ids : Stop(e, ids)
           \/ /\ step[e] # "idle" /\ UNCHANGED <<task, running>>
              /\ \E next \in Steps \ {"idle"} : Become(e, next)
        /\ UNCHANGED <<job, gone, claims, sweep, restarts>>
    BY <1>1, <1>5 DEF Requeue, Steps
  <2>2. /\ step[e] # "idle" /\ status[task[e]] = "processing"
        /\ status' = [status EXCEPT ![task[e]] = "pending"]
        /\ late' = late \ {task[e]}
        /\ retried[task[e]] < MaxRetries
        /\ retried' = [retried EXCEPT ![task[e]] = @ + 1]
    BY <1>5 DEF Requeue, Timely
  <2>3. retried' \in [Ids -> 0..MaxRetries]
    BY <1>1, <2>2, HostTasksAssumption DEF TypeOK
  <2>4. QED
    BY <1>1, <2>1, <2>2, <2>3, ExecutorType DEF TypeOK
<1>6. QED
  BY <1>2, <1>3, <1>4, <1>5 DEF Execute

\* Any idle executor has what a claimed task needs.
LEMMA FreshIsIdle ==
  ASSUME \E x \in Executors : step[x] = "idle"
  PROVE  FreshExecutor \in Executors /\ step[FreshExecutor] = "idle"
  BY DEF FreshExecutor

\* The types are inductive, since only a row that exists is ever claimed.
LEMMA TypeStep == ASSUME TypeOK, ClaimsInv, [Next]_vars PROVE TypeOK'
<1> USE DEF TypeOK
<1>1. CASE \E t \in Ids, j \in Jobs : Insert(t, j)
  <2>1. PICK t \in Ids, j \in Jobs : Insert(t, j)
    BY <1>1
  <2>2. QED
    BY <2>1, HostTasksAssumption DEF Insert, execs
<1>2. CASE \E t \in Ids : Cancel(t) \/ Age(t)
  BY <1>2 DEF Cancel, Age, execs
<1>3. CASE \E t \in Ids : Pick(t) \/ Unpick(t)
  BY <1>3 DEF Pick, Unpick, rows, execs
<1>4. CASE \E t \in Ids : Mark(t)
  <2>1. PICK t \in Ids : Mark(t)
    BY <1>4
  <2> DEFINE e == FreshExecutor
  <2>2. e \in Executors /\ step[e] = "idle"
    BY <2>1, FreshIsIdle DEF Mark
  <2> HIDE DEF e
  <2>3. /\ status' = [status EXCEPT ![t] = "processing"] /\ late' = late \ {t}
        /\ claims' = claims \ {t} /\ t \in claims
        /\ step' = [step EXCEPT ![e] = "look"] /\ task' = [task EXCEPT ![e] = t]
        /\ running' = running \cup {t}
        /\ UNCHANGED <<job, retried, gone, sweep, restarts>>
    BY <2>1 DEF Mark, Timely, Become, e
  <2>4. t # None /\ status[t] # "none"
    BY HostTasksAssumption, <2>1 DEF Ids, Mark, ClaimsInv
  <2>5. /\ status' \in [Ids -> {"none", "pending", "processing", "completed", "failed"}]
        /\ \A s \in Ids : job'[s] = None <=> status'[s] = "none"
        /\ late' \subseteq {s \in Ids : status'[s] = "processing"}
    BY <2>3, <2>4
  <2>6. /\ step' \in [Executors -> Steps] /\ task' \in [Executors -> Ids \cup {None}]
        /\ \A x \in Executors : task'[x] = None <=> step'[x] = "idle"
    BY <2>2, <2>3, <2>4 DEF Steps
  <2>7. QED
    BY <2>3, <2>5, <2>6
<1>4a. CASE \E t \in Ids : Strand(t)
  BY <1>4a DEF Strand, Timely, execs, ClaimsInv
<1>5. CASE \E i \in Instances : ClaimDeletion(i) \/ ExpiryDeletion(i) \/ UndoDeletion(i)
  BY <1>5 DEF ClaimDeletion, ExpiryDeletion, UndoDeletion, rows, execs
<1>6. CASE \E e \in Executors : Execute(e)
  BY <1>6, ExecuteType
<1>7. CASE (\E queue \in Queues : SweepRead(queue)) \/ SweepFilter
  BY <1>7 DEF SweepRead, SweepFilter, Overdue, NotRunning, Rows, Resting, rows, execs
<1>8. CASE SweepWrite
  BY <1>8 DEF SweepWrite, Resting, execs
<1>9. CASE Restart
  BY <1>9, HostTasksAssumption DEF Restart, Resting, Steps
<1>10. CASE UNCHANGED vars
  BY <1>10 DEF vars
<1>11. QED
  BY <1>1, <1>2, <1>3, <1>4, <1>4a, <1>5, <1>6, <1>7, <1>8, <1>9, <1>10 DEF Next, Sweep

-------------------------------------------------------------------------------
(* Claims *)

\* While the host is not claimed further and its PROCESSING rows only get fewer,
\* it stays as free as it was.
LEMMA FewerRows ==
  ASSUME TypeOK, ClaimsInv, RowsExclusive,
         claims' \subseteq claims,
         Processing' \subseteq Processing,
         \A t \in Ids : status[t] # "none" => job'[t] = job[t],
         \A t \in claims' : status'[t] \notin {"none", "processing"}
  PROVE  ClaimsInv' /\ RowsExclusive'
<1>1. \A t \in Processing \cup claims : t \in Ids /\ Kind(t)' = Kind(t)
  BY DEF TypeOK, ClaimsInv, Processing, Kind
<1>2. ASSUME NEW t \in claims' PROVE HostFree(t)'
  BY <1>1, <1>2 DEF ClaimsInv, HostFree
<1>3. ClaimsInv'
  BY <1>2 DEF ClaimsInv
<1>4. RowsExclusive'
  BY <1>1 DEF RowsExclusive
<1>5. QED
  BY <1>3, <1>4

\* What a step of an executor does to the rows.
LEMMA ExecuteRows ==
  ASSUME TypeOK, NEW e \in Executors, Execute(e)
  PROVE  /\ UNCHANGED <<job, gone, claims, sweep>>
         /\ \A t \in Ids : status'[t] # status[t] => status[t] = "processing" /\ t = task[e]
         /\ \A t \in Ids : status'[t] = "processing" => status[t] = "processing"
<1>1. step[e] # "idle" => task[e] \in Ids
  BY DEF TypeOK
<1>2. CASE Look(e) \/ RunFails(e) \/ Works(e) \/ CompleteThrows(e)
  BY <1>2 DEF Look, RunFails, Works, CompleteThrows, rows
<1>3. CASE LookThrows(e) \/ FailThrows(e) \/ Logged(e)
  BY <1>3 DEF LookThrows, FailThrows, Logged, rows
<1>4. CASE Complete(e) \/ Fail(e)
  BY <1>1, <1>4 DEF Complete, Fail, Conclude, TypeOK
<1>5. CASE Requeue(e)
  BY <1>1, <1>5 DEF Requeue, TypeOK
<1>6. QED
  BY <1>2, <1>3, <1>4, <1>5 DEF Execute

\* The host's lock keeps claims apart, and with them the rows they mark.
LEMMA ClaimsStep ==
  ASSUME TypeOK, ClaimsInv, RowsExclusive, [Next]_vars
  PROVE  ClaimsInv' /\ RowsExclusive'
<1>1. CASE \E t \in Ids, j \in Jobs : Insert(t, j)
  <2>1. PICK t \in Ids, j \in Jobs : Insert(t, j)
    BY <1>1
  <2>2. /\ status[t] = "none" /\ UNCHANGED claims
        /\ job' = [job EXCEPT ![t] = j] /\ status' = [status EXCEPT ![t] = "pending"]
    BY <2>1 DEF Insert
  <2>3. QED
    BY <2>2, FewerRows DEF TypeOK, Processing, ClaimsInv
<1>2. CASE \E t \in Ids : Cancel(t) \/ Age(t)
  BY <1>2, FewerRows DEF Cancel, Age, TypeOK, Processing, ClaimsInv
<1>3. CASE \E t \in Ids : Pick(t)
  <2>1. PICK t \in Ids : Pick(t)
    BY <1>3
  <2>2. claims' = {t} /\ status[t] = "pending" /\ HostFree(t) /\ UNCHANGED rows
    BY <2>1 DEF Pick, HostLockFree
  <2>3. QED
    BY <2>2 DEF ClaimsInv, RowsExclusive, HostFree, Processing, Kind, rows
<1>4. CASE \E t \in Ids : Unpick(t)
  BY <1>4, FewerRows DEF Unpick, rows, TypeOK, Processing, ClaimsInv
<1>5. CASE \E t \in Ids : Mark(t) \/ Strand(t)
  <2>1. PICK t \in Ids : Mark(t) \/ Strand(t)
    BY <1>5
  <2>2. /\ claims' = {} /\ HostFree(t) /\ UNCHANGED job
        /\ status' = [status EXCEPT ![t] = "processing"]
    BY <2>1 DEF Mark, Strand, ClaimsInv
  <2>3. Processing' = Processing \cup {t}
    BY <2>2 DEF Processing, TypeOK
  <2>4. QED
    BY <2>2, <2>3 DEF ClaimsInv, RowsExclusive, HostFree, Kind
<1>6. CASE \E i \in Instances : ClaimDeletion(i) \/ ExpiryDeletion(i) \/ UndoDeletion(i)
  BY <1>6, FewerRows
     DEF ClaimDeletion, ExpiryDeletion, UndoDeletion, rows, TypeOK, Processing, ClaimsInv
<1>7. CASE \E e \in Executors : Execute(e)
  <2>1. PICK e \in Executors : Execute(e)
    BY <1>7
  <2>2. /\ UNCHANGED <<job, claims>>
        /\ \A t \in Ids : status'[t] # status[t] => status[t] = "processing"
        /\ \A t \in Ids : status'[t] = "processing" => status[t] = "processing"
    BY <2>1, ExecuteRows
  <2>3. QED
    BY <2>2, FewerRows DEF Processing, ClaimsInv, TypeOK
<1>8. CASE (\E queue \in Queues : SweepRead(queue)) \/ SweepFilter
  BY <1>8, FewerRows DEF SweepRead, SweepFilter, rows, TypeOK, Processing, ClaimsInv
<1>9. CASE SweepWrite
  BY <1>9, FewerRows DEF SweepWrite, TypeOK, Processing, ClaimsInv
<1>10. CASE Restart
  BY <1>10, FewerRows DEF Restart, TypeOK, Processing, ClaimsInv
<1>11. CASE UNCHANGED vars
  BY <1>11, FewerRows DEF vars, TypeOK, Processing, ClaimsInv
<1>12. QED
  BY <1>1, <1>2, <1>3, <1>4, <1>5, <1>6, <1>7, <1>8, <1>9, <1>10, <1>11 DEF Next, Sweep
-------------------------------------------------------------------------------
(* First runs *)

\* A row being run for the first time exists.
LEMMA FirstRunRow ==
  ASSUME TypeOK, NEW e \in Executors, FirstRun(e)
  PROVE  task[e] \in Ids
  BY DEF TypeOK, FirstRun

\* What a step of an executor does to the executors, the ids in memory and the
\* retry counts: only ending a run, or putting its row back, touches the last two.
LEMMA ExecuteRun ==
  ASSUME TypeOK, NEW e \in Executors, Execute(e)
  PROVE  /\ step[e] # "idle" /\ task[e] \in Ids
         /\ \A x \in Executors \ {e} : step'[x] = step[x] /\ task'[x] = task[x]
         /\ \A t \in Ids : t # task[e] => /\ t \in running' <=> t \in running
                                          /\ retried'[t] = retried[t]
         /\ running' \subseteq running
         /\ \/ /\ step[e] \in {"look", "work", "done"}
               /\ step'[e] \in {"look", "work", "done", "failed"}
               /\ UNCHANGED <<status, task, running, retried>>
            \/ /\ step'[e] = "idle" /\ retried' = retried
               /\ UNCHANGED status \/ status'[task[e]] \in {"completed", "failed"}
            \/ /\ step'[e] \in {"idle", "log"} /\ retried'[task[e]] > 0
               /\ step'[e] = "log" => task'[e] = task[e]
<1>1. step[e] # "idle" /\ task[e] \in Ids
  BY DEF Execute, Look, RunFails, Works, CompleteThrows, LookThrows, FailThrows,
         Logged, Complete, Fail, Requeue, TypeOK
<1> USE DEF TypeOK, Become, Stop
<1>2. CASE Look(e) \/ RunFails(e) \/ Works(e) \/ CompleteThrows(e)
  BY <1>1, <1>2 DEF Look, RunFails, Works, CompleteThrows, rows
<1>3. CASE LookThrows(e) \/ FailThrows(e) \/ Logged(e)
  BY <1>1, <1>3 DEF LookThrows, FailThrows, Logged, rows
<1>4. CASE Complete(e) \/ Fail(e)
  BY <1>1, <1>4 DEF Complete, Fail, Conclude
<1>5. CASE Requeue(e)
  BY <1>1, <1>5 DEF Requeue
<1>6. QED
  BY <1>2, <1>3, <1>4, <1>5 DEF Execute

\* Retry counts do not fall.
LEMMA ExecuteRetries ==
  ASSUME TypeOK, NEW e \in Executors, Execute(e), NEW t \in Ids
  PROVE  retried'[t] >= retried[t] /\ (retried'[t] = 0 => retried[t] = 0)
<1>1. UNCHANGED retried \/ retried' = [retried EXCEPT ![task[e]] = @ + 1]
  BY DEF Execute, Look, RunFails, Works, CompleteThrows, LookThrows, FailThrows,
         Logged, Complete, Fail, Requeue, rows
<1>2. retried[t] \in Nat
  BY HostTasksAssumption DEF TypeOK
<1>3. QED
  BY <1>1, <1>2 DEF TypeOK

\* First runs after a step of an executor are first runs from before it; their rows
\* and ids are as they were.
LEMMA ExecuteFirst ==
  ASSUME TypeOK, RunInv, NEW e \in Executors, Execute(e),
         NEW x \in Executors, FirstRun(x)'
  PROVE  /\ FirstRun(x) /\ task'[x] = task[x]
         /\ status'[task[x]] = status[task[x]]
         /\ task[x] \in running => task[x] \in running'
<1> USE ExecuteRun DEF FirstRun
<1>1. CASE x = e
  BY <1>1
<1>2. CASE x # e /\ task[x] # task[e]
  <2>1. task[x] \in Ids
    BY <1>2 DEF TypeOK
  <2>2. status'[task[x]] = status[task[x]]
    BY <1>2, <2>1, ExecuteRows
  <2>3. QED
    BY <1>2, <2>1, <2>2
<1>3. CASE x # e /\ task[x] = task[e]
  <2>1. FirstRun(x) => ~FirstRun(e) /\ step[e] # "log"
    BY <1>3 DEF RunInv
  <2>2. step'[x] = step[x] /\ task'[x] = task[x] /\ retried'[task[e]] = 0
    BY <1>3
  <2>3. retried[task[e]] = 0
    BY <2>2, ExecuteRetries
  <2>4. step[e] \in {"look", "work", "done", "failed", "log"}
    BY DEF TypeOK, Steps
  <2>5. QED
    BY <1>3, <2>1, <2>2, <2>3, <2>4
<1>4. QED
  BY <1>1, <1>2, <1>3

\* Neither a claim, a cancellation nor a sweep takes the row or the id of a task
\* that is being run for the first time.
LEMMA CoverStep ==
  ASSUME IInv, [Next]_vars PROVE RunInv' /\ WorkIsCovered'
<1> USE DEF IInv, TypeOK
<1>1. ASSUME UNCHANGED <<retried, execs, running>>,
             \A x \in Executors : FirstRun(x) => status'[task[x]] = status[task[x]]
      PROVE  RunInv' /\ WorkIsCovered'
  BY <1>1 DEF RunInv, WorkIsCovered, FirstRun, execs
<1>2. CASE \E t \in Ids, j \in Jobs : Insert(t, j)
  BY <1>1, <1>2, FirstRunRow DEF Insert, WorkIsCovered
<1>3. CASE \E t \in Ids : Cancel(t) \/ Age(t) \/ Pick(t) \/ Unpick(t)
  BY <1>1, <1>3, FirstRunRow DEF Cancel, Age, Pick, Unpick, rows, WorkIsCovered
<1>4. CASE \E t \in Ids : Mark(t)
  <2>1. PICK t \in Ids : Mark(t)
    BY <1>4
  <2> DEFINE e == FreshExecutor
  <2>2. e \in Executors /\ step[e] = "idle"
    BY <2>1, FreshIsIdle DEF Mark
  <2> HIDE DEF e
  <2>3. /\ status' = [status EXCEPT ![t] = "processing"] /\ running' = running \cup {t}
        /\ step' = [step EXCEPT ![e] = "look"] /\ task' = [task EXCEPT ![e] = t]
        /\ UNCHANGED retried /\ status[t] # "processing"
    BY <2>1 DEF Mark, Become, e, ClaimsInv
  <2>4. \A x \in Executors : FirstRun(x) => task[x] # t /\ task[x] \in Ids
    BY <2>3, FirstRunRow DEF WorkIsCovered
  <2>5. /\ step'[e] = "look" /\ task'[e] = t
        /\ \A x \in Executors \ {e} : step'[x] = step[x] /\ task'[x] = task[x]
    BY <2>2, <2>3
  <2>6. \A x \in Executors \ {e} :
           FirstRun(x)' => FirstRun(x) /\ task'[x] # t /\ task'[x] \in Ids
    BY <2>3, <2>4, <2>5 DEF FirstRun
  <2>7. RunInv'
    BY <2>3, <2>5, <2>6 DEF RunInv
  <2>8. WorkIsCovered'
    BY <2>3, <2>5, <2>6 DEF WorkIsCovered
  <2>9. QED
    BY <2>7, <2>8
<1>4a. CASE \E t \in Ids : Strand(t)
  BY <1>1, <1>4a, FirstRunRow DEF Strand, ClaimsInv, WorkIsCovered
<1>5. CASE \E i \in Instances : ClaimDeletion(i) \/ ExpiryDeletion(i) \/ UndoDeletion(i)
  BY <1>1, <1>5 DEF ClaimDeletion, ExpiryDeletion, UndoDeletion, rows
<1>6. CASE \E e \in Executors : Execute(e)
  <2>1. PICK e \in Executors : Execute(e)
    BY <1>6
  <2>2. \A x, y \in Executors :
           FirstRun(x)' /\ FirstRun(y)' /\ task'[x] = task'[y] => x = y
    BY <2>1, ExecuteFirst DEF RunInv
  <2>3. ASSUME NEW x \in Executors, step'[x] = "log" PROVE retried'[task'[x]] > 0
    <3>1. CASE x = e
      BY <2>1, <2>3, <3>1, ExecuteRun
    <3>2. CASE x # e
      <4>1. step[x] = "log" /\ task'[x] = task[x] /\ task[x] \in Ids
        BY <2>1, <2>3, <3>2, ExecuteRun
      <4>2. retried[task[x]] > 0 /\ retried'[task[x]] >= retried[task[x]]
        BY <2>1, <4>1, ExecuteRetries DEF RunInv
      <4>3. retried'[task[x]] \in Nat /\ retried[task[x]] \in Nat
        BY <2>1, <4>1, ExecuteType, HostTasksAssumption
      <4>4. QED
        BY <4>1, <4>2, <4>3
    <3>3. QED
      BY <3>1, <3>2
  <2>4. WorkIsCovered'
    BY <2>1, ExecuteFirst DEF WorkIsCovered
  <2>5. QED
    BY <2>2, <2>3, <2>4 DEF RunInv
<1>7. CASE (\E queue \in Queues : SweepRead(queue)) \/ SweepFilter
  BY <1>1, <1>7 DEF SweepRead, SweepFilter, rows
<1>8. CASE SweepWrite
  <2>1. \A x \in Executors : FirstRun(x) => task[x] \notin sweep.ids
    BY <1>8, FirstRunRow DEF SweepWrite, SweepInv, WorkIsCovered, FirstRun
  <2>2. QED
    BY <1>1, <1>8, <2>1, FirstRunRow DEF SweepWrite
<1>9. CASE Restart
  BY <1>9 DEF Restart, RunInv, WorkIsCovered, FirstRun
<1>10. CASE UNCHANGED vars
  BY <1>1, <1>10 DEF vars, rows, execs
<1>11. QED
  BY <1>2, <1>3, <1>4, <1>4a, <1>5, <1>6, <1>7, <1>8, <1>9, <1>10 DEF Next, Sweep

-------------------------------------------------------------------------------
(* Sweeps and deletions *)

\* Whatever happens between the three steps of a sweep, a row that it has read is
\* not run for the first time afterwards.
LEMMA SweepStep == ASSUME IInv, [Next]_vars PROVE SweepInv'
<1> USE DEF IInv, TypeOK
<1>1. CASE \E t \in Ids, j \in Jobs : Insert(t, j)
  BY <1>1 DEF Insert, SweepInv
<1>2. CASE \E t \in Ids : Cancel(t) \/ Age(t) \/ Pick(t) \/ Unpick(t)
  BY <1>2 DEF Cancel, Age, Pick, Unpick, rows, SweepInv
<1>3. CASE \E t \in Ids : Mark(t) \/ Strand(t)
  BY <1>3 DEF Mark, Strand, SweepInv
<1>4. CASE \E i \in Instances : ClaimDeletion(i) \/ ExpiryDeletion(i) \/ UndoDeletion(i)
  BY <1>4 DEF ClaimDeletion, ExpiryDeletion, UndoDeletion, rows, SweepInv
<1>5. CASE \E e \in Executors : Execute(e)
  <2>1. PICK e \in Executors : Execute(e)
    BY <1>5
  <2>2. ASSUME NEW t \in sweep'.ids, retried'[t] = 0
        PROVE  /\ t \in sweep.ids /\ retried[t] = 0
               /\ status'[t] \notin {"none", "pending"}
    <3>1. t \in sweep.ids /\ t \in Ids /\ retried[t] = 0
      BY <2>1, <2>2, ExecuteRows, ExecuteRetries
    <3>2. status[t] \notin {"none", "pending"}
      BY <3>1 DEF SweepInv
    <3>3. CASE t = task[e]
      BY <2>1, <2>2, <3>1, <3>2, <3>3, ExecuteRun, ExecuteRows
    <3>4. CASE t # task[e]
      BY <2>1, <3>1, <3>2, <3>4, ExecuteRows
    <3>5. QED
      BY <3>1, <3>3, <3>4
  <2>3. UNCHANGED <<claims, sweep>> /\ running' \subseteq running
    BY <2>1, ExecuteRows, ExecuteRun
  <2>4. QED
    BY <2>2, <2>3 DEF SweepInv
<1>6. CASE \E queue \in Queues : SweepRead(queue)
  BY <1>6 DEF SweepRead, Overdue, rows, ClaimsInv, SweepInv
<1>7. CASE SweepFilter
  BY <1>7 DEF SweepFilter, NotRunning, Resting, rows, SweepInv
<1>8. CASE SweepWrite \/ Restart
  BY <1>8 DEF SweepWrite, Restart, Resting, SweepInv
<1>9. CASE UNCHANGED vars
  BY <1>9 DEF vars, SweepInv
<1>10. QED
  BY <1>1, <1>2, <1>3, <1>4, <1>5, <1>6, <1>7, <1>8, <1>9 DEF Next, Sweep

\* A deletion that asks for active rows, and a claim that asks for the status of the
\* instance, exclude each other.
LEMMA LiveStep == ASSUME IInv, [Next]_vars PROVE WorkOnLiveInstance'
<1> USE DEF IInv
<1>1. \A e \in Executors :
         FirstRun(e) => /\ task[e] \in Ids /\ status[task[e]] = "processing"
                        /\ gone[Inst(task[e])] # "claimed"
  BY FirstRunRow DEF WorkIsCovered, WorkOnLiveInstance
<1>2. ASSUME UNCHANGED <<step, task, retried>>,
             \A e \in Executors : FirstRun(e) => /\ job'[task[e]] = job[task[e]]
                                                 /\ gone'[Inst(task[e])] # "claimed"
      PROVE  WorkOnLiveInstance'
  BY <1>2 DEF WorkOnLiveInstance, FirstRun, Inst
<1>3. CASE \E t \in Ids, j \in Jobs : Insert(t, j)
  BY <1>1, <1>2, <1>3 DEF Insert, execs, TypeOK
<1>4. CASE \E t \in Ids : Cancel(t) \/ Age(t) \/ Pick(t) \/ Strand(t) \/ Unpick(t)
  BY <1>1, <1>2, <1>4 DEF Cancel, Age, Pick, Strand, Unpick, rows, execs
<1>5. CASE \E t \in Ids : Mark(t)
  <2>1. PICK t \in Ids : Mark(t)
    BY <1>5
  <2> DEFINE e == FreshExecutor
  <2>2. e \in Executors
    BY <2>1, FreshIsIdle DEF Mark
  <2> HIDE DEF e
  <2>3. /\ step' = [step EXCEPT ![e] = "look"] /\ task' = [task EXCEPT ![e] = t]
        /\ UNCHANGED <<job, retried, gone>> /\ gone[Inst(t)] = "no"
    BY <2>1 DEF Mark, Become, e, Claimable
  <2>4. QED
    BY <1>1, <2>2, <2>3 DEF TypeOK, WorkOnLiveInstance, FirstRun, Inst
<1>6. CASE \E i \in Instances : ClaimDeletion(i)
  <2>1. PICK i \in Instances : ClaimDeletion(i)
    BY <1>6
  <2>2. \A e \in Executors : FirstRun(e) => Inst(task[e]) # i
    BY <1>1, <2>1 DEF ClaimDeletion, Busy, Active
  <2>3. \A e \in Executors : FirstRun(e) => gone'[Inst(task[e])] # "claimed"
    <3>1. \A e \in Executors : FirstRun(e) => Inst(task[e]) \in Instances
      BY <1>1, HostTasksAssumption DEF TypeOK, Inst
    <3>2. QED
      BY <1>1, <2>1, <2>2, <3>1 DEF ClaimDeletion, TypeOK
  <2>4. QED
    BY <1>2, <2>1, <2>3 DEF ClaimDeletion, rows, execs
<1>7. CASE \E i \in Instances : ExpiryDeletion(i) \/ UndoDeletion(i)
  <2>1. \A e \in Executors : FirstRun(e) => Inst(task[e]) \in Instances
    BY <1>1, HostTasksAssumption DEF TypeOK, Inst
  <2>2. QED
    BY <1>1, <1>2, <1>7, <2>1 DEF ExpiryDeletion, UndoDeletion, rows, execs, TypeOK
<1>8. CASE \E e \in Executors : Execute(e)
  BY <1>1, <1>8, ExecuteFirst, ExecuteRows DEF WorkOnLiveInstance, Inst
<1>9. CASE (\E queue \in Queues : SweepRead(queue)) \/ SweepFilter \/ SweepWrite
  BY <1>1, <1>2, <1>9 DEF SweepRead, SweepFilter, SweepWrite, rows, execs
<1>10. CASE Restart
  BY <1>10 DEF Restart, WorkOnLiveInstance, FirstRun
<1>11. CASE UNCHANGED vars
  BY <1>1, <1>2, <1>11 DEF vars, rows, execs
<1>12. QED
  BY <1>3, <1>4, <1>5, <1>6, <1>7, <1>8, <1>9, <1>10, <1>11 DEF Next, Sweep

-------------------------------------------------------------------------------
(* Light tasks of one instance *)

\* Inserting asks for active tasks, running for earlier ones, and the host's lock
\* lets no second claim in before a cancelled task has become PROCESSING.
LEMMA EarlierStep == ASSUME IInv, [Next]_vars PROVE EarlierInv'
<1> USE DEF IInv, TypeOK
<1> DEFINE Light(s, t) == Kind(s) = "light" /\ Kind(t) = "light" /\ Inst(s) = Inst(t)
<1>1. ASSUME UNCHANGED job, claims' \subseteq claims,
             \A t \in Ids : \/ status'[t] = status[t]
                            \/ status[t] # "none" /\ status'[t] \in {"completed", "failed"},
             \A e \in Executors :
                FirstRun(e)' => FirstRun(e) /\ UNCHANGED <<step[e], task[e]>>
      PROVE  EarlierInv'
  BY <1>1 DEF EarlierInv, Kind, Inst
<1>2. CASE \E t \in Ids, j \in Jobs : Insert(t, j)
  <2>1. PICK n \in Ids, j \in Jobs : Insert(n, j)
    BY <1>2
  <2>2. /\ status[n] = "none" /\ \A s \in Ids : s < n => status[s] # "none"
        /\ MayInsert(j)
        /\ job' = [job EXCEPT ![n] = j] /\ status' = [status EXCEPT ![n] = "pending"]
        /\ UNCHANGED <<retried, claims, step, task>>
    BY <2>1 DEF Insert, execs
  <2>3. SUFFICES ASSUME NEW s \in Ids, NEW t \in Ids, s < t, status'[t] # "none"
                 PROVE  /\ status'[s] # "none"
                        /\ Light(s, t)' =>
                              /\ status'[s] # "pending"
                              /\ s \in claims' => status'[t] # "processing"
                              /\ status'[s] = "processing" =>
                                    \A e \in Executors : FirstRun(e)' /\ task'[e] = t
                                                         => step'[e] \in {"look", "failed"}
    BY DEF EarlierInv
  <2>4. CASE t = n
    <3>1. status[s] # "none" /\ s # n
      BY <2>2, <2>3, <2>4 DEF Ids
    <3>2. ASSUME Light(s, t)' PROVE ~Active(s)
      <4>1. j.kind = "light" /\ Kind(s) = "light" /\ Inst(s) = j.inst
        BY <2>2, <2>4, <3>1, <3>2 DEF Kind, Inst
      <4>2. s \in Rows("instance")
        BY <3>1, <4>1 DEF Rows, QueueOf
      <4>3. QED
        BY <2>2, <4>1, <4>2 DEF MayInsert, QueueOf
    <3>3. QED
      BY <2>2, <2>4, <3>1, <3>2 DEF Active
  <2>5. CASE t # n
    <3>1. s # n /\ status[t] # "none"
      BY <2>2, <2>3, <2>5 DEF EarlierInv
    <3>2. Light(s, t)' = Light(s, t) /\ status'[s] = status[s] /\ status'[t] = status[t]
      BY <2>2, <2>5, <3>1 DEF Kind, Inst
    <3>3. QED
      BY <2>2, <2>3, <3>1, <3>2 DEF EarlierInv, FirstRun
  <2>6. QED
    BY <2>4, <2>5
<1>3. CASE \E t \in Ids : Cancel(t) \/ Age(t) \/ Unpick(t)
  BY <1>1, <1>3 DEF Cancel, Age, Unpick, rows, execs, FirstRun
<1>4. CASE \E t \in Ids : Pick(t)
  BY <1>4 DEF Pick, rows, execs, EarlierInv, FirstRun, Kind, Inst
<1>5. CASE \E t \in Ids : Mark(t)
  <2>1. PICK m \in Ids : Mark(m)
    BY <1>5
  <2> DEFINE e == FreshExecutor
  <2>2. e \in Executors /\ step[e] = "idle"
    BY <2>1, FreshIsIdle DEF Mark
  <2> HIDE DEF e
  <2>3. /\ status' = [status EXCEPT ![m] = "processing"] /\ claims' = {}
        /\ step' = [step EXCEPT ![e] = "look"] /\ task' = [task EXCEPT ![e] = m]
        /\ UNCHANGED <<job, retried>> /\ m \in claims /\ status[m] # "none"
    BY <2>1 DEF Mark, Become, e, ClaimsInv
  <2>4. \A x \in Executors \ {e} :
           FirstRun(x)' => /\ FirstRun(x) /\ step'[x] = step[x] /\ task'[x] = task[x]
                           /\ status[task[x]] = "processing"
    BY <2>2, <2>3 DEF FirstRun, WorkIsCovered
  <2>5. QED
    BY <2>2, <2>3, <2>4 DEF EarlierInv, Kind, Inst
<1>5a. CASE \E t \in Ids : Strand(t)
  <2>1. PICK m \in Ids : Strand(m)
    BY <1>5a
  <2>2. /\ status' = [status EXCEPT ![m] = "processing"] /\ claims' = {}
        /\ UNCHANGED <<job, retried, step, task>> /\ m \in claims /\ status[m] # "none"
    BY <2>1 DEF Strand, execs, ClaimsInv
  <2>3. \A x \in Executors :
           FirstRun(x)' => FirstRun(x) /\ status[task[x]] = "processing"
    BY <2>2 DEF FirstRun, WorkIsCovered
  <2>4. QED
    BY <2>2, <2>3 DEF EarlierInv, Kind, Inst
<1>6. CASE \E i \in Instances : ClaimDeletion(i) \/ ExpiryDeletion(i) \/ UndoDeletion(i)
  BY <1>1, <1>6 DEF ClaimDeletion, ExpiryDeletion, UndoDeletion, rows, execs, FirstRun
<1>7. CASE \E e \in Executors : Execute(e)
  <2>1. PICK e \in Executors : Execute(e)
    BY <1>7
  <2>2. /\ UNCHANGED <<job, claims>>
        /\ \A t \in Ids : status'[t] # status[t] => status[t] = "processing" /\ t = task[e]
        /\ \A t \in Ids : status'[t] = "processing" => status[t] = "processing"
    BY <2>1, ExecuteRows
  <2>3. ASSUME Kind(task[e]) = "light", status'[task[e]] = "pending"
        PROVE  UNCHANGED status
    <3>1. ~Requeue(e)
      BY <2>3 DEF Requeue
    <3>2. task[e] \in Ids
      BY <2>1, ExecuteRun
    <3>3. QED
      BY <2>1, <2>3, <3>1, <3>2
         DEF Execute, Look, RunFails, Works, CompleteThrows, LookThrows, FailThrows,
             Logged, Complete, Fail, Conclude, rows
  <2>4. ASSUME NEW s \in Ids, NEW t \in Ids, s < t, status[t] # "none", Light(s, t),
               status[s] = "processing", NEW x \in Executors,
               FirstRun(x)', task'[x] = t
        PROVE  step'[x] \in {"look", "failed"}
    <3>1. FirstRun(x) /\ task[x] = t /\ step[x] \in {"look", "failed"}
      BY <2>1, <2>4, ExecuteFirst DEF EarlierInv
    <3>2. CASE x # e
      BY <2>1, <3>1, <3>2, ExecuteRun
    <3>3. CASE x = e
      <4>1. ~IsEarliest(task[e])
        BY <2>4, <3>1, <3>3 DEF IsEarliest, QueueOf, Rows, Active
      <4>2. step'[e] \in {"look", "failed", "idle", "log"}
        BY <2>1, <3>1, <3>3, <4>1
           DEF Execute, Look, RunFails, Works, CompleteThrows, LookThrows, FailThrows,
               Logged, Complete, Fail, Requeue, Become, Stop
      <4>3. QED
        BY <2>4, <3>3, <4>2 DEF FirstRun
    <3>4. QED
      BY <3>2, <3>3
  <2>5. ASSUME NEW s \in Ids, NEW t \in Ids, s < t, status'[t] # "none"
        PROVE  /\ status'[s] # "none"
               /\ Light(s, t)' =>
                      /\ status'[s] # "pending"
                      /\ s \in claims' => status'[t] # "processing"
    <3>1. status[t] # "none"
      BY <2>2, <2>5
    <3>2. status[s] # "none" /\ Light(s, t)' = Light(s, t)
      BY <2>2, <2>5, <3>1 DEF EarlierInv, Kind, Inst
    <3>3. status'[s] # "none"
      BY <2>1, <2>2, <3>2, ExecuteType
    <3>4. Light(s, t) => /\ status'[s] # "pending"
                         /\ s \in claims' => status'[t] # "processing"
      BY <2>2, <2>3, <2>5, <3>1 DEF EarlierInv
    <3>5. QED
      BY <3>2, <3>3, <3>4
  <2>6. QED
    BY <2>2, <2>4, <2>5 DEF EarlierInv, Kind, Inst
<1>8. CASE (\E queue \in Queues : SweepRead(queue)) \/ SweepFilter \/ SweepWrite
  BY <1>1, <1>8 DEF SweepRead, SweepFilter, SweepWrite, rows, execs, FirstRun
<1>9. CASE Restart
  BY <1>1, <1>9 DEF Restart, FirstRun
<1>10. CASE UNCHANGED vars
  BY <1>1, <1>10 DEF vars, rows, execs, FirstRun
<1>11. QED
  BY <1>2, <1>3, <1>4, <1>5, <1>5a, <1>6, <1>7, <1>8, <1>9, <1>10 DEF Next, Sweep

-------------------------------------------------------------------------------
(* Theorems *)

\* Every reachable state satisfies the invariant, whatever claims, executors, sweeps,
\* cancellations, deletions and restarts interleave.
THEOREM Invariance == Spec => []IInv
<1>1. Init => IInv
  BY InitEstablishes
<1>2. IInv /\ [Next]_vars => IInv'
  BY TypeStep, ClaimsStep, CoverStep, SweepStep, LiveStep, EarlierStep DEF IInv
<1>3. QED
  BY <1>1, <1>2, PTL DEF Spec

\* The rows, the executors and the sweep keep their types.
THEOREM TypeCorrect == Spec => []TypeOK
  BY Invariance, PTL DEF IInv

\* The host's claim lock is enough: a task other than a light one is alone among
\* the PROCESSING rows of its host, though claiming takes two statements.
THEOREM HostExclusive == Spec => []RowsExclusive
  BY Invariance, PTL DEF IInv

\* Neither a cancellation nor a sweep takes the row or the id of a task that is
\* being run for the first time.
THEOREM FirstRunCovered == Spec => []WorkIsCovered
  BY Invariance, PTL DEF IInv

\* Two first runs work at once only if both are light and on different instances,
\* even when a cancelled task was claimed all the same and a new one queued.
THEOREM FirstRunsApart == Spec => []WorkAlone
<1>1. IInv => WorkAlone
  <2> SUFFICES ASSUME IInv, NEW e \in Executors, NEW f \in Executors, e # f,
                      FirstRun(e), step[e] = "work", FirstRun(f), step[f] = "work"
               PROVE  /\ Kind(task[e]) = "light" /\ Kind(task[f]) = "light"
                      /\ Inst(task[e]) # Inst(task[f])
    BY DEF WorkAlone
  <2>1. /\ task[e] \in Ids /\ task[f] \in Ids /\ task[e] # task[f]
        /\ task[e] \in Processing /\ task[f] \in Processing
    BY FirstRunRow DEF IInv, RunInv, WorkIsCovered, Processing
  <2>2. Kind(task[e]) = "light" /\ Kind(task[f]) = "light"
    BY <2>1 DEF IInv, RowsExclusive
  <2>3. task[e] < task[f] \/ task[f] < task[e]
    BY <2>1 DEF Ids
  <2>4. QED
    BY <2>1, <2>2, <2>3 DEF IInv, EarlierInv, Processing
<1>2. QED
  BY <1>1, Invariance, PTL

\* A first run never meets an instance whose deletion was claimed.
THEOREM FirstRunOnLiveInstance == Spec => []WorkOnLiveInstance
  BY Invariance, PTL DEF IInv
===============================================================================
