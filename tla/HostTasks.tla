------------------------------- MODULE HostTasks -------------------------------
(***************************************************************************)
(* The tasks of one host.  Three tables queue them - instance tasks (light *)
(* ones such as start and stop, heavy ones such as rebuild, and creations),*)
(* restores and backup uploads - and one worker per table claims and runs  *)
(* them.  A claim is a transaction that holds the host's claim lock over   *)
(* two statements: it picks a task and then marks it.  A claimed task is   *)
(* run without being awaited; its id stays in a set in memory while it     *)
(* runs, and a sweep once a minute fails the overdue rows that are not in  *)
(* that set.                                                               *)
(*                                                                         *)
(* Transactions that hold an instance's operation lock over all their      *)
(* statements (creating, cancelling, claiming a deletion) are one step.    *)
(* What an executor still does once its row has ended changes nothing here *)
(* and is part of the step that ends the row.  Ended rows are kept.        *)
(***************************************************************************)
EXTENDS Integers, FiniteSets

CONSTANTS
    MaxTasks,     \* bound: rows in the three tables together
    Instances,    \* instances on the host; they have one owner
    Jobs,         \* what is asked for: kinds of tasks for instances
    Executors,    \* bound: tasks being run at once
    MaxRetries,   \* CREATE_TASK_MAX_RETRIES, MAX_RETRY_COUNT
    MaxRestarts,  \* bound: restarts of the server
    None

Kinds == {"light", "heavy", "create", "restore", "upload"}

ASSUME HostTasksAssumption ==
    /\ Jobs \subseteq [kind : Kinds, inst : Instances]
    /\ MaxTasks \in Nat /\ MaxRetries \in Nat /\ MaxRestarts \in Nat
    /\ None \notin Jobs \cup Nat

VARIABLES
    job,        \* what a row asks for: its kind and instance
    status,     \* its status, "none" before it is inserted
    retried,    \* its retryCount
    late,       \* the PROCESSING rows started longer ago than the timeout
    gone,       \* whether and how an instance was marked deleted
    claims,     \* the tasks picked by claim transactions that are under way
    step, task, \* what each executor does next, and for which row
    running,    \* the ids in runningTaskIds and its two sisters
    sweep,      \* the rows a sweep has read, and what it does with them next
    restarts

rows == <<job, status, retried, late>>
execs == <<step, task>>
vars == <<job, status, retried, late, gone, claims, step, task, running, sweep,
          restarts>>

\* Ids grow with createdAt.
Ids == 1..MaxTasks
Queues == {"instance", "restore", "upload"}
Steps == {"idle", "look", "work", "done", "failed", "log"}

TypeOK ==
    /\ job \in [Ids -> Jobs \cup {None}]
    /\ \A t \in Ids : job[t] = None <=> status[t] = "none"
    /\ status \in [Ids -> {"none", "pending", "processing", "completed", "failed"}]
    /\ retried \in [Ids -> 0..MaxRetries]
    /\ late \subseteq {t \in Ids : status[t] = "processing"}
    /\ gone \in [Instances -> {"no", "claimed", "unchecked"}]
    /\ claims \subseteq Ids
    /\ step \in [Executors -> Steps]
    /\ task \in [Executors -> Ids \cup {None}]
    /\ \A e \in Executors : task[e] = None <=> step[e] = "idle"
    /\ running \subseteq Ids
    /\ sweep \in [next : {"idle", "filter", "write"}, ids : SUBSET Ids]
    /\ restarts \in 0..MaxRestarts

Resting == [next |-> "idle", ids |-> {}]

Init ==
    /\ job = [t \in Ids |-> None]
    /\ status = [t \in Ids |-> "none"]
    /\ retried = [t \in Ids |-> 0]
    /\ late = {}
    /\ gone = [i \in Instances |-> "no"]
    /\ claims = {}
    /\ step = [e \in Executors |-> "idle"]
    /\ task = [e \in Executors |-> None]
    /\ running = {}
    /\ sweep = Resting
    /\ restarts = 0

-------------------------------------------------------------------------------
(* Users and administrators *)

Kind(t) == job[t].kind
Inst(t) == job[t].inst

QueueOf(kind) ==
    IF kind \in {"restore", "upload"} THEN kind ELSE "instance"

Rows(queue) == {t \in Ids : status[t] # "none" /\ QueueOf(Kind(t)) = queue}

Active(t) == status[t] \in {"pending", "processing"}

\* What the inserting transaction requires: no active row of the same table for
\* the instance; for uploads, for the user.  A creation is queued once, when the
\* instance is bought.  None of them reads the instance's status.
MayInsert(j) ==
    CASE j.kind = "create" ->
             \A t \in Rows("instance") : Inst(t) = j.inst => Kind(t) # "create"
      [] j.kind = "upload" -> \A t \in Rows("upload") : ~Active(t)
      [] OTHER ->
             \A t \in Rows(QueueOf(j.kind)) : Inst(t) = j.inst => ~Active(t)

\* createInstanceTask, createRestoreTask, createBackupUploadTask and the queueing
\* of a purchase: the next row is inserted.
Insert(t, j) ==
    /\ status[t] = "none" /\ \A s \in Ids : s < t => status[s] # "none"
    /\ MayInsert(j)
    /\ job' = [job EXCEPT ![t] = j]
    /\ status' = [status EXCEPT ![t] = "pending"]
    /\ UNCHANGED <<retried, late, gone, claims, execs, running, sweep, restarts>>

\* A pending task is cancelled.
Cancel(t) ==
    /\ status[t] = "pending"
    /\ status' = [status EXCEPT ![t] = "failed"]
    /\ UNCHANGED <<job, retried, late, gone, claims, execs, running, sweep, restarts>>

Busy(i) == \E t \in Ids : Active(t) /\ Inst(t) = i

\* The deletion of an instance by its owner, an administrator or the owner of the
\* host is claimed; no table may have an active task for it.
ClaimDeletion(i) ==
    /\ gone[i] = "no" /\ ~Busy(i)
    /\ gone' = [gone EXCEPT ![i] = "claimed"]
    /\ UNCHANGED <<rows, claims, execs, running, sweep, restarts>>

\* The billing scheduler deletes an instance long expired.  It looks at the
\* instance's row only, not at its tasks.
ExpiryDeletion(i) ==
    /\ gone[i] = "no"
    /\ gone' = [gone EXCEPT ![i] = "unchecked"]
    /\ UNCHANGED <<rows, claims, execs, running, sweep, restarts>>

\* The host refuses: whoever marked the instance deleted puts its status back.
UndoDeletion(i) ==
    /\ gone[i] # "no"
    /\ gone' = [gone EXCEPT ![i] = "no"]
    /\ UNCHANGED <<rows, claims, execs, running, sweep, restarts>>

-------------------------------------------------------------------------------
(* Claiming *)

Processing == {t \in Ids : status[t] = "processing"}

\* A light task tolerates other light ones, every other task nothing at all.
HostFree(t) ==
    IF Kind(t) = "light" THEN \A p \in Processing : Kind(p) = "light"
    ELSE Processing = {}

\* Light tasks are taken in any order, the others oldest first.
Oldest(t) ==
    Kind(t) # "light" =>
        \A s \in Rows(QueueOf(Kind(t))) : status[s] = "pending" => t <= s

HostLockFree == claims = {}

\* A claim transaction takes the host's lock, finds the host free and picks a task.
Pick(t) ==
    /\ HostLockFree
    /\ status[t] = "pending" /\ HostFree(t) /\ Oldest(t)
    /\ claims' = claims \cup {t}
    /\ UNCHANGED <<rows, gone, execs, running, sweep, restarts>>

\* Mutant: the instance is not looked at again under its lock.
Claimable_anyway(t) == TRUE

Claimable(t) == gone[Inst(t)] = "no"

\* Mutant: startedAt is not reset.
Timely_kept(t) == late

\* startedAt is set, reset or no longer looked at: the row is not overdue.
Timely(t) == late \ {t}

Become(e, next) == step' = [step EXCEPT ![e] = next]

\* Executors are interchangeable: any one that is idle will do.
FreshExecutor == CHOOSE e \in Executors : step[e] = "idle"

\* Under the instance's lock the task is marked, by its id alone, and run.
Mark(t) ==
    LET e == FreshExecutor IN
    /\ t \in claims /\ \E x \in Executors : step[x] = "idle"
    /\ Claimable(t)
    /\ status' = [status EXCEPT ![t] = "processing"]
    /\ late' = Timely(t)
    /\ claims' = claims \ {t}
    /\ Become(e, "look")
    /\ task' = [task EXCEPT ![e] = t]
    /\ running' = running \cup {t}
    /\ UNCHANGED <<job, retried, gone, sweep, restarts>>

\* Light tasks are run only when as many as possible have been claimed: if the claim
\* of a later one throws, those marked before it stay PROCESSING and nobody runs them.
Strand(t) ==
    /\ t \in claims /\ Kind(t) = "light"
    /\ Claimable(t)
    /\ status' = [status EXCEPT ![t] = "processing"]
    /\ late' = Timely(t)
    /\ claims' = claims \ {t}
    /\ UNCHANGED <<job, retried, gone, execs, running, sweep, restarts>>

\* The instance is gone or its lock is taken, or the transaction fails.
Unpick(t) ==
    /\ t \in claims
    /\ claims' = claims \ {t}
    /\ UNCHANGED <<rows, gone, execs, running, sweep, restarts>>

-------------------------------------------------------------------------------
(* Running *)

\* Mutant: an earlier task of the instance is not looked for.
IsEarliest_unchecked(t) == TRUE

\* An instance task runs only if no earlier one of its instance is active.
IsEarliest(t) ==
    QueueOf(Kind(t)) = "instance" =>
        \A s \in Rows("instance") : s < t /\ Inst(s) = Inst(t) => ~Active(s)

\* The executor reads what it needs and goes to work.
Look(e) ==
    /\ step[e] = "look"
    /\ gone[Inst(task[e])] = "no" /\ IsEarliest(task[e])
    /\ Become(e, "work")
    /\ UNCHANGED <<rows, gone, claims, task, running, sweep, restarts>>

\* The instance is gone, a task is in the way, or a read or the host fails.
RunFails(e) ==
    /\ step[e] \in {"look", "work"}
    /\ Become(e, "failed")
    /\ UNCHANGED <<rows, gone, claims, task, running, sweep, restarts>>

\* The host has done the work.
Works(e) ==
    /\ step[e] = "work"
    /\ Become(e, "done")
    /\ UNCHANGED <<rows, gone, claims, task, running, sweep, restarts>>

\* The executor is gone; ids are the ids it takes out of the set in memory.
Stop(e, ids) ==
    /\ Become(e, "idle")
    /\ task' = [task EXCEPT ![e] = None]
    /\ running' = running \ ids

\* Restores and uploads read their row before the try block: if that read fails,
\* the id stays behind.
LookThrows(e) ==
    /\ step[e] = "look" /\ QueueOf(Kind(task[e])) # "instance"
    /\ Stop(e, {})
    /\ UNCHANGED <<rows, gone, claims, sweep, restarts>>

\* The last update of a row, if it still is PROCESSING.
Conclude(t, new) ==
    /\ status' = [status EXCEPT ![t] = IF @ = "processing" THEN new ELSE @]
    /\ late' = Timely(t)

\* The row is completed.
Complete(e) ==
    /\ step[e] = "done"
    /\ Conclude(task[e], "completed")
    /\ Stop(e, {task[e]})
    /\ UNCHANGED <<job, retried, gone, claims, sweep, restarts>>

\* The update fails, which lands in the catch block like every other error.
CompleteThrows(e) ==
    /\ step[e] = "done"
    /\ Become(e, "failed")
    /\ UNCHANGED <<rows, gone, claims, task, running, sweep, restarts>>

\* The catch block fails the row.
Fail(e) ==
    /\ step[e] = "failed"
    /\ Conclude(task[e], "failed")
    /\ Stop(e, {task[e]})
    /\ UNCHANGED <<job, retried, gone, claims, sweep, restarts>>

\* The catch block cannot reach the database either.
FailThrows(e) ==
    /\ step[e] = "failed"
    /\ Stop(e, {task[e]})
    /\ UNCHANGED <<rows, gone, claims, sweep, restarts>>

\* After an error that may pass, a creation or an upload goes back to its queue.
\* The executor of an upload still writes a log entry before it is done.
Requeue(e) ==
    LET t == task[e] IN
    /\ step[e] = "failed"
    /\ Kind(t) \in {"create", "upload"} /\ retried[t] < MaxRetries
    /\ status[t] = "processing"
    /\ status' = [status EXCEPT ![t] = "pending"]
    /\ late' = Timely(t)
    /\ retried' = [retried EXCEPT ![t] = @ + 1]
    /\ IF Kind(t) = "create" THEN Stop(e, {t})
       ELSE Become(e, "log") /\ UNCHANGED <<task, running>>
    /\ UNCHANGED <<job, gone, claims, sweep, restarts>>

\* The log entry is written or refused; the id leaves the set either way.
Logged(e) ==
    /\ step[e] = "log"
    /\ Stop(e, {task[e]})
    /\ UNCHANGED <<rows, gone, claims, sweep, restarts>>

-------------------------------------------------------------------------------
(* Time and restarts *)

\* The timeout of a row passes.
Age(t) ==
    /\ status[t] = "processing" /\ t \notin late
    /\ late' = late \cup {t}
    /\ UNCHANGED <<job, status, retried, gone, claims, execs, running, sweep, restarts>>

\* Mutant: the comparison with the threshold is the wrong way round.
Overdue_young == Processing \ late

Overdue == late

\* A sweep of one queue asks for its overdue rows.  The sweeps of the other
\* queues read and write other rows, so one at a time is enough.
SweepRead(queue) ==
    /\ sweep.next = "idle"
    /\ Overdue \cap Rows(queue) # {}
    /\ sweep' = [next |-> "filter", ids |-> Overdue \cap Rows(queue)]
    /\ UNCHANGED <<rows, gone, claims, execs, running, restarts>>

\* Mutant: the sweep does not leave out the tasks that are running.
NotRunning_all(ids) == ids

NotRunning(ids) == ids \ running

\* The answer arrives and the running tasks are left out.
SweepFilter ==
    /\ sweep.next = "filter"
    /\ sweep' = IF NotRunning(sweep.ids) = {} THEN Resting
                ELSE [next |-> "write", ids |-> NotRunning(sweep.ids)]
    /\ UNCHANGED <<rows, gone, claims, execs, running, restarts>>

\* The others are failed, those that still are PROCESSING.
SweepWrite ==
    /\ sweep.next = "write"
    /\ status' = [t \in Ids |-> IF t \in sweep.ids /\ status[t] = "processing"
                                THEN "failed" ELSE status[t]]
    /\ late' = late \ sweep.ids
    /\ sweep' = Resting
    /\ UNCHANGED <<job, retried, gone, claims, execs, running, restarts>>

\* The process dies; on the way up it fails the rows that are overdue by then.
Restart ==
    /\ restarts < MaxRestarts
    /\ restarts' = restarts + 1
    /\ status' = [t \in Ids |-> IF t \in late THEN "failed" ELSE status[t]]
    /\ late' = {}
    /\ claims' = {}
    /\ step' = [e \in Executors |-> "idle"]
    /\ task' = [e \in Executors |-> None]
    /\ running' = {}
    /\ sweep' = Resting
    /\ UNCHANGED <<job, retried, gone>>

Execute(e) ==
    \/ Look(e) \/ RunFails(e) \/ LookThrows(e) \/ Works(e)
    \/ Complete(e) \/ CompleteThrows(e)
    \/ Fail(e) \/ FailThrows(e) \/ Requeue(e) \/ Logged(e)

Sweep == SweepFilter \/ SweepWrite

Next ==
    \/ \E t \in Ids, j \in Jobs : Insert(t, j)
    \/ \E t \in Ids : Cancel(t) \/ Age(t)
    \/ \E t \in Ids : Pick(t) \/ Mark(t) \/ Strand(t) \/ Unpick(t)
    \/ \E i \in Instances : ClaimDeletion(i) \/ ExpiryDeletion(i) \/ UndoDeletion(i)
    \/ \E e \in Executors : Execute(e)
    \/ \E queue \in Queues : SweepRead(queue)
    \/ Sweep
    \/ Restart

Spec == Init /\ [][Next]_vars

\* Executors go on, time passes, and the timers of the sweeps fire.
FairSpec ==
    /\ Spec
    /\ \A e \in Executors : WF_vars(Execute(e))
    /\ \A t \in Ids : WF_vars(Age(t))
    /\ \A queue \in Queues : SF_vars(SweepRead(queue))
    /\ WF_vars(Sweep)

-------------------------------------------------------------------------------
(* Properties *)

\* Working on a task that was never put back into its queue.
FirstRun(e) == step[e] \in {"look", "work", "done", "failed"} /\ retried[task[e]] = 0

\* Whatever the three workers claim at the same time, a task other than a light
\* one is alone among the PROCESSING rows of its host.
RowsExclusive ==
    \A t \in Processing : Kind(t) # "light" => Processing = {t}

\* The row of a task being run for the first time stays PROCESSING and its id in
\* memory until the executor has finished: neither a cancellation nor a sweep,
\* which read both before they write, lets another task in.  (A later run is not
\* protected: the executor of the first run may take the id out of the set.)
WorkIsCovered ==
    \A e \in Executors :
        FirstRun(e) => status[task[e]] = "processing" /\ task[e] \in running

\* Two first runs work at once only if both are light, and never on one instance,
\* even when a cancelled task was claimed all the same and a new one queued.
WorkAlone ==
    \A e, f \in Executors :
        /\ e # f
        /\ FirstRun(e) /\ step[e] = "work"
        /\ FirstRun(f) /\ step[f] = "work"
        => /\ Kind(task[e]) = "light" /\ Kind(task[f]) = "light"
           /\ Inst(task[e]) # Inst(task[f])

\* A deletion that claims the instance never overtakes a first run on it, nor does
\* such a run begin afterwards.
WorkOnLiveInstance ==
    \A e \in Executors : FirstRun(e) => gone[Inst(task[e])] # "claimed"

\* An id that no executor will take out of the set any more.
Leaked(t) == t \in running /\ \A e \in Executors : task[e] # t

\* No row stays PROCESSING, with failing database calls, retries and a restart,
\* unless its id was left behind in memory.
ProcessingEnds == \A t \in Ids : []<>(status[t] # "processing" \/ Leaked(t))

\* "Tasks PROCESSING for longer than the timeout are marked FAILED", without
\* exception.  LookThrows refutes it: the id left behind hides the row from every
\* sweep until the next restart, and the row keeps the host for itself.
OverdueEnds == \A t \in Ids : []<>(status[t] # "processing")
===============================================================================
