---------------------------- MODULE Provisioning ----------------------------
(***************************************************************************)
(* One paid instance from its purchase to its delivery, or to the refund   *)
(* that takes its place.  The request charges the customer and reserves    *)
(* the host in one transaction; everything after it runs without one: the  *)
(* preparation, the creation on the host or, while the node is away, a     *)
(* task that creates it later.  Whoever finds that it failed moves the row *)
(* from creating to error, and only the one whose update changes the row   *)
(* gives the reservation and the money back.  A sweep does the same for    *)
(* rows that are older than 30 minutes and that nobody works on.           *)
(*                                                                         *)
(* Each step is one transaction or one call to the host.  The amount, the  *)
(* addresses and the configuration are not state; "running" stands for     *)
(* every status of a delivered instance.                                   *)
(***************************************************************************)
EXTENDS Naturals

CONSTANTS
    MaxRetries,   \* CREATE_TASK_MAX_RETRIES
    MaxCrashes    \* bound: deaths of the server

ASSUME ProvisioningAssumption == MaxRetries \in Nat /\ MaxCrashes \in Nat

VARIABLES
    row,             \* the status of the instances row; "none" before the purchase
    container,       \* on the host: "none", "there", or "left" when the host refused to
                     \* delete it, the server died before it did or it appeared too late
    pending,         \* creators that have stopped waiting while the host still creates
    delivered,       \* history: the row was moved from creating to running
    compensations,   \* refunds because the creation failed
    releases,        \* reservations given back because the creation failed
    refunds,         \* refunds because the owner destroyed the instance
    task,            \* status of the create task
    retries,         \* its retryCount
    old,             \* the row is older than CREATE_TIMEOUT_MS
    step,            \* what each process does next
    saw,             \* the status of the row a process read
    flag,            \* a creator: a container may be there; the owner: a refund is
                     \* quoted; the synchronisation: the container was found
    tracked,         \* creators in the table of active operation tasks
    crashes

account == <<compensations, releases, refunds>>
queue == <<task, retries>>
host == <<container, pending>>
vars == <<row, host, delivered, account, queue, old, step, saw, flag, tracked, crashes>>

Creators == {"request", "worker"}
Procs == Creators \cup {"sweeper", "owner", "sync"}
Containers == {"none", "there", "left"}
Statuses == {"none", "creating", "running", "error", "deleted"}
TaskStatuses == {"none", "PENDING", "PROCESSING", "COMPLETED", "FAILED"}
Steps == {"idle", "prepare", "dispatch", "begin", "create", "deliver", "discard", "after",
          "gate", "rollback", "refund", "cleanup", "done", "failed", "check", "claim",
          "delete", "undo", "settle", "look", "apply"}

TypeOK ==
    /\ row \in Statuses
    /\ container \in Containers /\ pending \in SUBSET Creators
    /\ delivered \in BOOLEAN
    /\ compensations \in Nat /\ releases \in Nat /\ refunds \in Nat
    /\ task \in TaskStatuses
    /\ retries \in 0..MaxRetries
    /\ old \in BOOLEAN
    /\ step \in [Procs -> Steps]
    /\ saw \in [Procs -> Statuses]
    /\ flag \in [Procs -> BOOLEAN]
    /\ tracked \in SUBSET Creators
    /\ crashes \in 0..MaxCrashes

Init ==
    /\ row = "none"
    /\ container = "none" /\ pending = {}
    /\ delivered = FALSE
    /\ compensations = 0 /\ releases = 0 /\ refunds = 0
    /\ task = "none" /\ retries = 0
    /\ old = FALSE
    /\ step = [p \in Procs |-> "idle"]
    /\ saw = [p \in Procs |-> "none"]
    /\ flag = [p \in Procs |-> FALSE]
    /\ tracked = {}
    /\ crashes = 0

At(p, s) == step[p] = s
Goto(p, s) == step' = [step EXCEPT ![p] = s]
TaskActive == task \in {"PENDING", "PROCESSING"}

-------------------------------------------------------------------------------
(* The request *)

\* The transaction of POST /instances: the reservation of the host, the row, the
\* charge and the billing record, or nothing.
Purchase ==
    /\ row = "none" /\ At("request", "idle")
    /\ row' = "creating"
    /\ Goto("request", "prepare")
    /\ UNCHANGED <<host, delivered, account, queue, old, saw, flag, tracked, crashes>>

\* Addresses and storage pool are chosen, or the creation has failed already.
Prepare ==
    /\ At("request", "prepare")
    /\ \/ Goto("request", "dispatch")
       \/ Goto("request", "gate")
    /\ UNCHANGED <<row, host, delivered, account, queue, old, saw, flag, tracked,
                   crashes>>

\* createInstanceAsync enters the table of active operations, unless the row of the
\* operation task cannot be written.
StartCreation(p) ==
    /\ Goto(p, "create")
    /\ flag' = [flag EXCEPT ![p] = TRUE]
    /\ tracked' \in {tracked, tracked \cup {p}}

\* With the node away the creation is queued; if that fails it is tried at once.
Dispatch ==
    /\ At("request", "dispatch")
    /\ \/ StartCreation("request") /\ UNCHANGED task
       \/ /\ task' = "PENDING"
          /\ Goto("request", "idle")
          /\ UNCHANGED <<flag, tracked>>
    /\ UNCHANGED <<row, host, delivered, account, retries, old, saw, crashes>>

-------------------------------------------------------------------------------
(* The worker of the queue *)

ClaimTask ==
    /\ At("worker", "idle")
    /\ task = "PENDING" /\ row # "deleted"
    /\ task' = "PROCESSING"
    /\ Goto("worker", "begin")
    /\ UNCHANGED <<row, host, delivered, account, retries, old, saw, flag, tracked,
                   crashes>>

\* The node is still away, or the creation starts.
BeginTask ==
    /\ At("worker", "begin")
    /\ \/ row # "deleted" /\ StartCreation("worker")
       \/ Goto("worker", "failed") /\ UNCHANGED <<flag, tracked>>
    /\ UNCHANGED <<row, host, delivered, account, queue, old, saw, crashes>>

CompleteTask ==
    /\ At("worker", "done")
    /\ task' = IF task = "PROCESSING" THEN "COMPLETED" ELSE task
    /\ Goto("worker", "idle")
    /\ UNCHANGED <<row, host, delivered, account, retries, old, saw, flag, tracked,
                   crashes>>

\* Mutant: a task is retried without end.
Retryable_always == TRUE

\* An error that looks like the node's puts the task back.
Retryable == retries < MaxRetries

FailTask ==
    /\ At("worker", "failed")
    /\ Goto("worker", "idle")
    /\ \/ /\ task = "PROCESSING" /\ Retryable
          /\ task' = "PENDING"
          /\ retries' = retries + 1
       \/ /\ task' = IF task = "PROCESSING" THEN "FAILED" ELSE task
          /\ UNCHANGED retries
    /\ UNCHANGED <<row, host, delivered, account, old, saw, flag, tracked, crashes>>

\* A task of a dead process is failed when it is overdue.
SweepTask ==
    /\ task = "PROCESSING" /\ At("worker", "idle")
    /\ task' = "FAILED"
    /\ UNCHANGED <<row, host, delivered, account, retries, old, step, saw, flag,
                   tracked, crashes>>

-------------------------------------------------------------------------------
(* createInstanceAsync *)

\* It returns, or throws, to the worker or to nobody.
End(p, outcome) ==
    /\ Goto(p, IF p = "worker" THEN outcome ELSE "idle")
    /\ flag' = [flag EXCEPT ![p] = FALSE]
    /\ tracked' = tracked \ {p}

\* A name can be created once.  A creation that failed may have left its container,
\* and one whose answer did not come in time, or was lost, goes on: nobody cancels it.
CreateOnHost(p) ==
    /\ At(p, "create")
    /\ \/ container = "none" /\ container' = "there"
          /\ Goto(p, "deliver") /\ UNCHANGED pending
       \/ container' \in {container, IF container = "none" THEN "there" ELSE container}
          /\ Goto(p, "gate") /\ UNCHANGED pending
       \/ pending' = pending \cup {p}
          /\ Goto(p, "gate") /\ UNCHANGED container
    /\ UNCHANGED <<row, delivered, account, queue, old, saw, flag, tracked, crashes>>

\* Only a row that is still being created becomes a running instance.
Deliver(p) ==
    /\ At(p, "deliver")
    /\ IF row = "creating"
       THEN row' = "running" /\ delivered' = TRUE /\ Goto(p, "after")
       ELSE Goto(p, "discard") /\ UNCHANGED <<row, delivered>>
    /\ UNCHANGED <<host, account, queue, old, saw, flag, tracked, crashes>>

\* q deletes what is on the host before it ends.
CleansUp(q) ==
    \/ step[q] \in {"create", "deliver", "discard", "cleanup"}
    \/ step[q] \in {"gate", "rollback", "refund"} /\ flag[q]
    \/ step[q] \in {"rollback", "refund"} /\ q = "sweeper"

\* The creation nobody waited for is done.  Its container is left when nobody is going
\* to delete it and the sweep will not look for it either.
Appear(p) ==
    /\ p \in pending
    /\ container = "none"
    /\ pending' = pending \ {p}
    /\ container' = IF row = "creating" \/ \E q \in Procs : CleansUp(q) THEN "there" ELSE "left"
    /\ UNCHANGED <<row, delivered, account, queue, old, step, saw, flag, tracked, crashes>>

\* Mutant: what was created too late stays on the host.
Discarded_kept == UNCHANGED container

\* A deletion on the host; its error is logged and no more.
Discarded == container' \in {"none", IF container = "none" THEN "none" ELSE "left"}

Discard(p) ==
    /\ At(p, "discard")
    /\ Discarded
    /\ End(p, "done")
    /\ UNCHANGED <<row, pending, delivered, account, queue, old, saw, crashes>>

\* Reading the instance for the notification is inside the same try block.
After(p) ==
    /\ At(p, "after")
    /\ \/ End(p, "done")
       \/ Goto(p, "gate") /\ UNCHANGED <<flag, tracked>>
    /\ UNCHANGED <<row, host, delivered, account, queue, old, saw, crashes>>

-------------------------------------------------------------------------------
(* Compensation: by a creator whose creation failed, or by the sweep *)

\* Mutant: the status is not compared.
GateOpen_deliveredToo == row \in {"creating", "running"}

GateOpen == row = "creating"

\* What follows the compensation: a creator that failed before it used the host has
\* nothing to clean up there.
CleanupOrEnd(p) ==
    IF p = "sweeper" \/ flag[p]
    THEN Goto(p, "cleanup") /\ UNCHANGED <<flag, tracked>>
    ELSE End(p, "failed")

\* creating -> error, the gate of every compensation.
Gate(p) ==
    /\ At(p, "gate")
    /\ IF GateOpen
       THEN row' = "error" /\ Goto(p, "rollback") /\ UNCHANGED <<flag, tracked>>
       ELSE /\ UNCHANGED row
            /\ IF p = "sweeper" THEN Goto(p, "idle") /\ UNCHANGED <<flag, tracked>>
               ELSE CleanupOrEnd(p)
    /\ UNCHANGED <<host, delivered, account, queue, old, saw, crashes>>

\* The database fails: the row stays as it is.
GateFails(p) ==
    /\ At(p, "gate")
    /\ IF p = "sweeper" THEN Goto(p, "idle") /\ UNCHANGED <<flag, tracked>>
       ELSE CleanupOrEnd(p)
    /\ UNCHANGED <<row, host, delivered, account, queue, old, saw, crashes>>

\* rollbackResources and the release of the address; an error is logged.
Rollback(p) ==
    /\ At(p, "rollback")
    /\ releases' \in {releases, releases + 1}
    /\ Goto(p, "refund")
    /\ UNCHANGED <<row, host, delivered, compensations, refunds, queue, old, saw, flag,
                   tracked, crashes>>

\* compensateFailedInstancePurchase looks for its own refund and for no other; an
\* error is logged.
Refund(p) ==
    /\ At(p, "refund")
    /\ compensations' \in {compensations, IF compensations = 0 THEN 1 ELSE compensations}
    /\ CleanupOrEnd(p)
    /\ UNCHANGED <<row, host, delivered, releases, refunds, queue, old, saw, crashes>>

\* A creator deletes in any case, also when somebody else has the row by now.
Cleanup(p) ==
    /\ At(p, "cleanup")
    /\ Discarded
    /\ IF p = "sweeper" THEN Goto(p, "idle") /\ UNCHANGED <<flag, tracked>>
       ELSE End(p, "failed")
    /\ UNCHANGED <<row, pending, delivered, account, queue, old, saw, crashes>>

-------------------------------------------------------------------------------
(* The sweep of runCreateTimeoutCleanup *)

Age ==
    /\ row # "none" /\ ~old
    /\ old' = TRUE
    /\ UNCHANGED <<row, host, delivered, account, queue, step, saw, flag, tracked,
                   crashes>>

ListStuck ==
    /\ At("sweeper", "idle")
    /\ row = "creating" /\ old
    /\ Goto("sweeper", "check")
    /\ UNCHANGED <<row, host, delivered, account, queue, old, saw, flag, tracked,
                   crashes>>

\* Mutant: a queued creation counts as an active operation.
HasActive_everMore == tracked # {} \/ task # "none"

\* hasActiveOperationTask: of this process, by host and name.
HasActive == tracked # {} \/ At("owner", "delete")

CheckActive ==
    /\ At("sweeper", "check")
    /\ Goto("sweeper", IF HasActive THEN "idle" ELSE "gate")
    /\ UNCHANGED <<row, host, delivered, account, queue, old, saw, flag, tracked,
                   crashes>>

-------------------------------------------------------------------------------
(* The owner destroys an instance, or somebody deletes it on its page *)

Quoted == compensations + refunds = 0

\* The owner's request refuses an instance that is still being created, the page of
\* the instance does not.
Destroyable == {"creating", "running", "error"}

StartDestroy ==
    /\ At("owner", "idle")
    /\ row \in Destroyable /\ ~TaskActive
    /\ saw' = [saw EXCEPT !["owner"] = row]
    /\ flag' = [flag EXCEPT !["owner"] = Quoted]
    /\ Goto("owner", "claim")
    /\ UNCHANGED <<row, host, delivered, account, queue, old, tracked, crashes>>

ClaimDestroy ==
    /\ At("owner", "claim")
    /\ IF row = saw["owner"] /\ ~TaskActive
       THEN row' = "deleted" /\ Goto("owner", "delete")
       ELSE Goto("owner", "idle") /\ UNCHANGED row
    /\ UNCHANGED <<host, delivered, account, queue, old, saw, flag, tracked, crashes>>

DeleteOnHost ==
    /\ At("owner", "delete")
    /\ \/ container' = "none" /\ Goto("owner", "settle")
       \/ Goto("owner", "undo") /\ UNCHANGED container
    /\ UNCHANGED <<row, pending, delivered, account, queue, old, saw, flag, tracked, crashes>>

UndoDestroy ==
    /\ At("owner", "undo")
    /\ row' = IF row = "deleted" THEN saw["owner"] ELSE row
    /\ Goto("owner", "idle")
    /\ UNCHANGED <<host, delivered, account, queue, old, saw, flag, tracked, crashes>>

\* settleUserDestroyBilling pays what was quoted before the claim; the page quotes
\* after the deletion.
Settle ==
    /\ At("owner", "settle")
    /\ \E quoted \in {flag["owner"], Quoted} :
           /\ saw["owner"] = "creating" => quoted = Quoted
           /\ refunds' = refunds + (IF quoted THEN 1 ELSE 0)
    /\ Goto("owner", "idle")
    /\ UNCHANGED <<row, host, delivered, compensations, releases, queue, old, saw,
                   flag, tracked, crashes>>

-------------------------------------------------------------------------------
(* The status synchronisation takes up instances in error as well *)

StartSync ==
    /\ At("sync", "idle")
    /\ row \in {"running", "error"}
    /\ saw' = [saw EXCEPT !["sync"] = row]
    /\ Goto("sync", "look")
    /\ UNCHANGED <<row, host, delivered, account, queue, old, flag, tracked, crashes>>

Look ==
    /\ At("sync", "look")
    /\ IF TaskActive THEN Goto("sync", "idle") /\ UNCHANGED flag
       ELSE Goto("sync", "apply") /\ flag' = [flag EXCEPT !["sync"] = (container # "none")]
    /\ UNCHANGED <<row, host, delivered, account, queue, old, saw, tracked, crashes>>

\* A status is written over the status read; a container that is not found makes an
\* instance deleted, but not one in error.
Apply ==
    /\ At("sync", "apply")
    /\ row' = IF flag["sync"] THEN IF row = saw["sync"] THEN "running" ELSE row
              ELSE IF saw["sync"] = "error" THEN row ELSE "deleted"
    /\ Goto("sync", "idle")
    /\ UNCHANGED <<host, delivered, account, queue, old, saw, flag, tracked, crashes>>

-------------------------------------------------------------------------------
\* Every process ends; what it asked of the host goes on there.
Crash ==
    /\ crashes < MaxCrashes
    /\ \E p \in Procs : ~At(p, "idle")
    /\ crashes' = crashes + 1
    /\ pending' = pending \cup {p \in Creators : At(p, "create")}
    /\ container' = IF container = "there" /\ row \in {"error", "deleted"} THEN "left" ELSE container
    /\ step' = [p \in Procs |-> "idle"]
    /\ flag' = [p \in Procs |-> FALSE]
    /\ tracked' = {}
    /\ UNCHANGED <<row, delivered, account, queue, old, saw>>

Create(p) == CreateOnHost(p) \/ Deliver(p) \/ Discard(p) \/ After(p)
Compensate(p) == Gate(p) \/ GateFails(p) \/ Rollback(p) \/ Refund(p) \/ Cleanup(p)

Next ==
    \/ Purchase \/ Prepare \/ Dispatch
    \/ ClaimTask \/ BeginTask \/ CompleteTask \/ FailTask \/ SweepTask
    \/ \E p \in Creators : Create(p) \/ Appear(p)
    \/ \E p \in Creators \cup {"sweeper"} : Compensate(p)
    \/ Age \/ ListStuck \/ CheckActive
    \/ StartDestroy \/ ClaimDestroy \/ DeleteOnHost \/ UndoDestroy \/ Settle
    \/ StartSync \/ Look \/ Apply
    \/ Crash

Spec == Init /\ [][Next]_vars

\* Every call to the host returns or times out, time passes, the timers fire and
\* the database does not fail every time.
Fairness ==
    /\ WF_vars(Prepare) /\ WF_vars(Dispatch)
    /\ \A p \in Creators : WF_vars(Create(p))
    /\ \A p \in Creators \cup {"sweeper"} : WF_vars(Compensate(p)) /\ SF_vars(Gate(p))
    /\ WF_vars(BeginTask) /\ WF_vars(CompleteTask) /\ WF_vars(FailTask)
    /\ WF_vars(Age) /\ WF_vars(ListStuck) /\ WF_vars(CheckActive)

FairSpec == Spec /\ Fairness

-------------------------------------------------------------------------------
(* Properties *)

\* A failed creation is refunded and released at most once, and a delivered one not at
\* all: however the creation, its retries, the sweep, crashes and a deletion that is
\* undone meet, one of them at most passes the gate.  (What a deletion refunds is not
\* counted here.)
DeliverOrCompensate ==
    /\ compensations <= 1 /\ releases <= 1
    /\ delivered => compensations = 0 /\ releases = 0

\* No process is at work on the instance.
Quiet == \A p \in Procs : At(p, "idle")

\* A failed creation leaves no container behind, also when the sweep gave up on it, or
\* its answer did not come in time, and it succeeded later.  Exactly three containers
\* stay: one the host refused to delete, one a process died over, and one that appeared
\* when its creator had cleaned up in vain and gone and the row was no longer creating.
NoOrphan == Quiet /\ row \in {"error", "deleted"} => container # "there"

\* A customer who has paid is not left with an instance that is being created.
CreatingEnds == row = "creating" ~> row # "creating"
=============================================================================
