------------------------- MODULE Provisioning_proofs -------------------------
(***************************************************************************)
(* For any number of retries of the create task and of deaths of the       *)
(* server: a failed creation is given back at most once, a delivered one   *)
(* never, and no container is left behind but those nobody could delete.   *)
(***************************************************************************)
EXTENDS TLAPS, Provisioning

\* The one that passed the gate has not paid back yet.
Refunding(p) == step[p] \in {"rollback", "refund"}

\* The row is still to be created, or will be again when a deletion is undone.
Unopened ==
    \/ row \in {"none", "creating"}
    \/ step["owner"] \in {"delete", "undo"} /\ saw["owner"] = "creating"

\* Such a row has been given to nobody.
Open ==
    Unopened =>
        /\ ~delivered /\ compensations = 0 /\ releases = 0
        /\ \A p \in Procs : ~Refunding(p)

\* Nobody is at work on the refund of a delivered instance.
Closed == delivered => \A p \in Procs : ~Refunding(p)

\* One process at most is between the gate and the refund, and the reservation has
\* not been given back before it does that.
OneRefunds ==
    /\ \A p, q \in Procs : Refunding(p) /\ Refunding(q) => p = q
    /\ \A p \in Procs : At(p, "rollback") => releases = 0

\* The synchronisation acts on rows that are past their creation and remembers no other
\* status; a row that a deletion claimed stays deleted until it is through or undone.
ActsLate ==
    /\ ~At("sync", "idle") => saw["sync"] \in {"running", "error"} /\ ~Unopened
    /\ ~At("owner", "idle") => saw["owner"] \in Destroyable /\ row # "none"
    /\ step["owner"] \in {"delete", "undo"} => row = "deleted"

GateInv == Open /\ Closed /\ OneRefunds /\ ActsLate /\ DeliverOrCompensate

IInv == TypeOK /\ GateInv

-------------------------------------------------------------------------------
(* Types *)

\* Nothing was bought yet.
LEMMA InitInv == Init => IInv
<1> SUFFICES ASSUME Init PROVE IInv
  OBVIOUS
<1>1. TypeOK
  <2>1. retries \in 0..MaxRetries /\ crashes \in 0..MaxCrashes
    BY ProvisioningAssumption DEF Init
  <2>2. /\ step \in [Procs -> Steps] /\ flag \in [Procs -> BOOLEAN]
        /\ saw \in [Procs -> Statuses]
    BY DEF Init, Steps, Statuses
  <2>3. /\ row \in Statuses /\ task \in TaskStatuses /\ tracked \in SUBSET Creators
        /\ container \in Containers /\ pending \in SUBSET Creators
    BY DEF Init, Statuses, TaskStatuses, Containers
  <2>4. QED
    BY <2>1, <2>2, <2>3 DEF Init, TypeOK
<1>2. GateInv
  BY DEF Init, GateInv, Open, Unopened, Closed, OneRefunds, ActsLate, DeliverOrCompensate, Refunding,
     At, Procs, Creators
<1>3. QED
  BY <1>1, <1>2 DEF IInv

\* The end of a creation, and what is left to do after a compensation.
LEMMA EndType ==
  ASSUME TypeOK, NEW p \in Creators \cup {"sweeper"},
         \/ p \in Creators /\ \E outcome \in {"done", "failed"} : End(p, outcome)
         \/ CleanupOrEnd(p)
         \/ \E s \in Steps : Goto(p, s) /\ UNCHANGED <<flag, tracked>>
  PROVE  /\ step' \in [Procs -> Steps]
         /\ flag' \in [Procs -> BOOLEAN]
         /\ tracked' \in SUBSET Creators
<1>1. /\ p \in Procs /\ step \in [Procs -> Steps] /\ flag \in [Procs -> BOOLEAN]
      /\ tracked \in SUBSET Creators
  BY DEF TypeOK, Procs
<1>2. ASSUME NEW s \in Steps, Goto(p, s) PROVE step' \in [Procs -> Steps]
  BY <1>1, <1>2 DEF Goto
<1>3. {"idle", "done", "failed", "cleanup"} \subseteq Steps
  BY DEF Steps
<1>4. ASSUME NEW outcome \in {"done", "failed"}, End(p, outcome)
      PROVE  /\ step' \in [Procs -> Steps] /\ flag' \in [Procs -> BOOLEAN]
             /\ tracked' \in SUBSET Creators
  BY <1>1, <1>2, <1>3, <1>4 DEF End
<1>5. CASE CleanupOrEnd(p)
  BY <1>1, <1>2, <1>3, <1>4, <1>5 DEF CleanupOrEnd
<1>6. QED
  BY <1>1, <1>2, <1>4, <1>5

\* The request and the worker of the queue.
LEMMA TaskTypes ==
  ASSUME TypeOK,
         \/ Purchase \/ Prepare \/ Dispatch
         \/ ClaimTask \/ BeginTask \/ CompleteTask \/ FailTask \/ SweepTask
  PROVE  TypeOK'
<1> USE ProvisioningAssumption DEF TypeOK, Goto, account, queue, host, Statuses, TaskStatuses
<1>1. CASE Purchase
  BY <1>1 DEF Purchase, Procs, Creators, Steps
<1>2. CASE Prepare
  BY <1>2 DEF Prepare, Procs, Creators, Steps
<1>3. CASE Dispatch
  BY <1>3 DEF Dispatch, StartCreation, Procs, Creators, Steps
<1>4. CASE ClaimTask
  BY <1>4 DEF ClaimTask, Procs, Creators, Steps
<1>5. CASE BeginTask
  BY <1>5 DEF BeginTask, StartCreation, Procs, Creators, Steps
<1>6. CASE CompleteTask
  BY <1>6 DEF CompleteTask, Procs, Creators, Steps
<1>7. CASE FailTask
  BY <1>7 DEF FailTask, Retryable, Procs, Creators, Steps
<1>8. CASE SweepTask
  BY <1>8 DEF SweepTask
<1>9. QED
  BY <1>1, <1>2, <1>3, <1>4, <1>5, <1>6, <1>7, <1>8

\* A creation.
LEMMA CreateTypes ==
  ASSUME TypeOK, NEW p \in Creators, Create(p)
  PROVE  TypeOK'
<1>1. p \in Creators \cup {"sweeper"} /\ p \in Procs
  BY DEF Procs
<1>2. CASE CreateOnHost(p)
  BY <1>1, <1>2 DEF CreateOnHost, TypeOK, Goto, account, queue, Steps, Containers
<1>3. CASE Deliver(p)
  BY <1>1, <1>3 DEF Deliver, TypeOK, Goto, account, queue, host, Steps, Statuses
<1>4. CASE Discard(p)
  <2>1. step' \in [Procs -> Steps] /\ flag' \in [Procs -> BOOLEAN] /\ tracked' \in SUBSET Creators
    BY <1>1, <1>4, EndType DEF Discard
  <2>2. QED
    BY <1>4, <2>1 DEF Discard, Discarded, TypeOK, account, queue, Containers
<1>5. CASE After(p)
  <2>1. step' \in [Procs -> Steps] /\ flag' \in [Procs -> BOOLEAN] /\ tracked' \in SUBSET Creators
    BY <1>1, <1>5, EndType DEF After, Steps
  <2>2. QED
    BY <1>5, <2>1 DEF After, TypeOK, account, queue, host
<1>6. QED
  BY <1>2, <1>3, <1>4, <1>5 DEF Create

\* A compensation.
LEMMA CompensateTypes ==
  ASSUME TypeOK, NEW p \in Creators \cup {"sweeper"}, Compensate(p)
  PROVE  TypeOK'
<1>1. step' \in [Procs -> Steps] /\ flag' \in [Procs -> BOOLEAN] /\ tracked' \in SUBSET Creators
  <2>1. p \in Creators \/ p = "sweeper"
    OBVIOUS
  <2>2. {"idle", "rollback", "refund", "cleanup"} \subseteq Steps
    BY DEF Steps
  <2>3. QED
    BY <2>1, <2>2, EndType DEF Compensate, Gate, GateFails, Rollback, Refund, Cleanup
<1>2. CASE Gate(p)
  BY <1>1, <1>2 DEF Gate, TypeOK, account, queue, host, Statuses
<1>3. CASE GateFails(p)
  BY <1>1, <1>3 DEF GateFails, TypeOK, account, queue, host
<1>4. CASE Rollback(p)
  BY <1>1, <1>4 DEF Rollback, TypeOK, queue, host
<1>5. CASE Refund(p)
  BY <1>1, <1>5 DEF Refund, TypeOK, queue, host
<1>6. CASE Cleanup(p)
  BY <1>1, <1>6 DEF Cleanup, Discarded, TypeOK, account, queue, Containers
<1>7. QED
  BY <1>2, <1>3, <1>4, <1>5, <1>6 DEF Compensate

\* A late answer, the sweep's list, the owner, the synchronisation and the death of the
\* server.
LEMMA OtherTypes ==
  ASSUME TypeOK,
         \/ \E p \in Creators : Appear(p)
         \/ Age \/ ListStuck \/ CheckActive
         \/ StartDestroy \/ ClaimDestroy \/ DeleteOnHost \/ UndoDestroy \/ Settle
         \/ StartSync \/ Look \/ Apply
         \/ Crash
  PROVE  TypeOK'
<1>1. {"sweeper", "owner", "sync"} \subseteq Procs
  BY DEF Procs
<1>2. {"idle", "check", "gate", "claim", "delete", "undo", "settle", "look", "apply"} \subseteq Steps
  BY DEF Steps
<1>3. CASE Age \/ ListStuck \/ CheckActive
  BY <1>1, <1>2, <1>3 DEF Age, ListStuck, CheckActive, TypeOK, Goto, account, queue, host
<1>4. CASE StartDestroy
  BY <1>1, <1>2, <1>4 DEF StartDestroy, Quoted, TypeOK, Goto, account, queue, host
<1>5. CASE ClaimDestroy
  BY <1>1, <1>2, <1>5 DEF ClaimDestroy, TypeOK, Goto, account, queue, host, Statuses
<1>6. CASE DeleteOnHost
  BY <1>1, <1>2, <1>6 DEF DeleteOnHost, TypeOK, Goto, account, queue, Containers
<1>7. CASE UndoDestroy
  BY <1>1, <1>2, <1>7 DEF UndoDestroy, TypeOK, Goto, account, queue, host
<1>8. CASE Settle
  BY <1>1, <1>2, <1>8 DEF Settle, TypeOK, Goto, queue, host
<1>9. CASE StartSync \/ Look
  BY <1>1, <1>2, <1>9 DEF StartSync, Look, TypeOK, Goto, account, queue, host
<1>10. CASE Apply
  BY <1>1, <1>2, <1>10 DEF Apply, TypeOK, Goto, account, queue, host, Statuses
<1>11. CASE Crash
  <2>1. crashes' \in 0..MaxCrashes
    BY <1>11, ProvisioningAssumption DEF Crash, TypeOK
  <2>2. step' \in [Procs -> Steps] /\ flag' \in [Procs -> BOOLEAN]
    BY <1>2, <1>11 DEF Crash
  <2>3. container' \in Containers /\ pending' \in SUBSET Creators
    BY <1>11 DEF Crash, TypeOK, Containers
  <2>4. QED
    BY <1>11, <2>1, <2>2, <2>3 DEF Crash, TypeOK, account, queue
<1>12. ASSUME NEW p \in Creators, Appear(p) PROVE TypeOK'
  BY <1>12 DEF Appear, TypeOK, Containers, account, queue
<1>13. QED
  BY <1>12, <1>3, <1>4, <1>5, <1>6, <1>7, <1>8, <1>9, <1>10, <1>11

\* Every step.
LEMMA TypeStep == TypeOK /\ [Next]_vars => TypeOK'
<1> SUFFICES ASSUME TypeOK, [Next]_vars PROVE TypeOK'
  OBVIOUS
<1>1. CASE Next
  BY <1>1, TaskTypes, CreateTypes, CompensateTypes, OtherTypes DEF Next
<1>2. CASE UNCHANGED vars
  BY <1>2 DEF vars, account, queue, host, TypeOK
<1>3. QED
  BY <1>1, <1>2

-------------------------------------------------------------------------------
(* The gate *)

\* What a step changes that leaves the account alone, opens no row and takes nobody to
\* the refund.
LEMMA Aside ==
  ASSUME IInv, ActsLate', UNCHANGED <<delivered, compensations, releases>>,
         Unopened' => Unopened,
         \A p \in Procs : step'[p] \in {"rollback", "refund"} => step'[p] = step[p]
  PROVE  GateInv'
  BY DEF IInv, GateInv, Open, Closed, OneRefunds, DeliverOrCompensate, Refunding, At

\* A creator or the sweep, which change only rows that are to be created, disturb neither
\* the owner nor the synchronisation, and they open no row.
LEMMA Undisturbed ==
  ASSUME IInv, UNCHANGED saw,
         \A p \in {"owner", "sync"} : step'[p] = step[p],
         row' # row => row \in {"none", "creating"} /\ row' # "none"
  PROVE  ActsLate' /\ (Unopened' => Unopened)
  BY DEF IInv, GateInv, ActsLate, Unopened, At

\* The request and the worker of the queue.
LEMMA TaskGate ==
  ASSUME IInv,
         \/ Purchase \/ Prepare \/ Dispatch
         \/ ClaimTask \/ BeginTask \/ CompleteTask \/ FailTask \/ SweepTask
  PROVE  GateInv'
<1>1. step \in [Procs -> Steps] /\ {"request", "worker", "owner", "sync"} \subseteq Procs
  BY DEF IInv, TypeOK, Procs, Creators
<1>2. CASE Purchase
  <2>1. ActsLate'
    BY <1>1, <1>2, Undisturbed DEF Purchase, Goto
  <2>2. \A p \in Procs : ~Refunding(p)'
    BY <1>1, <1>2 DEF Purchase, Goto, IInv, GateInv, Open, Unopened, Refunding
  <2>3. QED
    BY <1>2, <2>1, <2>2 DEF Purchase, account, IInv, GateInv, Open, Unopened, Closed, OneRefunds,
       DeliverOrCompensate, Refunding, At
<1>3. CASE Prepare \/ Dispatch \/ ClaimTask \/ BeginTask \/ CompleteTask \/ FailTask \/ SweepTask
  <2>1. /\ UNCHANGED <<row, delivered, account, saw>>
        /\ \/ UNCHANGED step
           \/ \E s \in Steps \ {"rollback", "refund"} : Goto("request", s) \/ Goto("worker", s)
    BY <1>3 DEF Prepare, Dispatch, StartCreation, ClaimTask, BeginTask, CompleteTask, FailTask,
       SweepTask, Steps
  <2>2. /\ \A q \in {"owner", "sync"} : step'[q] = step[q]
        /\ \A q \in Procs : step'[q] \in {"rollback", "refund"} => step'[q] = step[q]
    BY <1>1, <2>1 DEF Goto
  <2>3. ActsLate' /\ (Unopened' => Unopened)
    BY <2>1, <2>2, Undisturbed
  <2>4. QED
    BY <2>1, <2>2, <2>3, Aside DEF account
<1>4. QED
  BY <1>2, <1>3

\* A creation: only Deliver touches the row.
LEMMA CreateGate ==
  ASSUME IInv, NEW p \in Creators, Create(p)
  PROVE  GateInv'
<1>1. step \in [Procs -> Steps] /\ p \in Procs /\ p \notin {"owner", "sync"}
  BY DEF IInv, TypeOK, Procs, Creators
<1>2. /\ UNCHANGED <<account, saw>>
      /\ \E s \in Steps \ {"rollback", "refund"} : Goto(p, s)
      /\ \/ UNCHANGED <<row, delivered>>
         \/ row = "creating" /\ row' = "running" /\ delivered'
  BY DEF Create, CreateOnHost, Deliver, Discard, After, End, Steps
<1>3. ActsLate' /\ (Unopened' => Unopened)
  BY <1>1, <1>2, Undisturbed DEF Goto
<1>4. \A q \in Procs : step'[q] \in {"rollback", "refund"} => step'[q] = step[q]
  BY <1>1, <1>2 DEF Goto
<1>5. CASE UNCHANGED <<row, delivered>>
  BY <1>2, <1>3, <1>4, <1>5, Aside DEF account
<1>6. CASE row = "creating" /\ row' = "running" /\ delivered'
  <2>1. \A q \in Procs : ~Refunding(q)'
    BY <1>4, <1>6 DEF IInv, GateInv, Open, Unopened, Refunding
  <2>2. ~Unopened'
    BY <1>1, <1>2, <1>6 DEF Unopened, IInv, GateInv, ActsLate, Goto
  <2>3. QED
    BY <1>2, <1>3, <1>6, <2>1, <2>2 DEF account, IInv, GateInv, Open, Unopened, Closed, OneRefunds,
       DeliverOrCompensate, Refunding, At
<1>7. QED
  BY <1>2, <1>5, <1>6

\* A compensation: the gate lets one process through, and it pays once.
LEMMA CompensateGate ==
  ASSUME IInv, NEW p \in Creators \cup {"sweeper"}, Compensate(p)
  PROVE  GateInv'
<1>1. step \in [Procs -> Steps] /\ p \in Procs /\ p \notin {"owner", "sync"}
  BY DEF IInv, TypeOK, Procs, Creators
<1>2. ASSUME NEW s \in {"idle", "cleanup", "failed", "done"}, Goto(p, s)
      PROVE  \A q \in Procs : step'[q] \in {"rollback", "refund"} => step'[q] = step[q] /\ q # p
  BY <1>1, <1>2 DEF Goto
<1>3. CleanupOrEnd(p) => \E s \in {"idle", "cleanup", "failed"} : Goto(p, s)
  BY DEF CleanupOrEnd, End
<1>4. /\ UNCHANGED <<delivered, saw>>
      /\ \A q \in {"owner", "sync"} : step'[q] = step[q]
      /\ row' # row => row = "creating" /\ row' = "error"
  <2>1. \E s \in Steps : Goto(p, s)
    BY <1>3 DEF Compensate, Gate, GateFails, Rollback, Refund, Cleanup, End, Steps
  <2>2. UNCHANGED <<delivered, saw>> /\ (row' # row => row = "creating" /\ row' = "error")
    BY DEF Compensate, Gate, GateOpen, GateFails, Rollback, Refund, Cleanup
  <2>3. QED
    BY <1>1, <2>1, <2>2 DEF Goto
<1>5. ActsLate' /\ (Unopened' => Unopened)
  BY <1>4, Undisturbed
<1>6. CASE Gate(p) /\ GateOpen
  <2>1. /\ row = "creating" /\ row' = "error" /\ Goto(p, "rollback")
        /\ UNCHANGED <<delivered, compensations, releases>>
    BY <1>6 DEF Gate, GateOpen, account
  <2>2. \A q \in Procs : Refunding(q)' => q = p
    BY <1>1, <2>1 DEF Goto, IInv, GateInv, Open, Unopened, Refunding
  <2>3. Unopened /\ ~Unopened'
    BY <1>4, <2>1 DEF Unopened, IInv, GateInv, ActsLate
  <2>4. QED
    BY <1>5, <2>1, <2>2, <2>3 DEF IInv, GateInv, Open, Unopened, Closed, OneRefunds, DeliverOrCompensate,
       Refunding, At
<1>7. CASE (Gate(p) /\ ~GateOpen) \/ GateFails(p) \/ Cleanup(p)
  <2>1. /\ \E s \in {"idle", "cleanup", "failed"} : Goto(p, s)
        /\ UNCHANGED <<row, delivered, account>>
    BY <1>3, <1>7 DEF Gate, GateFails, Cleanup, End
  <2>2. QED
    BY <1>2, <1>5, <2>1, Aside DEF account
<1>8. CASE Rollback(p)
  <2>1. /\ At(p, "rollback") /\ Goto(p, "refund") /\ releases' \in {releases, releases + 1}
        /\ UNCHANGED <<row, delivered, compensations>>
    BY <1>8 DEF Rollback
  <2>2. /\ releases = 0 /\ ~Unopened /\ ~delivered
        /\ \A q \in Procs : Refunding(q) => q = p
    BY <1>1, <2>1 DEF IInv, GateInv, Open, Closed, OneRefunds, Refunding, At
  <2>3. /\ \A q \in Procs : Refunding(q)' => q = p
        /\ \A q \in Procs : ~(step'[q] = "rollback")
    BY <1>1, <2>1, <2>2 DEF Goto, Refunding
  <2>4. QED
    BY <1>5, <2>1, <2>2, <2>3 DEF IInv, GateInv, Open, Closed, OneRefunds,
       DeliverOrCompensate, Refunding, At
<1>9. CASE Refund(p)
  <2>1. /\ At(p, "refund") /\ UNCHANGED <<row, delivered, releases>>
        /\ compensations' \in {compensations, IF compensations = 0 THEN 1 ELSE compensations}
        /\ \E s \in {"idle", "cleanup", "failed"} : Goto(p, s)
    BY <1>3, <1>9 DEF Refund
  <2>2. /\ ~Unopened /\ ~delivered
        /\ \A q \in Procs : Refunding(q) => q = p
    BY <1>1, <2>1 DEF IInv, GateInv, Open, Closed, OneRefunds, Refunding, At
  <2>3. \A q \in Procs : ~Refunding(q)'
    BY <1>2, <2>1, <2>2 DEF Refunding
  <2>4. QED
    BY <1>5, <2>1, <2>2, <2>3 DEF IInv, GateInv, Open, Closed, OneRefunds,
       DeliverOrCompensate, Refunding, At
<1>10. QED
  BY <1>6, <1>7, <1>8, <1>9 DEF Compensate

\* A late answer, the sweep's list, the owner and the synchronisation, which take a row
\* back to its creation only when a deletion found it there; and the death of the server.
LEMMA OtherGate ==
  ASSUME IInv,
         \/ \E p \in Creators : Appear(p)
         \/ Age \/ ListStuck \/ CheckActive
         \/ StartDestroy \/ ClaimDestroy \/ DeleteOnHost \/ UndoDestroy \/ Settle
         \/ StartSync \/ Look \/ Apply
         \/ Crash
  PROVE  GateInv'
<1>1. /\ step \in [Procs -> Steps] /\ saw \in [Procs -> Statuses]
      /\ {"sweeper", "owner", "sync"} \subseteq Procs
  BY DEF IInv, TypeOK, Procs
<1>2. UNCHANGED <<delivered, compensations, releases>>
  BY DEF Appear, Age, ListStuck, CheckActive, StartDestroy, ClaimDestroy, DeleteOnHost,
     UndoDestroy, Settle, StartSync, Look, Apply, Crash, account
<1>3. \A q \in Procs : step'[q] \in {"rollback", "refund"} => step'[q] = step[q]
  BY <1>1 DEF Appear, Age, ListStuck, CheckActive, StartDestroy, ClaimDestroy, DeleteOnHost,
     UndoDestroy, Settle, StartSync, Look, Apply, Crash, Goto
<1>4. ActsLate' /\ (Unopened' => Unopened)
  <2> USE <1>1 DEF Goto, At, IInv, GateInv, ActsLate, Unopened
  <2>1. CASE (\E p \in Creators : Appear(p)) \/ Age \/ ListStuck \/ CheckActive
    BY <2>1 DEF Appear, Age, ListStuck, CheckActive
  <2>2. CASE StartDestroy
    BY <2>2 DEF StartDestroy, Destroyable
  <2>3. CASE ClaimDestroy
    BY <2>3 DEF ClaimDestroy
  <2>4. CASE DeleteOnHost
    BY <2>4 DEF DeleteOnHost
  <2>5. CASE UndoDestroy
    BY <2>5 DEF UndoDestroy, Destroyable
  <2>6. CASE Settle
    BY <2>6 DEF Settle
  <2>7. CASE StartSync
    BY <2>7 DEF StartSync
  <2>8. CASE Look
    BY <2>8 DEF Look
  <2>9. CASE Apply
    BY <2>9 DEF Apply
  <2>10. CASE Crash
    BY <2>10 DEF Crash
  <2>11. QED
    BY <2>1, <2>2, <2>3, <2>4, <2>5, <2>6, <2>7, <2>8, <2>9, <2>10
<1>5. QED
  BY <1>2, <1>3, <1>4, Aside

\* Every step.
LEMMA Step == IInv /\ [Next]_vars => IInv'
<1> SUFFICES ASSUME IInv, [Next]_vars PROVE IInv'
  OBVIOUS
<1>1. TypeOK'
  BY TypeStep DEF IInv
<1>2. GateInv'
  <2>1. CASE Next
    BY <2>1, TaskGate, CreateGate, CompensateGate, OtherGate DEF Next
  <2>2. CASE UNCHANGED vars
    BY <2>2 DEF vars, account, IInv, GateInv, Open, Unopened, Closed, OneRefunds, ActsLate,
       DeliverOrCompensate, Refunding, At
  <2>3. QED
    BY <2>1, <2>2
<1>3. QED
  BY <1>1, <1>2 DEF IInv

-------------------------------------------------------------------------------
(* The container *)

\* Before the creation has begun there is no container and no task.
Unused ==
    \/ step["request"] \in {"prepare", "dispatch"}
    \/ step["request"] \in {"gate", "rollback", "refund"} /\ ~flag["request"]
    \/ row = "none"
BeforeUse ==
    Unused => container = "none" /\ pending = {} /\ task = "none" /\ At("worker", "idle")

\* A creator that got as far as the host knows that it has to clean up there.
Flagged ==
    /\ \A p \in Creators : step[p] \in {"create", "deliver", "discard", "after", "cleanup"} => flag[p]
    /\ step["worker"] \in {"gate", "rollback", "refund"} => flag["worker"]
    /\ step["worker"] \notin {"prepare", "dispatch"}
    /\ row = "none" => step["request"] = "idle" /\ step["sweeper"] = "idle"
    /\ ~flag["sweeper"]

\* Somebody deletes what is on the host.
Cleaned == \E p \in Procs : CleansUp(p)

\* Or takes the row back to a status that accounts for it.
Answered ==
    \/ Cleaned
    \/ step["owner"] \in {"delete", "undo"} /\ saw["owner"] # "error"

\* While a container is on the host that no row accounts for, or that the
\* synchronisation did not find, and that nobody failed to delete, somebody answers for it.
Watched ==
    container = "there" =>
        /\ row \in {"error", "deleted"} => Answered
        /\ At("sync", "apply") /\ ~flag["sync"] /\ saw["sync"] = "running" => Cleaned

HostInv == BeforeUse /\ Flagged /\ Watched

\* At first there is none.
LEMMA InitHost == Init => HostInv
  BY DEF Init, HostInv, BeforeUse, Unused, Flagged, Watched, At, Procs, Creators

\* The request, the queue and the sweep's list, none of which answers for a container.
LEMMA QueueHost ==
  ASSUME IInv, HostInv,
         \/ Purchase \/ Prepare \/ Dispatch
         \/ ClaimTask \/ BeginTask \/ CompleteTask \/ FailTask \/ SweepTask
         \/ Age \/ ListStuck \/ CheckActive
  PROVE  HostInv'
<1>1. /\ step \in [Procs -> Steps] /\ flag \in [Procs -> BOOLEAN]
      /\ {"request", "worker", "sweeper", "owner", "sync"} \subseteq Procs
  BY DEF IInv, TypeOK, Procs, Creators
<1>2. UNCHANGED <<container, pending, saw>> /\ (row' = row \/ Purchase)
  BY DEF Purchase, Prepare, Dispatch, ClaimTask, BeginTask, CompleteTask, FailTask, SweepTask,
     Age, ListStuck, CheckActive, host
<1>3. (BeforeUse /\ Flagged)'
  <2>1. CASE Purchase
    BY <1>1, <2>1 DEF HostInv, BeforeUse, Unused, Flagged, At, Creators, Goto, Purchase, queue, host
  <2>2. CASE Prepare
    BY <1>1, <2>2 DEF HostInv, BeforeUse, Unused, Flagged, At, Creators, Goto, Prepare, queue, host
  <2>3. CASE Dispatch
    BY <1>1, <2>3 DEF HostInv, BeforeUse, Unused, Flagged, At, Creators, Goto, Dispatch, StartCreation
  <2>4. CASE ClaimTask
    BY <1>1, <2>4 DEF HostInv, BeforeUse, Unused, Flagged, At, Creators, Goto, ClaimTask
  <2>5. CASE BeginTask
    BY <1>1, <2>5 DEF HostInv, BeforeUse, Unused, Flagged, At, Creators, Goto, BeginTask,
       StartCreation, queue
  <2>6. CASE CompleteTask
    BY <1>1, <2>6 DEF HostInv, BeforeUse, Unused, Flagged, At, Creators, Goto, CompleteTask
  <2>7. CASE FailTask
    BY <1>1, <2>7 DEF HostInv, BeforeUse, Unused, Flagged, At, Creators, Goto, FailTask
  <2>8. CASE SweepTask
    BY <2>8 DEF HostInv, BeforeUse, Unused, Flagged, At, SweepTask
  <2>9. CASE Age \/ ListStuck \/ CheckActive
    BY <1>1, <2>9 DEF HostInv, BeforeUse, Unused, Flagged, At, Creators, Goto, Age, ListStuck,
       CheckActive, queue, host
  <2>10. QED
    BY <2>1, <2>2, <2>3, <2>4, <2>5, <2>6, <2>7, <2>8, <2>9
<1>4. step'["owner"] = step["owner"] /\ step'["sync"] = step["sync"] /\ flag'["sync"] = flag["sync"]
  BY <1>1 DEF At, Goto, StartCreation, Purchase, Prepare, Dispatch, ClaimTask, BeginTask,
     CompleteTask, FailTask, SweepTask, Age, ListStuck, CheckActive
<1>5. Cleaned => Cleaned'
  <2>1. ASSUME NEW q \in Procs, CleansUp(q) PROVE CleansUp(q)'
    <3>1. \/ step'[q] = step[q] /\ flag'[q] = flag[q]
          \/ step'[q] = "create"
          \/ q = "sweeper" /\ step[q] \in {"idle", "check"}
          \/ q = "request" /\ At("request", "prepare")
          \/ q = "request" /\ At("request", "dispatch")
          \/ q = "request" /\ At("request", "idle")
          \/ q = "worker" /\ step[q] \in {"idle", "begin", "done", "failed"}
      BY <1>1 DEF At, Goto, StartCreation, Purchase, Prepare, Dispatch, ClaimTask, BeginTask,
         CompleteTask, FailTask, SweepTask, Age, ListStuck, CheckActive
    <3>2. QED
      BY <2>1, <3>1 DEF CleansUp, At
  <2>2. QED
    BY <2>1 DEF Cleaned
<1>6. Watched'
  BY <1>2, <1>4, <1>5 DEF HostInv, Watched, Answered, Purchase, At
<1>7. QED
  BY <1>3, <1>6 DEF HostInv

\* A creation: whoever created a container goes on to deliver it or to clean up.
LEMMA CreateHost ==
  ASSUME IInv, HostInv, NEW p \in Creators, Create(p)
  PROVE  HostInv'
<1>1. /\ step \in [Procs -> Steps] /\ flag \in [Procs -> BOOLEAN]
      /\ {"request", "worker", "sweeper", "owner", "sync"} \subseteq Procs
      /\ p \in Procs /\ p \in {"request", "worker"}
  BY DEF IInv, TypeOK, Procs, Creators
<1>2. UNCHANGED <<task, saw>> /\ (\A q \in Procs \ {p} : step'[q] = step[q] /\ flag'[q] = flag[q])
  BY <1>1 DEF Create, CreateOnHost, Deliver, Discard, After, End, Goto, queue
<1>3. step[p] \in {"create", "deliver", "discard", "after"} /\ flag[p] /\ row # "none"
  <2>1. step[p] \in {"create", "deliver", "discard", "after"}
    BY DEF Create, CreateOnHost, Deliver, Discard, After, At
  <2>2. QED
    BY <1>1, <2>1 DEF HostInv, Flagged, BeforeUse, Unused, At, Creators
<1>4. row' # row => row = "creating" /\ row' = "running"
  BY DEF Create, CreateOnHost, Deliver, Discard, After
<1>5. /\ step'[p] \in {"deliver", "gate", "discard", "after"} /\ flag'[p]
      \/ step'[p] \in {"idle", "done", "failed"}
  BY <1>1, <1>3 DEF Create, CreateOnHost, Deliver, Discard, After, End, Goto
<1>6. (BeforeUse /\ Flagged)'
  BY <1>1, <1>2, <1>3, <1>4, <1>5 DEF HostInv, BeforeUse, Unused, Flagged, At, Creators
<1>7. Watched'
  <2>1. CASE step'[p] \in {"deliver", "gate", "discard"} /\ flag'[p]
    BY <1>1, <2>1 DEF Watched, Answered, Cleaned, CleansUp
  <2>2. CASE Deliver(p) /\ row = "creating"
    BY <1>1, <1>2, <2>2 DEF Deliver, Watched, IInv, GateInv, ActsLate, Unopened, At
  <2>3. CASE Deliver(p) /\ row # "creating"
    BY <1>1, <1>3, <2>1, <2>3 DEF Deliver, Goto
  <2>4. CASE Discard(p)
    BY <2>4 DEF Discard, Discarded, Watched
  <2>5. CASE After(p)
    <3>1. UNCHANGED <<row, container>> /\ At(p, "after")
      BY <2>5 DEF After, host
    <3>2. Cleaned => Cleaned'
      BY <1>2, <3>1 DEF Cleaned, CleansUp, At
    <3>3. QED
      BY <1>1, <1>2, <3>1, <3>2 DEF HostInv, Watched, Answered, At
  <2>6. CASE CreateOnHost(p)
    BY <1>1, <1>3, <2>1, <2>6 DEF CreateOnHost, Goto
  <2>7. QED
    BY <2>2, <2>3, <2>4, <2>5, <2>6 DEF Create
<1>8. QED
  BY <1>6, <1>7 DEF HostInv

\* A compensation ends in a clean-up on the host whenever there may be a container.
LEMMA CompensateHost ==
  ASSUME IInv, HostInv, NEW p \in Creators \cup {"sweeper"}, Compensate(p)
  PROVE  HostInv'
<1>1. /\ step \in [Procs -> Steps] /\ flag \in [Procs -> BOOLEAN]
      /\ {"request", "worker", "sweeper", "owner", "sync"} \subseteq Procs
      /\ p \in Procs /\ p \in {"request", "worker", "sweeper"}
  BY DEF IInv, TypeOK, Procs, Creators
<1>2. step[p] \in {"gate", "rollback", "refund", "cleanup"}
  BY DEF Compensate, Gate, GateFails, Rollback, Refund, Cleanup, At
<1>3. /\ UNCHANGED <<task, saw>>
      /\ \A q \in Procs \ {p} : step'[q] = step[q] /\ flag'[q] = flag[q]
      /\ row' # row => row = "creating" /\ row' = "error" /\ step'[p] = "rollback"
  <2>1. UNCHANGED <<task, saw>> /\ (row' # row => row = "creating" /\ row' = "error" /\ Goto(p, "rollback"))
    BY DEF Compensate, Gate, GateOpen, GateFails, Rollback, Refund, Cleanup, queue
  <2>2. \A q \in Procs \ {p} : step'[q] = step[q] /\ flag'[q] = flag[q]
    BY <1>1 DEF Compensate, Gate, GateFails, Rollback, Refund, Cleanup, CleanupOrEnd, End, Goto
  <2>3. QED
    BY <1>1, <2>1, <2>2 DEF Goto
<1>4. \/ /\ step'[p] \in {"rollback", "refund"} /\ step[p] # "cleanup"
         /\ flag'[p] = flag[p] /\ UNCHANGED host
      \/ step'[p] = "cleanup" /\ (flag'[p] \/ p = "sweeper") /\ UNCHANGED host
      \/ /\ step'[p] \in {"idle", "failed"}
         /\ \/ Cleanup(p)
            \/ p = "sweeper" /\ step[p] = "gate" /\ UNCHANGED host
            \/ p # "sweeper" /\ ~flag[p] /\ UNCHANGED host
  <2>1. CASE Gate(p)
    BY <1>1, <2>1 DEF Gate, CleanupOrEnd, End, Goto, At
  <2>2. CASE GateFails(p)
    BY <1>1, <2>2 DEF GateFails, CleanupOrEnd, End, Goto, At
  <2>3. CASE Rollback(p)
    BY <1>1, <2>3 DEF Rollback, Goto, At
  <2>4. CASE Refund(p)
    BY <1>1, <2>4 DEF Refund, CleanupOrEnd, End, Goto
  <2>5. CASE Cleanup(p)
    BY <1>1, <2>5 DEF Cleanup, End, Goto
  <2>6. QED
    BY <2>1, <2>2, <2>3, <2>4, <2>5 DEF Compensate
<1>5. row # "none" /\ row' # "none"
  BY <1>1, <1>2, <1>3 DEF HostInv, Flagged, BeforeUse, Unused, At, IInv, GateInv
<1>6. (BeforeUse /\ Flagged)'
  <2>1. p = "request" /\ Unused' => Unused
    BY <1>2, <1>4, <1>5 DEF Unused
  <2>2. Unused' => Unused
    BY <1>1, <1>3, <1>5, <2>1 DEF Unused
  <2>3. p = "worker" => flag[p]
    BY <1>2 DEF HostInv, Flagged, Creators
  <2>4. BeforeUse'
    BY <1>1, <1>2, <1>3, <1>4, <2>2, <2>3 DEF HostInv, BeforeUse, Unused, At, Discarded, Cleanup, host
  <2>5. Flagged'
    <3>1. ~flag'["sweeper"]
      BY <1>1, <1>3 DEF HostInv, Flagged, Compensate, Gate, GateFails, Rollback, Refund, Cleanup,
         CleanupOrEnd
    <3>2. QED
      BY <1>1, <1>2, <1>3, <1>4, <1>5, <2>3, <3>1 DEF HostInv, Flagged, Creators
  <2>6. QED
    BY <2>4, <2>5
<1>7. Watched'
  <2>1. CASE Cleanup(p)
    BY <2>1 DEF Cleanup, Discarded, Watched
  <2>2. CASE ~Cleanup(p)
    <3>1. UNCHANGED container
      BY <1>4, <2>2 DEF host
    <3>3. Cleaned => Cleaned'
      <4>1. ASSUME NEW q \in Procs, CleansUp(q) PROVE CleansUp(q)'
        BY <1>1, <1>2, <1>3, <1>4, <2>2, <4>1 DEF CleansUp, HostInv, Flagged, Creators
      <4>2. QED
        BY <4>1 DEF Cleaned
    <3>4. CASE row' # row
      <4>1. p = "sweeper" \/ flag[p] \/ container = "none"
        BY <1>1, <1>2, <1>3, <3>4 DEF HostInv, BeforeUse, Unused, Flagged, Creators, Gate
      <4>2. step'[p] = "rollback" /\ flag'[p] = flag[p] /\ row = "creating"
        BY <1>3, <1>4, <3>4
      <4>3. Cleaned' \/ container = "none"
        BY <1>1, <4>1, <4>2 DEF Cleaned, CleansUp
      <4>4. QED
        BY <3>1, <4>3 DEF Watched, Answered
    <3>5. CASE row' = row
      <4>1. Answered => Answered'
        BY <1>1, <1>3, <3>3 DEF Answered
      <4>2. QED
        BY <1>1, <1>3, <3>1, <3>3, <3>5, <4>1 DEF HostInv, Watched, At
    <3>6. QED
      BY <3>4, <3>5
  <2>3. QED
    BY <2>1, <2>2
<1>8. QED
  BY <1>6, <1>7 DEF HostInv

\* A creation nobody waited for: its container is watched, or left.
LEMMA AppearHost ==
  ASSUME IInv, HostInv, NEW p \in Creators, Appear(p)
  PROVE  HostInv'
<1>1. /\ UNCHANGED <<row, step, saw, flag, task>> /\ p \in pending
      /\ container' = "there" => row = "creating" \/ Cleaned
  BY DEF Appear, Cleaned, queue
<1>2. (BeforeUse /\ Flagged)'
  BY <1>1 DEF HostInv, BeforeUse, Unused, Flagged, At
<1>3. Cleaned => Cleaned'
  BY <1>1 DEF Cleaned, CleansUp
<1>4. Watched'
  BY <1>1, <1>3 DEF Watched, Answered, IInv, GateInv, ActsLate, Unopened, At
<1>5. QED
  BY <1>2, <1>4 DEF HostInv

\* The owner, the synchronisation and the death of the server.
LEMMA OtherHost ==
  ASSUME IInv, HostInv,
         \/ StartDestroy \/ ClaimDestroy \/ DeleteOnHost \/ UndoDestroy \/ Settle
         \/ StartSync \/ Look \/ Apply
         \/ Crash
  PROVE  HostInv'
<1>1. /\ step \in [Procs -> Steps] /\ flag \in [Procs -> BOOLEAN] /\ saw \in [Procs -> Statuses]
      /\ {"request", "worker", "sweeper", "owner", "sync"} \subseteq Procs
      /\ container \in Containers
  BY DEF IInv, TypeOK, Procs, Creators
<1>2. CASE Crash
  <2>1. step' = [q \in Procs |-> "idle"] /\ flag' = [q \in Procs |-> FALSE] /\ UNCHANGED <<row, task>>
        /\ (container' = "there" => row \notin {"error", "deleted"})
        /\ (row = "none" => pending' = pending /\ container' = container)
    BY <1>2 DEF Crash, queue, HostInv, Flagged, BeforeUse, Unused, At, Creators
  <2>2. (BeforeUse /\ Flagged)'
    BY <1>1, <2>1 DEF HostInv, BeforeUse, Unused, Flagged, At, Creators
  <2>3. Watched'
    BY <1>1, <2>1 DEF Watched, At
  <2>4. QED
    BY <2>2, <2>3 DEF HostInv
<1>3. CASE StartDestroy \/ ClaimDestroy \/ DeleteOnHost \/ UndoDestroy \/ Settle
  <2>1. /\ UNCHANGED <<task, pending>> /\ container' \in {container, "none"}
        /\ \A q \in {"request", "worker", "sweeper", "sync"} :
              step'[q] = step[q] /\ flag'[q] = flag[q] /\ saw'[q] = saw[q]
        /\ row # "none" /\ row' # "none"
    <3>1. UNCHANGED <<task, pending>> /\ container' \in {container, "none"}
      BY <1>3 DEF StartDestroy, ClaimDestroy, DeleteOnHost, UndoDestroy, Settle, queue, host
    <3>2. \A q \in {"request", "worker", "sweeper", "sync"} :
              step'[q] = step[q] /\ flag'[q] = flag[q] /\ saw'[q] = saw[q]
      BY <1>1, <1>3 DEF StartDestroy, ClaimDestroy, DeleteOnHost, UndoDestroy, Settle, Goto
    <3>3. row # "none" /\ row' # "none"
      BY <1>3 DEF StartDestroy, ClaimDestroy, DeleteOnHost, UndoDestroy, Settle, Destroyable, IInv,
         GateInv, ActsLate, At
    <3>4. QED
      BY <3>1, <3>2, <3>3
  <2>2. (BeforeUse /\ Flagged)'
    <3>1. \A q \in {"request", "worker"} : flag'[q] <=> flag[q]
      BY <2>1
    <3>2. Unused' <=> Unused
      BY <2>1, <3>1 DEF Unused
    <3>3. BeforeUse'
      BY <2>1, <3>2 DEF HostInv, BeforeUse, At
    <3>4. Flagged'
      BY <2>1, <3>1 DEF HostInv, Flagged, Creators
    <3>5. QED
      BY <3>3, <3>4
  <2>3. Cleaned => Cleaned'
    <3>1. step["owner"] \in {"idle", "claim", "delete", "undo", "settle"}
      BY <1>3 DEF StartDestroy, ClaimDestroy, DeleteOnHost, UndoDestroy, Settle, At
    <3>2. ASSUME NEW q \in Procs, CleansUp(q) PROVE CleansUp(q)'
      BY <2>1, <3>1, <3>2 DEF CleansUp, Procs, Creators
    <3>3. QED
      BY <3>2 DEF Cleaned
  <2>4. container' = "there" /\ row' \in {"error", "deleted"} => Answered'
    <3>1. CASE StartDestroy
      BY <1>1, <2>1, <2>3, <3>1 DEF StartDestroy, Goto, HostInv, Watched, Answered, At
    <3>2. CASE ClaimDestroy
      BY <1>1, <2>1, <2>3, <3>2 DEF ClaimDestroy, Goto, HostInv, Watched, Answered, At, Destroyable,
         IInv, GateInv, ActsLate
    <3>3. CASE DeleteOnHost
      BY <1>1, <2>1, <2>3, <3>3 DEF DeleteOnHost, Goto, HostInv, Watched, Answered, At
    <3>4. CASE UndoDestroy
      BY <1>1, <2>1, <2>3, <3>4 DEF UndoDestroy, Goto, HostInv, Watched, Answered, At, Destroyable,
         IInv, GateInv, ActsLate
    <3>5. CASE Settle
      BY <1>1, <2>1, <2>3, <3>5 DEF Settle, Goto, HostInv, Watched, Answered, At, host
    <3>6. QED
      BY <1>3, <3>1, <3>2, <3>3, <3>4, <3>5
  <2>5. Watched'
    BY <2>1, <2>3, <2>4 DEF HostInv, Watched, At
  <2>6. QED
    BY <2>2, <2>5 DEF HostInv
<1>4. CASE StartSync \/ Look \/ Apply
  <2>1. /\ UNCHANGED <<task, container, pending>>
        /\ \A q \in {"request", "worker", "sweeper", "owner"} :
              step'[q] = step[q] /\ flag'[q] = flag[q] /\ saw'[q] = saw[q]
        /\ row # "none" /\ row' # "none"
    BY <1>1, <1>4 DEF StartSync, Look, Apply, Goto, queue, host, IInv, GateInv, ActsLate, Unopened, At
  <2>2. (BeforeUse /\ Flagged)'
    BY <2>1 DEF HostInv, BeforeUse, Unused, Flagged, At, Creators
  <2>3. Cleaned => Cleaned'
    <3>1. step["sync"] \in {"idle", "look", "apply"}
      BY <1>4 DEF StartSync, Look, Apply, At
    <3>2. ASSUME NEW q \in Procs, CleansUp(q) PROVE CleansUp(q)'
      BY <2>1, <3>1, <3>2 DEF CleansUp, Procs, Creators
    <3>3. QED
      BY <3>2 DEF Cleaned
  <2>4. Answered => Answered'
    BY <2>1, <2>3 DEF Answered
  <2>5. ASSUME StartSync PROVE Watched'
    <3>1. step'["sync"] = "look" /\ UNCHANGED row
      BY <1>1, <2>5 DEF StartSync, Goto
    <3>2. QED
      BY <2>1, <2>4, <3>1 DEF HostInv, Watched, At
  <2>6. ASSUME Look PROVE Watched'
    <3>1. step'["sync"] = "idle" \/ (flag'["sync"] <=> container # "none")
      BY <1>1, <2>6 DEF Look, Goto
    <3>2. UNCHANGED row
      BY <2>6 DEF Look
    <3>3. QED
      BY <2>1, <2>4, <3>1, <3>2 DEF HostInv, Watched, At
  <2>7. ASSUME Apply PROVE Watched'
    <3>1. At("sync", "apply") /\ step'["sync"] = "idle"
      BY <1>1, <2>7 DEF Apply, Goto
    <3>2. \/ row' = row \/ row' = "running"
          \/ row' = "deleted" /\ ~flag["sync"] /\ saw["sync"] = "running"
      BY <2>7 DEF Apply, IInv, GateInv, ActsLate, At
    <3>3. CASE row' = row \/ row' = "running"
      BY <2>1, <2>4, <3>1, <3>3 DEF HostInv, Watched, At
    <3>4. CASE row' = "deleted" /\ ~flag["sync"] /\ saw["sync"] = "running"
      BY <2>1, <2>3, <3>1, <3>4 DEF HostInv, Watched, Answered, At
    <3>5. QED
      BY <3>2, <3>3, <3>4
  <2>8. Watched'
    BY <1>4, <2>5, <2>6, <2>7
  <2>9. QED
    BY <2>2, <2>8 DEF HostInv
<1>5. QED
  BY <1>2, <1>3, <1>4

\* Every step.
LEMMA HostStep == IInv /\ HostInv /\ [Next]_vars => HostInv'
<1> SUFFICES ASSUME IInv, HostInv, [Next]_vars PROVE HostInv'
  OBVIOUS
<1>1. CASE Next
  BY <1>1, QueueHost, CreateHost, CompensateHost, AppearHost, OtherHost DEF Next
<1>2. CASE UNCHANGED vars
  BY <1>2 DEF vars, queue, host, HostInv, BeforeUse, Unused, Flagged, Watched, Answered, Cleaned,
     CleansUp, At
<1>3. QED
  BY <1>1, <1>2

-------------------------------------------------------------------------------
(* The theorems *)

\* The invariant that types and gate together are.
LEMMA Invariance == Spec => []IInv
  BY InitInv, Step, PTL DEF Spec

\* Statuses, steps and counters keep their types; a create task is retried at most
\* MaxRetries times.
THEOREM TypeCorrect == Spec => []TypeOK
<1>1. IInv => TypeOK
  BY DEF IInv
<1>2. QED
  BY <1>1, Invariance, PTL

\* creating -> running and creating -> error exclude each other for good, also when a
\* deletion takes the row in between and gives it back: an instance that was delivered is
\* neither refunded nor released as a failed creation, and one that failed is so once
\* at most.
THEOREM DeliveredOrCompensated == Spec => []DeliverOrCompensate
<1>1. IInv => DeliverOrCompensate
  BY DEF IInv, GateInv
<1>2. QED
  BY <1>1, Invariance, PTL

\* Creation, retry, sweep, owner and synchronisation meet in any way: as long as a
\* container is on the host that no row accounts for somebody is left to delete it, except
\* one whose deletion failed or died, or that appeared when it was too late for any.
THEOREM NothingOrphaned == Spec => []NoOrphan
<1>1. HostInv => NoOrphan
  BY DEF HostInv, Watched, Answered, Cleaned, CleansUp, NoOrphan, Quiet, At, Procs
<1>2. Spec => []HostInv
  BY Invariance, InitHost, HostStep, PTL DEF Spec
<1>3. QED
  BY <1>1, <1>2, PTL
==============================================================================
