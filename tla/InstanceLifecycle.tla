-------------------------- MODULE InstanceLifecycle --------------------------
(***************************************************************************)
(* One paid instance from its purchase to its deletion: everybody who      *)
(* writes its status, its expiry or its version, and the container on the  *)
(* host.  Customers renew and destroy, administrators and the owner of the *)
(* host suspend, extend and delete, tasks start, stop and rebuild, and four*)
(* jobs renew, suspend, delete and synchronise.                            *)
(*                                                                         *)
(* A request reads the row, may wait for the host and writes later.  What  *)
(* orders the writers differs: renewals and the deletion on expiry compare *)
(* the version they read, deletions claim the status they read, task       *)
(* results leave deleted and suspended rows alone, and what operators do by*)
(* hand, and what a recreation leaves, is written whatever the row has     *)
(* become.                                                                 *)
(*                                                                         *)
(* Each step is one transaction or one call to the host.  Prices, fees and *)
(* amounts are not state: a refund is quoted as the number of paid periods *)
(* it covers at most.  An instance that is being created, or whose creation*)
(* failed, is not in this module.                                          *)
(***************************************************************************)
EXTENDS Integers, Sequences, FiniteSets

CONSTANTS
    Handlers,      \* requests and tasks the server works on at a time
    MaxRequests,   \* bound: requests and tasks ever begun
    MaxAtWork,     \* bound: requests, tasks and jobs at work at a time
    MaxPeriods,    \* bound: paid periods
    MaxVersion,    \* bound: the version when the expiry job claims
    MaxTime,       \* bound: the clock
    Period,        \* what a renewal adds
    Extension,     \* what an administrator's extension adds
    Grace,         \* SUSPEND_AFTER_DELETE_DAYS
    Window         \* AUTO_RENEW_HOURS_BEFORE

Jobs == {"autoRenew", "suspender", "deleter", "sync"}

ASSUME LifecycleAssumption ==
    /\ MaxRequests \in Nat /\ MaxAtWork \in Nat /\ MaxPeriods \in Nat /\ MaxTime \in Nat
    /\ MaxVersion \in Nat
    /\ Period \in Nat \ {0} /\ Extension \in Nat \ {0}
    /\ Grace \in Nat /\ Window \in Nat
    /\ IsFiniteSet(Handlers) /\ Handlers \cap Jobs = {}

VARIABLES
    now,
    row,        \* the instances row
    container,  \* the container created last on the host, and its name there
    periods,    \* billing records that grant time, oldest first
    refunds,    \* refunds paid because the instance was deleted
    proc,       \* each request, task and job: its next step, the row it read
                \* and what it worked out from it
    begun,      \* requests and tasks begun so far
    reopened,   \* history: how often a deletion took a row it had read as deleted,
                \* or a deleted row was written over without being asked for
    torn,       \* history: a deletion on the host was reported as failed, or a
                \* recreation ended between deleting the container and the row
    crossed     \* history: an extension by hand, or a renewal that met one, was
                \* written over a row other than the one it was worked out from

histories == <<reopened, torn, crossed>>
vars == <<now, row, container, periods, refunds, proc, begun, histories>>

Procs == Handlers \cup Jobs
Statuses == {"running", "stopped", "error", "suspended", "deleted"}
Reasons == {"none", "expired", "manual"}
Kinds == {"none", "renew", "extend", "suspend", "unsuspend", "destroy", "remove",
          "adminRemove", "power", "recreate", "job"}
Steps == {"idle", "renew", "extend", "stop", "suspend", "unsuspend", "claim", "delete",
          "quote", "settle", "release", "undo", "work", "wipe", "create", "result", "cleanup",
          "fail", "look", "apply"}
Containers == {"running", "stopped", "gone"}
Rows == [status : Statuses, reason : Reasons, since : Nat, expiresAt : Nat, version : Nat,
         incusId : Nat]

Fresh(e) == [status |-> "running", reason |-> "none", since |-> 0, expiresAt |-> e,
             version |-> 0, incusId |-> 0]
Grants == [start : Nat, end : Nat, by : {"purchase", "renew", "extend"}]
NoGrant == [start |-> 0, end |-> 0, by |-> "purchase"]
NoProc == [kind |-> "none", step |-> "idle", saw |-> Fresh(0), grant |-> NoGrant,
           quote |-> 0, seen |-> "running"]

TypeOK ==
    /\ now \in 0..MaxTime
    /\ row \in Rows
    /\ container \in [status : Containers, incusId : Nat]
    /\ periods \in Seq(Grants)
    /\ refunds \in Nat
    /\ proc \in [Procs -> [kind : Kinds, step : Steps, saw : Rows,
                           grant : Grants, quote : 0..Len(periods),
                           seen : Containers]]
    /\ begun \in 0..MaxRequests
    /\ reopened \in Nat /\ torn \in BOOLEAN /\ crossed \in BOOLEAN

Init ==
    \E e \in 1..Period :
        /\ now = 0
        /\ row = Fresh(e)
        /\ container = [status |-> "running", incusId |-> 0]
        /\ periods = <<[NoGrant EXCEPT !.end = e]>>
        /\ refunds = 0
        /\ proc = [p \in Procs |-> NoProc]
        /\ begun = 0
        /\ reopened = 0 /\ torn = FALSE /\ crossed = FALSE

-------------------------------------------------------------------------------
(* Steps of a process *)

At(p, step) == proc[p].step = step
Saw(p) == proc[p].saw
Goto(p, step) == proc' = [proc EXCEPT ![p].step = step]
Finish(p) == proc' = [proc EXCEPT ![p] = NoProc]

Later(t) == IF t > now THEN t ELSE now

AtWork == {p \in Procs : ~At(p, "idle")}
MayBegin == Cardinality(AtWork) < MaxAtWork

\* A request or a task arrives and reads the row.
Arrives(h, kind, step, grant, quote) ==
    /\ At(h, "idle") /\ begun < MaxRequests /\ MayBegin
    /\ begun' = begun + 1
    /\ proc' = [proc EXCEPT ![h] = [kind |-> kind, step |-> step, saw |-> row,
                                    grant |-> grant, quote |-> quote, seen |-> "gone"]]
    /\ UNCHANGED <<now, row, container, periods, refunds, histories>>

\* A timer fires and its job reads the row.
Fires(j, step, grant) ==
    /\ At(j, "idle") /\ MayBegin
    /\ proc' = [proc EXCEPT ![j] = [kind |-> "job", step |-> step, saw |-> row,
                                    grant |-> grant, quote |-> 0, seen |-> "gone"]]
    /\ UNCHANGED <<now, row, container, periods, refunds, begun, histories>>

\* A task of the instance is pending or at work.
TaskActive == \E h \in Handlers : proc[h].kind \in {"power", "recreate"}

Lifted(r) == [r EXCEPT !.status = "stopped", !.reason = "none", !.since = 0]
IsExpired(r) == r.status = "suspended" /\ r.reason = "expired"

\* Counts a write that brings a deleted row back.
CountReopened ==
    reopened' = reopened + (IF row.status = "deleted" /\ row'.status # "deleted" THEN 1 ELSE 0)

\* Somebody else moved the expiry since it was read...
ExpiryMoved(p) == row.expiresAt # Saw(p).expiresAt

\* ... or suspended the instance on expiry, or deleted it.
Overtaken(p) ==
    \/ ExpiryMoved(p)
    \/ IsExpired(row) /\ ~IsExpired(Saw(p))
    \/ row.status = "deleted"

-------------------------------------------------------------------------------
(* Renewals and extensions *)

\* calculateRenewBilling: from the expiry, or from now when that is past; the
\* record always starts at the expiry.
Renewal == [start |-> row.expiresAt, end |-> Later(row.expiresAt) + Period, by |-> "renew"]

StartRenew(h) ==
    /\ row.status # "deleted"
    /\ row.status = "suspended" => row.reason = "expired"
    /\ Arrives(h, "renew", "renew", Renewal, 0)

\* processAutoRenew: the owner wants it and the expiry is near.
AutoRenew ==
    /\ row.status \notin {"suspended", "deleted"}
    /\ now < row.expiresAt /\ row.expiresAt <= now + Window
    /\ Fires("autoRenew", "renew", Renewal)

\* Mutant: the version is not compared.
Unchanged_unversioned(p) == row.status # "deleted"

Unchanged(p) == row.status # "deleted" /\ row.version = Saw(p).version

\* The transaction of performRenewal: charge, new expiry, billing record.
Renew(p) ==
    /\ At(p, "renew")
    /\ Unchanged(p)
    /\ Len(periods) < MaxPeriods
    /\ row' = [IF IsExpired(Saw(p)) THEN Lifted(row) ELSE row
                  EXCEPT !.expiresAt = proc[p].grant.end, !.version = @ + 1]
    /\ periods' = Append(periods, proc[p].grant)
    /\ crossed' = (crossed \/ ExpiryMoved(p))
    /\ Finish(p)
    /\ UNCHANGED <<now, container, refunds, begun, reopened, torn>>

\* Too little balance, a busy balance, or the row changed: rolled back.
RenewRefused(p) ==
    /\ At(p, "renew")
    /\ Finish(p)
    /\ UNCHANGED <<now, row, container, periods, refunds, begun, histories>>

StartExtend(h) ==
    /\ row.status # "deleted"
    /\ Arrives(h, "extend", "extend",
               [start |-> Later(row.expiresAt), end |-> Later(row.expiresAt) + Extension,
                by |-> "extend"], 0)

\* The administrator's extension, charged or free, does not look at the row again.
Extend(p) ==
    /\ At(p, "extend")
    /\ Len(periods) < MaxPeriods
    /\ row' = [IF IsExpired(Saw(p)) THEN Lifted(row) ELSE row
                  EXCEPT !.expiresAt = proc[p].grant.end]
    /\ periods' = Append(periods, proc[p].grant)
    /\ crossed' = (crossed \/ Overtaken(p))
    /\ CountReopened
    /\ Finish(p)
    /\ UNCHANGED <<now, container, refunds, begun, torn>>

-------------------------------------------------------------------------------
(* Suspensions by hand *)

StartSuspend(h) ==
    /\ row.status \notin {"suspended", "deleted"}
    /\ Arrives(h, "suspend", IF row.status = "running" THEN "stop" ELSE "suspend",
               NoGrant, 0)

\* A stop that fails does not matter.
Stopped ==
    container' \in {container, [container EXCEPT !.status = IF @ = "gone" THEN @ ELSE "stopped"]}

StopFirst(p) ==
    /\ At(p, "stop") /\ proc[p].kind = "suspend"
    /\ Stopped
    /\ Goto(p, "suspend")
    /\ UNCHANGED <<now, row, periods, refunds, begun, histories>>

Suspend(p) ==
    /\ At(p, "suspend")
    /\ row' = [row EXCEPT !.status = "suspended", !.reason = "manual", !.since = now]
    /\ CountReopened
    /\ Finish(p)
    /\ UNCHANGED <<now, container, periods, refunds, begun, torn, crossed>>

StartUnsuspend(h) ==
    /\ row.status = "suspended"
    /\ Arrives(h, "unsuspend", "unsuspend", NoGrant, 0)

Unsuspend(p) ==
    /\ At(p, "unsuspend")
    /\ row' = Lifted(row)
    /\ CountReopened
    /\ Finish(p)
    /\ UNCHANGED <<now, container, periods, refunds, begun, torn, crossed>>

-------------------------------------------------------------------------------
(* The jobs that suspend and delete on expiry *)

\* Mutant: the version stays.
Expired_sameVersion(r) ==
    [r EXCEPT !.status = "suspended", !.reason = "expired", !.since = now]

Expired(r) == [r EXCEPT !.status = "suspended", !.reason = "expired", !.since = now,
                        !.version = @ + 1]

Overdue == row.expiresAt < now /\ row.status \notin {"suspended", "deleted"}

\* suspendInstanceByExpiry, one conditional update, then the container is stopped.
SuspendExpired ==
    /\ At("suspender", "idle") /\ MayBegin
    /\ Overdue
    /\ row' = Expired(row)
    /\ proc' = [proc EXCEPT !["suspender"].step = "stop"]
    /\ UNCHANGED <<now, container, periods, refunds, begun, histories>>

StopExpired ==
    /\ At("suspender", "stop")
    /\ Stopped
    /\ Finish("suspender")
    /\ UNCHANGED <<now, row, periods, refunds, begun, histories>>

Overripe == IsExpired(row) /\ row.since < now - Grace

ListExpired == Overripe /\ Fires("deleter", "claim", NoGrant)

SameVersion(p) == row.version = Saw(p).version

ClaimExpired ==
    /\ At("deleter", "claim")
    /\ Overripe /\ SameVersion("deleter")
    /\ row.version < MaxVersion
    /\ row' = [row EXCEPT !.status = "deleted", !.version = @ + 1]
    /\ Goto("deleter", "delete")
    /\ UNCHANGED <<now, container, periods, refunds, begun, histories>>

-------------------------------------------------------------------------------
(* Deletions: by the owner, by the owner of the host or an administrator on    *)
(* the instance page, and by an administrator who chooses the refund           *)

\* Mutant: the period under way is counted beside the records.
Quote_oneMore == IF row.expiresAt > now THEN Len(periods) + 1 ELSE 0

\* What calculateInstanceRemainingRefundQuote covers: nothing once it expired.
Quote == IF row.expiresAt > now THEN Len(periods) ELSE 0

StartDestroy(h) ==
    /\ row.status # "deleted" /\ ~TaskActive
    /\ row.status = "suspended" => row.reason = "expired"
    /\ Arrives(h, "destroy", "claim", NoGrant, Quote)

\* The page of the instance does not test for a deleted instance.
StartRemove(h) == ~TaskActive /\ Arrives(h, "remove", "claim", NoGrant, 0)

\* The administrator refunds what is left, or, whatever the expiry, all of it.
StartAdminRemove(h) ==
    /\ row.status # "deleted"
    /\ \E quote \in {Quote, Len(periods)} : Arrives(h, "adminRemove", "claim", NoGrant, quote)

\* Mutant: the claim does not compare the status.
StatusAsSeen_any(p) == TRUE

StatusAsSeen(p) == row.status = Saw(p).status

\* claimInstanceFor...: under the instance's lock, no active task, status as read.
Claim(p) ==
    /\ At(p, "claim") /\ p # "deleter"
    /\ ~TaskActive
    /\ StatusAsSeen(p)
    /\ row' = [row EXCEPT !.status = "deleted"]
    /\ Goto(p, IF proc[p].kind = "adminRemove" THEN "settle" ELSE "delete")
    /\ reopened' = reopened + (IF Saw(p).status = "deleted" THEN 1 ELSE 0)
    /\ UNCHANGED <<now, container, periods, refunds, begun, torn, crossed>>

\* The lock is taken, a task is active or the row changed.
ClaimRefused(p) ==
    /\ At(p, "claim")
    /\ Finish(p)
    /\ UNCHANGED <<now, row, container, periods, refunds, begun, histories>>

\* What the host answers about a name, and the container once that name is deleted.
Answer(incusId) == IF incusId = container.incusId THEN container.status ELSE "gone"
Without(incusId) ==
    IF incusId = container.incusId THEN [container EXCEPT !.status = "gone"] ELSE container

AfterDelete(p) ==
    CASE proc[p].kind = "destroy" -> Goto(p, "settle")
      [] proc[p].kind = "remove" -> Goto(p, "quote")
      [] OTHER -> Finish(p)

\* A container that is not there counts as deleted.
DeleteOnHost(p) ==
    /\ At(p, "delete")
    /\ container' = Without(Saw(p).incusId)
    /\ AfterDelete(p)
    /\ UNCHANGED <<now, row, periods, refunds, begun, histories>>

DeleteFails(p) ==
    /\ At(p, "delete")
    /\ Goto(p, "undo")
    /\ UNCHANGED <<now, row, container, periods, refunds, begun, histories>>

\* Deleted, but the answer is lost.
AnswerLost(p) ==
    /\ At(p, "delete")
    /\ torn' = TRUE
    /\ container' = Without(Saw(p).incusId)
    /\ Goto(p, "undo")
    /\ UNCHANGED <<now, row, periods, refunds, begun, reopened, crossed>>

Restorable == row.status = "deleted"

\* restoreExpiryDeleteClaim, restoreClaimedInstance...: only a row still deleted.
Undo(p) ==
    /\ At(p, "undo")
    /\ row' = IF ~Restorable THEN row
              ELSE IF p = "deleter"
                   THEN [row EXCEPT !.status = "suspended", !.version = @ + 1]
                   ELSE [row EXCEPT !.status = Saw(p).status]
    /\ Finish(p)
    /\ UNCHANGED <<now, container, periods, refunds, begun, histories>>

\* The page of the instance quotes after the deletion.
QuoteRemoval(p) ==
    /\ At(p, "quote")
    /\ proc' = [proc EXCEPT ![p].step = "settle", ![p].quote = Quote]
    /\ UNCHANGED <<now, row, container, periods, refunds, begun, histories>>

\* The transaction that pays the refund; an administrator's deletion goes on to
\* the host only then.
Settle(p) ==
    /\ At(p, "settle")
    /\ refunds' = refunds + (IF proc[p].quote > 0 THEN 1 ELSE 0)
    /\ IF proc[p].kind = "adminRemove" THEN Goto(p, "release") ELSE Finish(p)
    /\ UNCHANGED <<now, row, container, periods, begun, histories>>

SettleFails(p) ==
    /\ At(p, "settle") /\ proc[p].kind = "adminRemove"
    /\ Goto(p, "undo")
    /\ UNCHANGED <<now, row, container, periods, refunds, begun, histories>>

\* An error of the host, or the choice to leave it alone, does not matter here.
Release(p) ==
    /\ At(p, "release")
    /\ container' \in {container, Without(Saw(p).incusId)}
    /\ Finish(p)
    /\ UNCHANGED <<now, row, periods, refunds, begun, histories>>

-------------------------------------------------------------------------------
(* Tasks and the status synchronisation *)

\* Start, stop and restart tasks, for one of which any status will do (a stop of a
\* suspended instance, a start of a deleted one), and tasks that recreate.
StartTask(h, kind) ==
    /\ kind = "recreate" => row.status # "suspended"
    /\ ~TaskActive
    /\ Arrives(h, kind, "work", NoGrant, 0)

\* The container the row names.
Present == container.status # "gone" /\ container.incusId = row.incusId

\* A task is not claimed while the row says deleted.
Work(p) ==
    /\ At(p, "work") /\ proc[p].kind = "power"
    /\ row.status # "deleted" /\ Present
    /\ \E status \in {"running", "stopped"} :
           /\ container' = [container EXCEPT !.status = status]
           /\ proc' = [proc EXCEPT ![p].step = "result", ![p].seen = status]
    /\ UNCHANGED <<now, row, periods, refunds, begun, histories>>

Writable == row.status \notin {"deleted", "suspended"}

\* updateInstanceStatus.
Result(p) ==
    /\ At(p, "result") /\ proc[p].kind = "power"
    /\ row' = IF Writable THEN [row EXCEPT !.status = proc[p].seen] ELSE row
    /\ Finish(p)
    /\ UNCHANGED <<now, container, periods, refunds, begun, histories>>

\* A recreation reads the row again, deletes the container it names, creates one
\* with a new name and writes that name.
Recreate(p) ==
    /\ At(p, "work") /\ proc[p].kind = "recreate"
    /\ row.status # "deleted"
    /\ proc' = [proc EXCEPT ![p].step = "wipe", ![p].saw = row]
    /\ UNCHANGED <<now, row, container, periods, refunds, begun, histories>>

Wipe(p) ==
    /\ At(p, "wipe")
    /\ container' = Without(Saw(p).incusId)
    /\ Goto(p, "create")
    /\ UNCHANGED <<now, row, periods, refunds, begun, histories>>

NewContainer == [status |-> "running", incusId |-> container.incusId + 1]

Create(p) ==
    /\ At(p, "create")
    /\ container' = NewContainer
    /\ Goto(p, "result")
    /\ UNCHANGED <<now, row, periods, refunds, begun, histories>>

\* It may have been created all the same; only what was reported is cleaned up.
CreateFails(p) ==
    /\ At(p, "create")
    /\ container' \in {container, NewContainer}
    /\ Goto(p, "fail")
    /\ UNCHANGED <<now, row, periods, refunds, begun, histories>>

\* The row is running again, whatever it was.
Recreated(p) ==
    /\ At(p, "result") /\ proc[p].kind = "recreate"
    /\ row' = [row EXCEPT !.status = "running", !.incusId = container.incusId]
    /\ CountReopened
    /\ Finish(p)
    /\ UNCHANGED <<now, container, periods, refunds, begun, torn, crossed>>

\* The start, or the update of the row, fails.
RecreateFails(p) ==
    /\ At(p, "result") /\ proc[p].kind = "recreate"
    /\ Goto(p, "cleanup")
    /\ UNCHANGED <<now, row, container, periods, refunds, begun, histories>>

Cleanup(p) ==
    /\ At(p, "cleanup")
    /\ container' \in {container, Without(container.incusId)}
    /\ Goto(p, "fail")
    /\ UNCHANGED <<now, row, periods, refunds, begun, histories>>

\* The row is in error, whatever it was.
MarkError(p) ==
    /\ At(p, "fail")
    /\ row' = [row EXCEPT !.status = "error"]
    /\ torn' = TRUE
    /\ CountReopened
    /\ Finish(p)
    /\ UNCHANGED <<now, container, periods, refunds, begun, crossed>>

\* syncInstanceStatus: the row was read, then the host is asked; while a task is
\* active nothing is concluded.
StartSync ==
    /\ row.status \in {"running", "stopped", "error"}
    /\ Fires("sync", "look", NoGrant)

Look ==
    /\ At("sync", "look")
    /\ IF TaskActive THEN Finish("sync")
       ELSE proc' = [proc EXCEPT !["sync"].step = "apply", !["sync"].seen = Answer(Saw("sync").incusId)]
    /\ UNCHANGED <<now, row, container, periods, refunds, begun, histories>>

StillAsRead ==
    row.status = Saw("sync").status /\ row.incusId = Saw("sync").incusId

\* A container that is not found makes the row deleted, whatever it is by now, unless
\* it was read in error; a status is only written over the status read.
Apply ==
    /\ At("sync", "apply")
    /\ row' = IF proc["sync"].seen # "gone"
              THEN IF StillAsRead THEN [row EXCEPT !.status = proc["sync"].seen] ELSE row
              ELSE IF Saw("sync").status = "error" THEN row ELSE [row EXCEPT !.status = "deleted"]
    /\ Finish("sync")
    /\ UNCHANGED <<now, container, periods, refunds, begun, histories>>

-------------------------------------------------------------------------------
\* A recreation is between the deletion of the old container and the row.
HalfWay(p) ==
    \/ proc[p].step \in {"create", "cleanup", "fail"}
    \/ At(p, "result") /\ proc[p].kind = "recreate"

\* The process dies or throws: nothing takes up what it was doing.
GiveUp(p) ==
    /\ ~At(p, "idle")
    /\ Finish(p)
    /\ torn' = (torn \/ HalfWay(p))
    /\ UNCHANGED <<now, row, container, periods, refunds, begun, reopened, crossed>>

Tick ==
    /\ now < MaxTime
    /\ now' = now + 1
    /\ UNCHANGED <<row, container, periods, refunds, proc, begun, histories>>

Arrive(h) ==
    \/ StartRenew(h) \/ StartExtend(h) \/ StartSuspend(h) \/ StartUnsuspend(h)
    \/ StartDestroy(h) \/ StartRemove(h) \/ StartAdminRemove(h)
    \/ \E kind \in {"power", "recreate"} : StartTask(h, kind)

Fire == AutoRenew \/ SuspendExpired \/ ListExpired \/ StartSync

Continue(p) ==
    \/ Renew(p) \/ RenewRefused(p) \/ Extend(p)
    \/ StopFirst(p) \/ Suspend(p) \/ Unsuspend(p)
    \/ Claim(p) \/ ClaimRefused(p) \/ DeleteOnHost(p) \/ DeleteFails(p) \/ AnswerLost(p)
    \/ Undo(p) \/ QuoteRemoval(p) \/ Settle(p) \/ SettleFails(p) \/ Release(p)
    \/ Work(p) \/ Result(p)
    \/ Recreate(p) \/ Wipe(p) \/ Create(p) \/ CreateFails(p) \/ Recreated(p)
    \/ RecreateFails(p) \/ Cleanup(p) \/ MarkError(p)

JobStep == StopExpired \/ ClaimExpired \/ Look \/ Apply

Next ==
    \/ \E h \in Handlers : Arrive(h)
    \/ \E p \in Procs : Continue(p) \/ GiveUp(p)
    \/ Fire \/ JobStep
    \/ Tick

Spec == Init /\ [][Next]_vars

-------------------------------------------------------------------------------
(* Properties *)

Extended == \E i \in DOMAIN periods : periods[i].by = "extend"

\* Nobody pays twice for the same time: however renewals on the page, in a batch,
\* over the API and by the job meet, the periods they are charged for do not
\* overlap.  (An extension by hand does not change the version: see the README.)
PeriodsDisjoint ==
    Extended \/ \A i, j \in DOMAIN periods : i < j => periods[i].end <= periods[j].start

\* The expiry job asks for the suspension and the version, never for the expiry. Still
\* it deletes only what nobody has paid for beyond that moment. Exceptions: an extension
\* by hand, which does not move the version, was written over a row whose expiry had
\* moved or that had been suspended on expiry or deleted since it was read, or a renewal
\* over an extension (crossed); a deleted row was taken or written again (reopened).
SparesPaid ==
    [][ClaimExpired => \/ \A i \in DOMAIN periods : periods[i].end < now
                       \/ crossed \/ reopened > 0]_vars

\* An instance that is not deleted has the container its row names, whichever deletions
\* race and are undone. Exceptions: while a recreation is between the deletion of the old
\* container and the row, and after it ended there; after the host's answer to a
\* deletion was lost (both torn); after a deleted row was taken or written again.
LiveHasContainer ==
    \/ row.status = "deleted" \/ Present
    \/ \E h \in Handlers : HalfWay(h)
    \/ torn \/ reopened > 0

\* The customer is refunded for the deletion once, and once more at most for every time
\* a deletion took a row it had read as deleted (the page of the instance does not test),
\* or somebody wrote over a deleted row. No other meeting of deletions pays twice.
RefundedOnce == refunds <= 1 + reopened

\* As long as the row is not deleted, no refund was paid but one for each of these times:
\* no deletion that is undone, job or task result returns what was refunded otherwise.
RefundedMeansGone == row.status # "deleted" => refunds <= reopened
===============================================================================
