--------------------------- MODULE InstanceTransfer ---------------------------
(***************************************************************************)
(* Handing one instance from user to user.  A transfer row moves           *)
(*     pending -> processing -> accepted,  back to pending on a failure,   *)
(*     pending -> rejected | cancelled (then a second transaction refunds  *)
(*     the fee the sender paid when the row was created).                  *)
(* "processing" is the only lock: the request that set it renames the      *)
(* container on its Incus host and then writes owner and name in one       *)
(* transaction.  No database lock spans those steps, so requests of other  *)
(* users, the owner's destroy request, the sweep for transfers stuck for   *)
(* 30 minutes and a crash with its start-up cleanup come in between.       *)
(*                                                                         *)
(* Each step is one database transaction or one call to the host.  What a  *)
(* finished transfer deletes with the instance (port mappings, snapshots,  *)
(* backups, policies) is not state here.                                   *)
(***************************************************************************)
EXTENDS Integers, Sequences, FiniteSets, Functions

CONSTANTS
    Users,
    Seller,         \* whose instance it is to begin with
    Handlers,       \* requests the server works on at a time
    MaxTransfers,   \* bound: rows ever created
    MaxNames,       \* bound: container names ever generated
    MaxUpsets,      \* bound: crashes, and rows the sweep takes from requests still at
                    \* work, together
    None

ASSUME InstanceTransferAssumption ==
    /\ MaxTransfers \in Nat
    /\ MaxNames \in Nat
    /\ MaxUpsets \in Nat
    /\ Seller \in Users
    /\ IsFiniteSet(Handlers)
    /\ None \notin Users \cup Nat

VARIABLES
    owner,      \* instances.user_id
    alive,      \* instances.status is not deleted
    incusId,    \* instances.incus_id: the container's name as the database has it
    hostName,   \* the container's name on the host, None once it is deleted
    transfers,  \* instance_transfers, oldest first
    refunds,    \* transfer_refund rows written for each of them
    req,        \* each request: its next step, transfer and user, and the old
                \* and new container names it works with
    overtaken,  \* history: how often a clean-up took each of them while a
                \* request was at work on it
    names,      \* container names generated so far
    booting,    \* the server restarted and has not run cleanupStaleTransfers
    restarts

instance == <<owner, alive, incusId, hostName>>
vars == <<instance, transfers, refunds, req, overtaken, names, booting, restarts>>

Statuses == {"pending", "processing", "accepted", "rejected", "cancelled"}
Steps == {"idle", "create", "check", "rename", "execute", "unrename", "release",
          "refund", "claimDestroy", "delete", "undelete", "cancelOpen"}
Names == 0..MaxNames
NoRequest == [step |-> "idle", transfer |-> 0, user |-> None, old |-> 0, new |-> 0]
Ids == DOMAIN transfers
Open == {i \in Ids : transfers[i].status \in {"pending", "processing"}}

TypeOK ==
    /\ owner \in Users
    /\ alive \in BOOLEAN
    /\ incusId \in Names
    /\ hostName \in Names \cup {None}
    /\ transfers \in Seq([status : Statuses, from : Users, to : Users])
    /\ Len(transfers) <= MaxTransfers
    /\ refunds \in [1..MaxTransfers -> Nat]
    /\ req \in [Handlers -> [step : Steps, transfer : Ids \cup {0},
                              user : Users \cup {None}, old : Names, new : Names]]
    /\ overtaken \in [1..MaxTransfers -> Nat]
    /\ names \in Names
    /\ booting \in BOOLEAN
    /\ restarts \in Nat

Init ==
    /\ owner = Seller
    /\ alive = TRUE
    /\ incusId = 0
    /\ hostName = 0
    /\ transfers = <<>>
    /\ refunds = [i \in 1..MaxTransfers |-> 0]
    /\ req = [h \in Handlers |-> NoRequest]
    /\ overtaken = [i \in 1..MaxTransfers |-> 0]
    /\ names = 0
    /\ booting = FALSE
    /\ restarts = 0

-------------------------------------------------------------------------------
(* Steps of a request *)

At(h, step) == req[h].step = step
Goto(h, step) == req' = [req EXCEPT ![h].step = step]
Finish(h) == req' = [req EXCEPT ![h] = NoRequest]
SetStatus(i, status) == transfers' = [transfers EXCEPT ![i].status = status]

\* A request arrives: an idle handler takes it, after a start too, when the
\* clean-up has yet to run.
Serving(h) == At(h, "idle")

server == <<overtaken, names, booting, restarts>>

\* POST .../transfer up to the transaction: the instance is the user's own and
\* has no open transfer; a long run of reads follows.
StartCreate(h, u) ==
    /\ Serving(h)
    /\ u = owner /\ alive /\ Open = {}
    /\ req' = [req EXCEPT ![h].step = "create", ![h].user = u]
    /\ UNCHANGED <<instance, transfers, refunds, server>>

MayCreate == Open = {}

\* Mutant: the row is written without its sender.
Sender_unset(h) == None

Sender(h) == req[h].user

\* createTransferWithFee: under the instance's advisory lock, no open transfer,
\* take the fee and insert the row.
FinishCreate(h, v) ==
    /\ At(h, "create")
    /\ v # req[h].user
    /\ MayCreate
    /\ Len(transfers) < MaxTransfers
    /\ transfers' = Append(transfers,
                           [status |-> "pending", from |-> Sender(h), to |-> v])
    /\ Finish(h)
    /\ UNCHANGED <<instance, refunds, server>>

\* Mutant: only an accepted transfer is refused.
Pending_notAccepted(i) == transfers[i].status # "accepted"

\* The WHERE clause of the conditional updates.
Pending(i) == transfers[i].status = "pending"

\* One conditional update makes the request the only worker.
Claim(h, i) ==
    /\ Serving(h)
    /\ Pending(i)
    /\ SetStatus(i, "processing")
    /\ req' = [req EXCEPT ![h].step = "check", ![h].transfer = i]
    /\ UNCHANGED <<instance, refunds, server>>

Accept(h, i) == Claim(h, i)   \* by the receiver
Push(h, i) == Claim(h, i)     \* by the sender, without asking the receiver

\* The instance is gone: cancelTransfer, whatever the row says, and no refund.
CheckGone(h) ==
    /\ At(h, "check") /\ ~alive
    /\ SetStatus(req[h].transfer, "cancelled")
    /\ Finish(h)
    /\ UNCHANGED <<instance, refunds, server>>

\* It runs, or its host cannot be reached: put the row back.
CheckRefused(h) ==
    /\ At(h, "check") /\ alive
    /\ Goto(h, "release")
    /\ UNCHANGED <<instance, transfers, refunds, server>>

\* It is stopped: note its name, generate another.
CheckPassed(h) ==
    /\ At(h, "check") /\ alive
    /\ names < MaxNames
    /\ names' = names + 1
    /\ req' = [req EXCEPT ![h].step = "rename", ![h].old = incusId,
                          ![h].new = names + 1]
    /\ UNCHANGED <<instance, transfers, refunds, overtaken, booting, restarts>>

\* The host renames the container and says so.
Renamed(h) ==
    /\ At(h, "rename") /\ hostName = req[h].old
    /\ hostName' = req[h].new
    /\ Goto(h, "execute")
    /\ UNCHANGED <<owner, alive, incusId, transfers, refunds, server>>

\* Mutant: a failed rename is logged and ignored.
AfterFailedRename_ignored == "execute"

AfterFailedRename == "release"

\* The call fails: the host refused it, or did it and the answer was lost.
RenameFails(h) ==
    /\ At(h, "rename")
    /\ \/ UNCHANGED hostName
       \/ hostName = req[h].old /\ hostName' = req[h].new
    /\ Goto(h, AfterFailedRename)
    /\ UNCHANGED <<owner, alive, incusId, transfers, refunds, server>>

\* executeTransfer commits: owner, name and status in one transaction, whatever
\* the row says by now.
Execute(h) ==
    /\ At(h, "execute")
    /\ owner' = transfers[req[h].transfer].to
    /\ incusId' = req[h].new
    /\ SetStatus(req[h].transfer, "accepted")
    /\ Finish(h)
    /\ UNCHANGED <<alive, hostName, refunds, server>>

\* executeTransfer throws (a serialization failure, its 10 s timeout).
ExecuteFails(h) ==
    /\ At(h, "execute")
    /\ Goto(h, "unrename")
    /\ UNCHANGED <<instance, transfers, refunds, server>>

\* The container gets its old name back, or that fails too and is only logged.
Unrename(h) ==
    /\ At(h, "unrename")
    /\ \/ hostName = req[h].new /\ hostName' = req[h].old
       \/ UNCHANGED hostName
    /\ Goto(h, "release")
    /\ UNCHANGED <<owner, alive, incusId, transfers, refunds, server>>

\* rollbackToPending: an update by id, whatever the row says.
Release(h) ==
    /\ At(h, "release")
    /\ SetStatus(req[h].transfer, "pending")
    /\ Finish(h)
    /\ UNCHANGED <<instance, refunds, server>>

\* reject and cancel: one conditional update; the refund is a transaction of its
\* own that follows.
End(h, i, status) ==
    /\ Serving(h)
    /\ Pending(i)
    /\ SetStatus(i, status)
    /\ req' = [req EXCEPT ![h].step = "refund", ![h].transfer = i]
    /\ UNCHANGED <<instance, refunds, server>>

Reject(h, i) == End(h, i, "rejected")
Cancel(h, i) == End(h, i, "cancelled")

\* refundTransferFee commits.
Refund(h) ==
    /\ At(h, "refund")
    /\ refunds' = [refunds EXCEPT ![req[h].transfer] = @ + 1]
    /\ Finish(h)
    /\ UNCHANGED <<instance, transfers, server>>

-------------------------------------------------------------------------------
(* The owner destroys the instance *)

\* The route reads the instance: the user owns it.  Open transfers are not
\* looked at.
StartDestroy(h, u) ==
    /\ Serving(h)
    /\ u = owner /\ alive
    /\ req' = [req EXCEPT ![h].step = "claimDestroy", ![h].user = u,
                          ![h].old = incusId]
    /\ UNCHANGED <<instance, transfers, refunds, server>>

\* claimInstanceForUserDestroy: marked deleted if it still is the user's, else
\* the request is refused.
ClaimDestroy(h) ==
    /\ At(h, "claimDestroy")
    /\ IF owner = req[h].user /\ alive
       THEN alive' = FALSE /\ Goto(h, "delete")
       ELSE UNCHANGED alive /\ Finish(h)
    /\ UNCHANGED <<owner, incusId, hostName, transfers, refunds, server>>

\* Mutant: the name is read again when the container is deleted.
DestroyTarget_reread(h) == incusId

\* The name read with the ownership check, before the claim.
DestroyTarget(h) == req[h].old

\* The host deletes the container of that name; none of that name (404) counts
\* as deleted.
DeleteContainer(h) ==
    /\ At(h, "delete")
    /\ hostName' = IF hostName = DestroyTarget(h) THEN None ELSE hostName
    /\ Goto(h, "cancelOpen")
    /\ UNCHANGED <<owner, alive, incusId, transfers, refunds, server>>

\* The host fails, before or after it deleted the container.
DeleteFails(h) ==
    /\ At(h, "delete")
    /\ \/ UNCHANGED hostName
       \/ hostName = DestroyTarget(h) /\ hostName' = None
    /\ Goto(h, "undelete")
    /\ UNCHANGED <<owner, alive, incusId, transfers, refunds, server>>

\* restoreClaimedInstanceStatus.
Undelete(h) ==
    /\ At(h, "undelete")
    /\ alive' = (alive \/ owner = req[h].user)
    /\ Finish(h)
    /\ UNCHANGED <<owner, incusId, hostName, transfers, refunds, server>>

\* Pending transfers are cancelled with no refund; processing ones stay.
CancelOpen(h) ==
    /\ At(h, "cancelOpen")
    /\ transfers' = [i \in Ids |-> IF Pending(i)
                                   THEN [transfers[i] EXCEPT !.status = "cancelled"]
                                   ELSE transfers[i]]
    /\ Finish(h)
    /\ UNCHANGED <<instance, refunds, server>>

-------------------------------------------------------------------------------
(* Failures and maintenance *)

\* A database statement fails and the request ends there: the transaction is
\* refused (create, refund, claimDestroy), nothing catches the error (check,
\* undelete) or it is only logged (release, cancelOpen).
GiveUp(h) ==
    /\ req[h].step \in {"create", "check", "release", "refund", "claimDestroy",
                  "undelete", "cancelOpen"}
    /\ Finish(h)
    /\ UNCHANGED <<instance, transfers, refunds, server>>

\* The steps in which a request works on the row it set to processing.
Working == {"check", "rename", "execute", "unrename", "release"}
Workers(i) == {h \in Handlers : req[h].step \in Working /\ req[h].transfer = i}

\* Mutant: the comparison with updated_at is the wrong way round.
TimedOut_reversed(i) == \E h \in Workers(i) : At(h, "check")

\* 30 minutes went by since the row was last written.  That cannot be while a
\* request that has just claimed it looks at the instance; the wait for the host
\* begins later and is as long as the limit.
TimedOut(i) == \A h \in Workers(i) : ~At(h, "check")

\* A clean-up meets a row in processing.
Stuck(i) == transfers[i].status = "processing"

\* What taking it back adds to its history.
Loss(i) == IF Workers(i) = {} THEN 0 ELSE 1

Overtakings == FoldFunction(LAMBDA m, n : m + n, 0, overtaken)
MayUpset == restarts + Overtakings < MaxUpsets

\* cleanupTimeoutTransfers, every five minutes, whether a request is at work or not.
Sweep(i) ==
    /\ ~booting
    /\ Stuck(i) /\ TimedOut(i)
    /\ Workers(i) # {} => MayUpset
    /\ SetStatus(i, "pending")
    /\ overtaken' = [overtaken EXCEPT ![i] = @ + Loss(i)]
    /\ UNCHANGED <<instance, refunds, req, names, booting, restarts>>

\* The process dies; a rename on its way to the host may still happen.
Crash ==
    /\ MayUpset
    /\ restarts' = restarts + 1
    /\ booting' = TRUE
    /\ hostName' \in {hostName} \cup
           {req[h].new : h \in {k \in Handlers : At(k, "rename") /\ hostName = req[k].old}}
    /\ req' = [h \in Handlers |-> NoRequest]
    /\ UNCHANGED <<owner, alive, incusId, transfers, refunds, overtaken, names>>

\* cleanupStaleTransfers, once after a start: the rows requests of before the
\* crash left, and those that requests claimed since.
BootCleanup ==
    /\ booting
    /\ booting' = FALSE
    /\ transfers' = [i \in Ids |-> IF Stuck(i)
                                   THEN [transfers[i] EXCEPT !.status = "pending"]
                                   ELSE transfers[i]]
    /\ overtaken' = [i \in DOMAIN overtaken |->
                        IF i \in Ids /\ Stuck(i) THEN overtaken[i] + Loss(i)
                                               ELSE overtaken[i]]
    /\ UNCHANGED <<instance, refunds, req, names, restarts>>

-------------------------------------------------------------------------------
Worker(h) ==
    \/ CheckGone(h) \/ CheckRefused(h) \/ CheckPassed(h)
    \/ Renamed(h) \/ RenameFails(h)
    \/ Execute(h) \/ ExecuteFails(h) \/ Unrename(h) \/ Release(h)

Destroyer(h) ==
    \/ ClaimDestroy(h) \/ DeleteContainer(h) \/ DeleteFails(h) \/ Undelete(h)
    \/ CancelOpen(h)

Continue(h) ==
    \/ \E v \in Users : FinishCreate(h, v)
    \/ Worker(h) \/ Refund(h) \/ Destroyer(h) \/ GiveUp(h)

Arrive(h) ==
    \/ \E u \in Users : StartCreate(h, u) \/ StartDestroy(h, u)
    \/ \E i \in Ids : Accept(h, i) \/ Push(h, i) \/ Reject(h, i) \/ Cancel(h, i)

Next ==
    \/ \E h \in Handlers : Arrive(h) \/ Continue(h)
    \/ \E i \in Ids : Sweep(i)
    \/ Crash
    \/ BootCleanup

Spec == Init /\ [][Next]_vars

\* A request that has begun goes on: every await settles (the Incus client gives
\* up on an operation after 30 minutes, a transaction after 10 seconds).  A
\* server that went down is started again, and setInterval runs the sweep.
FairSpec ==
    /\ Spec
    /\ \A h \in Handlers : WF_vars(Continue(h))
    /\ \A i \in 1..MaxTransfers : WF_vars(i \in Ids /\ Sweep(i))
    /\ WF_vars(BootCleanup)

-------------------------------------------------------------------------------
(* Properties *)

Count(condition) == IF condition THEN 1 ELSE 0

\* A clean-up may give the row of a request at work to another, yet only one
\* request at a time has renamed the container and goes on to hand the instance
\* over: the other's rename finds no container of the name it read.
HandsOverAlone ==
    \A h, k \in Handlers :
        (req[h].step \in {"execute", "unrename"} /\ req[k].step \in {"execute", "unrename"})
            => h = k

\* The fee a sender paid is settled once, by the refund of a rejected or cancelled
\* transfer or by the transfer itself, and while the row is open nothing is
\* refunded yet.  Every settlement beyond that takes one clean-up that gave the
\* row of a request at work to somebody else.
FeeSettledOnce ==
    \A i \in Ids :
        refunds[i] + Count(transfers[i].status \in {"pending", "processing", "accepted"})
            <= 1 + overtaken[i]

\* When executeTransfer gives the new owner the instance, the container has the
\* name that is recorded: no destroy, crash or other accept has moved it between
\* the rename and the transaction.
RecordedNameIsReal ==
    [][\A i \in Ids :
         transfers[i].status # "accepted" /\ transfers'[i].status = "accepted"
             => hostName = incusId']_vars

\* A container is only ever deleted for the user who owns the instance at that
\* moment, though the destroy request read the name before its claim and the
\* instance may change hands while the request waits for the host.
DestroysOwn ==
    [][hostName # None /\ hostName' = None =>
         /\ ~alive
         /\ \E h \in Handlers : At(h, "delete") /\ req[h].user = owner]_vars

\* A transfer is not stuck in processing: its request, the sweep or the next
\* start ends that.
ProcessingEnds ==
    \A i \in 1..MaxTransfers :
        (i \in Ids /\ transfers[i].status = "processing")
            ~> (i \in Ids /\ transfers[i].status # "processing")

\* An open transfer offers an instance that is its sender's own: the route checks
\* the ownership and createTransferWithFee relies on it.
OnlyOwnInstance ==
    alive => \A i \in Open : transfers[i].from = owner
===============================================================================
