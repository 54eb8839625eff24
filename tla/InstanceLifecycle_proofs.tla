----------------------- MODULE InstanceLifecycle_proofs -----------------------
(***************************************************************************)
(* For any number of requests, periods and versions: renewals never charge *)
(* for the same time twice.  The version orders them, since whatever moves *)
(* the expiry, but for an extension by hand, increments it.                *)
(*                                                                         *)
(* Refunds are counted together with the deletions that may still pay:     *)
(* both never exceed the times the row became deleted and stayed so, and   *)
(* the times somebody reopened a deleted one.  As long as nobody did, a    *)
(* claim makes the row its own until it ends or is undone; what it does to *)
(* the container and what it gives back follow from that.                  *)
(***************************************************************************)
EXTENDS TLAPS, FiniteSetTheorems, InstanceLifecycle

ProcType == [kind : Kinds, step : Steps, saw : Rows, grant : Grants,
             quote : 0..Len(periods), seen : Containers]

TaskKinds == {"power", "recreate"}

\* What a process at a step is.
KindOK(r, p) ==
    /\ r.step \in {"wipe", "create", "cleanup", "fail"} => r.kind = "recreate"
    /\ r.step \in {"work", "result"} => r.kind \in TaskKinds
    /\ r.step = "quote" => r.kind = "remove"
    /\ r.step \in {"look", "apply"} => r.saw.status # "deleted"
    /\ r.kind \in TaskKinds => p \in Handlers

\* ... and of tasks there is one at a time.
KindInv ==
    /\ \A p \in Procs : KindOK(proc[p], p)
    /\ \A g, h \in Handlers : proc[g].kind \in TaskKinds /\ proc[h].kind \in TaskKinds => g = h

HistoriesOK == reopened \in Nat /\ torn \in BOOLEAN /\ crossed \in BOOLEAN

\* What holds beside the rest and is proved first.
Sides == KindInv /\ HistoriesOK

\* What a process at these steps was given to grant or has seen.
GrantInv ==
    \A p \in Procs : /\ At(p, "renew") => proc[p].grant.by = "renew" /\ Saw(p).version <= row.version
                     /\ At(p, "extend") => proc[p].grant.by = "extend"
                     /\ proc[p].step \in {"renew", "extend"} => Saw(p).expiresAt <= proc[p].grant.end
                     /\ At(p, "result") => proc[p].seen # "gone" \/ proc[p].kind = "recreate"

\* A renewal that read the row's version read the row's expiry.
RenewInv ==
    \A p \in Procs : At(p, "renew") =>
        /\ Saw(p).version = row.version => proc[p].grant.start = row.expiresAt
        /\ proc[p].grant.start <= proc[p].grant.end

\* Nothing was paid for beyond the expiry.
PaidUntilExpiry == \A i \in DOMAIN periods : periods[i].end <= row.expiresAt

Disjoint == \A i, j \in DOMAIN periods : i < j => periods[i].end <= periods[j].start

IInv == TypeOK /\ KindInv /\ GrantInv /\ (Extended \/ (RenewInv /\ PaidUntilExpiry /\ Disjoint))

-------------------------------------------------------------------------------
(* Types *)

\* The shapes of a process's record.
LEMMA Shapes ==
  /\ \A n \in Nat : Fresh(n) \in Rows
  /\ NoGrant \in Grants
  /\ TypeOK => /\ proc \in [Procs -> ProcType] /\ Len(periods) \in Nat /\ NoProc \in ProcType
               /\ \A r \in ProcType, s \in Steps : [r EXCEPT !.step = s] \in ProcType
<1>1. \A n \in Nat : Fresh(n) \in Rows
  BY DEF Fresh, Rows, Statuses, Reasons
<1>2. NoGrant \in Grants
  BY DEF NoGrant, Grants
<1>3. ASSUME TypeOK
      PROVE  proc \in [Procs -> ProcType] /\ Len(periods) \in Nat
  BY <1>3 DEF TypeOK, ProcType
<1>4. ASSUME TypeOK PROVE NoProc \in ProcType
  BY <1>1, <1>2, <1>3, <1>4 DEF NoProc, ProcType, Kinds, Steps, Containers
<1>5. \A r \in ProcType, s \in Steps : [r EXCEPT !.step = s] \in ProcType
  BY DEF ProcType
<1>6. QED
  BY <1>1, <1>2, <1>3, <1>4, <1>5

\* The other processes stay where they are.
Others(p) == \A q \in Procs : q # p => proc'[q] = proc[q]

\* Where a process goes.
LEMMA Goes ==
  ASSUME TypeOK, NEW p \in Procs, NEW s
  PROVE  /\ Goto(p, s) => /\ Others(p) /\ proc'[p].step = s
                          /\ proc'[p].kind = proc[p].kind /\ proc'[p].saw = proc[p].saw
         /\ Finish(p) => /\ Others(p) /\ proc'[p].step = "idle" /\ proc'[p].kind = "none"
                         /\ proc'[p].saw = Fresh(0)
<1>1. proc \in [Procs -> ProcType] /\ proc[p] \in ProcType
  BY Shapes
<1>2. ASSUME Goto(p, s)
      PROVE  /\ Others(p) /\ proc'[p].step = s
             /\ proc'[p].kind = proc[p].kind /\ proc'[p].saw = proc[p].saw
  <2>1. Others(p) /\ proc'[p] = [proc[p] EXCEPT !.step = s]
    BY <1>1, <1>2 DEF Goto, Others
  <2>2. QED
    BY <1>1, <2>1 DEF ProcType
<1>3. Finish(p) => /\ Others(p) /\ proc'[p].step = "idle" /\ proc'[p].kind = "none"
                   /\ proc'[p].saw = Fresh(0)
  BY <1>1 DEF Finish, Others, NoProc
<1>4. QED
  BY <1>2, <1>3

\* A request or a task has arrived, a job's timer has fired.
LEMMA Begins ==
  ASSUME TypeOK
  PROVE  /\ \A h \in Handlers : \A kind, step, g, quote :
                Arrives(h, kind, step, g, quote) =>
                    /\ h \in Procs /\ Others(h) /\ proc'[h].kind = kind /\ proc'[h].step = step
                    /\ proc'[h].saw = row /\ proc'[h].grant = g
         /\ \A j \in Jobs : \A step, g :
                Fires(j, step, g) =>
                    /\ j \in Procs /\ Others(j) /\ proc'[j].kind = "job" /\ proc'[j].step = step
                    /\ proc'[j].saw = row /\ proc'[j].grant = g
<1>1. proc \in [Procs -> ProcType]
  BY Shapes
<1>2. QED
  BY <1>1 DEF Arrives, Fires, Others, Procs

\* A process asks the host, a recreation reads the row again.
LEMMA Looks ==
  ASSUME TypeOK, NEW p \in Procs
  PROVE  /\ QuoteRemoval(p) => /\ Others(p) /\ proc'[p].step = "settle"
                               /\ proc'[p].kind = proc[p].kind /\ proc'[p].saw = proc[p].saw
         /\ Work(p) => /\ Others(p) /\ proc'[p].step = "result"
                       /\ proc'[p].kind = proc[p].kind /\ proc'[p].saw = proc[p].saw
         /\ Recreate(p) => /\ Others(p) /\ proc'[p].step = "wipe"
                           /\ proc'[p].kind = proc[p].kind /\ proc'[p].saw = row
         /\ Look /\ p = "sync" =>
                \/ /\ Others(p) /\ proc'[p].step = "apply"
                   /\ proc'[p].kind = proc[p].kind /\ proc'[p].saw = proc[p].saw
                \/ Finish(p)
<1>1. proc \in [Procs -> ProcType] /\ proc[p] \in ProcType
  BY Shapes
<1>2. ASSUME NEW r, proc' = [proc EXCEPT ![p] = r] PROVE Others(p) /\ proc'[p] = r
  BY <1>1, <1>2 DEF Others
<1>3. CASE QuoteRemoval(p)
  <2>1. Others(p) /\ proc'[p] = [proc[p] EXCEPT !.step = "settle", !.quote = Quote]
    BY <1>1, <1>3 DEF QuoteRemoval, Others
  <2>2. QED
    BY <1>1, <1>3, <2>1 DEF ProcType, QuoteRemoval, Work, Recreate, Look, At
<1>4. CASE Work(p)
  <2>1. PICK st \in {"running", "stopped"} : proc' = [proc EXCEPT ![p].step = "result", ![p].seen = st]
    BY <1>4 DEF Work
  <2>2. Others(p) /\ proc'[p] = [proc[p] EXCEPT !.step = "result", !.seen = st]
    BY <1>1, <2>1 DEF Others
  <2>3. QED
    BY <1>1, <1>4, <2>2 DEF ProcType, QuoteRemoval, Work, Recreate, Look, At
<1>5. CASE Recreate(p)
  <2>1. Others(p) /\ proc'[p] = [proc[p] EXCEPT !.step = "wipe", !.saw = row]
    BY <1>1, <1>5 DEF Recreate, Others
  <2>2. QED
    BY <1>1, <1>5, <2>1 DEF ProcType, QuoteRemoval, Work, Recreate, Look, At
<1>6. CASE Look /\ p = "sync" /\ ~Finish(p)
  <2>1. Others(p) /\ proc'[p] = [proc[p] EXCEPT !.step = "apply", !.seen = Answer(Saw("sync").incusId)]
    BY <1>1, <1>6 DEF Look, Others
  <2>2. QED
    BY <1>1, <1>6, <2>1 DEF ProcType, QuoteRemoval, Work, Recreate, Look, At
<1>7. QED
  BY <1>3, <1>4, <1>5, <1>6

-------------------------------------------------------------------------------
(* What processes are, and the histories *)

\* One process's record changes.
LEMMA OneKind ==
  ASSUME KindInv, NEW p \in Procs, Others(p), KindOK(proc'[p], p),
         proc'[p].kind \in TaskKinds => proc'[p].kind = proc[p].kind \/ ~TaskActive
  PROVE  KindInv'
<1>1. \A q \in Procs : KindOK(proc'[q], q)
  BY DEF KindInv, Others
<1>2. ASSUME NEW g \in Handlers, NEW h \in Handlers,
             proc'[g].kind \in TaskKinds, proc'[h].kind \in TaskKinds
      PROVE  g = h
  <2>1. g \in Procs /\ h \in Procs
    BY DEF Procs
  <2>2. CASE ~TaskActive
    <3>1. \A q \in Handlers : proc[q].kind \notin TaskKinds
      BY <2>2 DEF TaskActive, TaskKinds
    <3>2. QED
      BY <1>2, <2>1, <3>1 DEF Others
  <2>3. CASE TaskActive
    <3>1. proc[g].kind \in TaskKinds /\ proc[h].kind \in TaskKinds
      BY <1>2, <2>1, <2>3 DEF Others
    <3>2. QED
      BY <3>1 DEF KindInv
  <2>4. QED
    BY <2>2, <2>3
<1>3. QED
  BY <1>1, <1>2 DEF KindInv

\* A process that is done.
LEMMA DoneKind ==
  ASSUME TypeOK, KindInv, NEW p \in Procs, Finish(p)
  PROVE  KindInv'
<1>1. Others(p) /\ proc'[p].step = "idle" /\ proc'[p].kind = "none"
  BY Goes
<1>2. KindOK(proc'[p], p)
  BY <1>1 DEF KindOK, TaskKinds
<1>3. QED
  BY <1>1, <1>2, OneKind DEF TaskKinds

\* One that goes on.
LEMMA GoesKind ==
  ASSUME TypeOK, KindInv, NEW p \in Procs, Others(p), proc'[p].kind = proc[p].kind,
         \/ proc'[p].step \in {"suspend", "stop", "delete", "settle", "undo", "release"}
         \/ proc'[p].step = "quote" /\ proc[p].kind = "remove"
         \/ proc'[p].step = "result" /\ proc[p].kind \in TaskKinds
         \/ proc'[p].step \in {"wipe", "create", "cleanup", "fail"} /\ proc[p].kind = "recreate"
         \/ proc'[p].step = "apply" /\ At(p, "look") /\ proc'[p].saw = proc[p].saw
  PROVE  KindInv'
<1>1. KindOK(proc[p], p)
  BY DEF KindInv
<1>2. KindOK(proc'[p], p)
  BY <1>1 DEF KindOK, TaskKinds, At
<1>3. QED
  BY <1>2, OneKind

\* Every step.
LEMMA KindsStep ==
  ASSUME TypeOK, KindInv, [Next]_vars
  PROVE  KindInv'
<1>1. CASE UNCHANGED vars \/ Tick
  BY <1>1 DEF vars, Tick, KindInv
<1>2. ASSUME NEW h \in Handlers, Arrive(h) PROVE KindInv'
  <2>1. ASSUME NEW kind, NEW step \in {"renew", "extend", "stop", "suspend", "unsuspend", "claim"},
               NEW g, NEW quote, Arrives(h, kind, step, g, quote), kind \notin TaskKinds
        PROVE  KindInv'
    <3>1. h \in Procs /\ Others(h) /\ proc'[h].kind = kind /\ proc'[h].step = step
      BY <2>1, Begins
    <3>2. KindOK(proc'[h], h)
      BY <2>1, <3>1 DEF KindOK
    <3>3. QED
      BY <2>1, <3>1, <3>2, OneKind
  <2>2. ASSUME NEW kind \in TaskKinds, StartTask(h, kind) PROVE KindInv'
    <3>1. Arrives(h, kind, "work", NoGrant, 0) /\ ~TaskActive
      BY <2>2 DEF StartTask
    <3>2. h \in Procs /\ Others(h) /\ proc'[h].kind = kind /\ proc'[h].step = "work"
      BY <3>1, Begins
    <3>3. KindOK(proc'[h], h)
      BY <3>2 DEF KindOK
    <3>4. QED
      BY <3>1, <3>2, <3>3, OneKind
  <2>3. CASE StartRenew(h) \/ StartExtend(h) \/ StartSuspend(h) \/ StartUnsuspend(h)
    <3>1. PICK kind \in {"renew", "extend", "suspend", "unsuspend"},
               step \in {"renew", "extend", "stop", "suspend", "unsuspend"} :
                  \E g : Arrives(h, kind, step, g, 0)
      BY <2>3 DEF StartRenew, StartExtend, StartSuspend, StartUnsuspend
    <3>2. QED
      BY <2>1, <3>1 DEF TaskKinds
  <2>4. CASE StartDestroy(h) \/ StartRemove(h) \/ StartAdminRemove(h)
    <3>1. PICK kind \in {"destroy", "remove", "adminRemove"} :
                  \E quote : Arrives(h, kind, "claim", NoGrant, quote)
      BY <2>4 DEF StartDestroy, StartRemove, StartAdminRemove
    <3>2. QED
      BY <2>1, <3>1 DEF TaskKinds
  <2>5. QED
    BY <1>2, <2>2, <2>3, <2>4 DEF Arrive, TaskKinds
<1>3. CASE AutoRenew \/ ListExpired \/ StartSync
  <2>1. PICK j \in Jobs, step \in {"renew", "claim", "look"} :
          (\E g : Fires(j, step, g)) /\ (step = "look" => row.status # "deleted")
    BY <1>3 DEF AutoRenew, ListExpired, StartSync, Jobs
  <2>2. j \in Procs /\ Others(j) /\ proc'[j].kind = "job" /\ proc'[j].step = step /\ proc'[j].saw = row
    BY <2>1, Begins
  <2>3. KindOK(proc'[j], j)
    BY <2>1, <2>2 DEF KindOK, TaskKinds
  <2>4. QED
    BY <2>2, <2>3, OneKind DEF TaskKinds
<1>4. CASE SuspendExpired \/ JobStep
  <2>1. {"suspender", "deleter", "sync"} \subseteq Procs
    BY DEF Procs, Jobs
  <2>2. CASE SuspendExpired \/ ClaimExpired
    <3>1. Goto("suspender", "stop") \/ Goto("deleter", "delete")
      BY <2>2 DEF SuspendExpired, ClaimExpired, Goto
    <3>2. QED
      BY <2>1, <3>1, Goes, GoesKind
  <2>3. CASE Look
    <3>1. At("sync", "look")
      BY <2>3 DEF Look
    <3>2. \/ /\ Others("sync") /\ proc'["sync"].step = "apply"
             /\ proc'["sync"].kind = proc["sync"].kind /\ proc'["sync"].saw = proc["sync"].saw
          \/ Finish("sync")
      BY <2>1, <2>3, Looks
    <3>3. QED
      BY <2>1, <3>1, <3>2, GoesKind, DoneKind
  <2>4. CASE StopExpired \/ Apply
    BY <2>1, <2>4, DoneKind DEF StopExpired, Apply
  <2>5. QED
    BY <1>4, <2>2, <2>3, <2>4 DEF JobStep
<1>5. ASSUME NEW p \in Procs, Continue(p) \/ GiveUp(p) PROVE KindInv'
  <2>1. CASE Finish(p)
    BY <2>1, DoneKind
  <2>2. ASSUME NEW s \in {"suspend", "delete", "settle", "undo", "release"}, Goto(p, s) PROVE KindInv'
    BY <2>2, Goes, GoesKind
  <2>3. CASE StopFirst(p) \/ Claim(p) \/ DeleteFails(p) \/ AnswerLost(p) \/ Settle(p) \/ SettleFails(p)
    BY <2>1, <2>2, <2>3 DEF StopFirst, Claim, DeleteFails, AnswerLost, Settle, SettleFails
  <2>4. CASE DeleteOnHost(p)
    <3>1. Finish(p) \/ Goto(p, "settle") \/ (Goto(p, "quote") /\ proc[p].kind = "remove")
      BY <2>4 DEF DeleteOnHost, AfterDelete
    <3>2. QED
      BY <2>1, <2>2, <3>1, Goes, GoesKind
  <2>5. CASE QuoteRemoval(p)
    BY <2>5, Looks, GoesKind
  <2>6. CASE Work(p) \/ Recreate(p)
    <3>1. (Work(p) => proc[p].kind = "power") /\ (Recreate(p) => proc[p].kind = "recreate")
      BY DEF Work, Recreate
    <3>2. QED
      BY <2>6, <3>1, Looks, GoesKind DEF TaskKinds
  <2>7. CASE Wipe(p) \/ Create(p) \/ CreateFails(p) \/ RecreateFails(p) \/ Cleanup(p)
    <3>1. PICK s \in {"create", "result", "fail", "cleanup"} : Goto(p, s)
      BY <2>7 DEF Wipe, Create, CreateFails, RecreateFails, Cleanup
    <3>2. proc[p].kind = "recreate"
      BY <2>7 DEF KindInv, KindOK, Wipe, Create, CreateFails, RecreateFails, Cleanup, At
    <3>3. QED
      BY <3>1, <3>2, Goes, GoesKind DEF TaskKinds
  <2>8. CASE \/ Renew(p) \/ RenewRefused(p) \/ Extend(p) \/ Suspend(p) \/ Unsuspend(p)
             \/ ClaimRefused(p) \/ Undo(p) \/ Release(p) \/ Result(p) \/ Recreated(p)
             \/ MarkError(p) \/ GiveUp(p)
    BY <2>1, <2>8 DEF Renew, RenewRefused, Extend, Suspend, Unsuspend, ClaimRefused, Undo, Release,
                      Result, Recreated, MarkError, GiveUp
  <2>9. QED
    BY <1>5, <2>3, <2>4, <2>5, <2>6, <2>7, <2>8 DEF Continue
<1>6. QED
  BY <1>1, <1>2, <1>3, <1>4, <1>5 DEF Next, Fire

\* The histories only grow.
Grows == reopened <= reopened' /\ (torn => torn') /\ (crossed => crossed')

LEMMA HistoriesStep ==
  ASSUME HistoriesOK, [Next]_vars
  PROVE  HistoriesOK' /\ Grows
<1>1. ASSUME UNCHANGED histories PROVE HistoriesOK' /\ Grows
  <2>1. reopened' = reopened /\ torn' = torn /\ crossed' = crossed
    BY <1>1 DEF histories
  <2>2. HistoriesOK' /\ reopened <= reopened'
    BY <2>1 DEF HistoriesOK
  <2>3. QED
    BY <2>1, <2>2 DEF Grows
<1>2. ASSUME CountReopened \/ reopened' = reopened \/ (\E p \in Procs : Claim(p)),
             torn' \in BOOLEAN, crossed' \in BOOLEAN, torn => torn', crossed => crossed'
      PROVE  HistoriesOK' /\ Grows
  <2>1. reopened' \in Nat /\ reopened <= reopened'
    BY <1>2 DEF HistoriesOK, CountReopened, Claim
  <2>2. QED
    BY <1>2, <2>1, Zenon DEF HistoriesOK, Grows
<1>3. CASE UNCHANGED vars \/ Tick
  BY <1>1, <1>3 DEF vars, Tick
<1>4. ASSUME NEW h \in Handlers, Arrive(h) PROVE HistoriesOK' /\ Grows
  BY <1>1, <1>4 DEF Arrive, Arrives, StartRenew, StartExtend, StartSuspend, StartUnsuspend,
              StartDestroy, StartRemove, StartAdminRemove, StartTask
<1>5. CASE Fire \/ JobStep
  BY <1>1, <1>5 DEF Fire, AutoRenew, SuspendExpired, ListExpired, StartSync, Fires, JobStep, StopExpired,
                    ClaimExpired, Look, Apply
<1>6. ASSUME NEW p \in Procs, Continue(p) \/ GiveUp(p) PROVE HistoriesOK' /\ Grows
  <2>1. torn \in BOOLEAN /\ crossed \in BOOLEAN
    BY DEF HistoriesOK
  <2>2. CASE Renew(p)
    <3>1. reopened' = reopened /\ torn' = torn /\ crossed' = (crossed \/ ExpiryMoved(p))
      BY <2>2 DEF Renew
    <3>2. crossed' \in BOOLEAN /\ (crossed => crossed')
      BY <3>1, Zenon
    <3>3. torn' \in BOOLEAN /\ (torn => torn')
      BY <2>1, <3>1, Zenon
    <3>4. QED
      BY <1>2, <3>1, <3>2, <3>3
  <2>3. CASE Extend(p)
    <3>1. CountReopened /\ torn' = torn /\ crossed' = (crossed \/ Overtaken(p))
      BY <2>3 DEF Extend
    <3>2. crossed' \in BOOLEAN /\ (crossed => crossed')
      BY <3>1, Zenon
    <3>3. torn' \in BOOLEAN /\ (torn => torn')
      BY <2>1, <3>1, Zenon
    <3>4. QED
      BY <1>2, <3>1, <3>2, <3>3
  <2>4. CASE Suspend(p) \/ Unsuspend(p) \/ Recreated(p) \/ Claim(p)
    <3>1. (CountReopened \/ Claim(p)) /\ torn' = torn /\ crossed' = crossed
      BY <2>4 DEF Suspend, Unsuspend, Recreated, Claim
    <3>2. torn' \in BOOLEAN /\ (torn => torn') /\ crossed' \in BOOLEAN /\ (crossed => crossed')
      BY <2>1, <3>1, Zenon
    <3>3. QED
      BY <1>2, <3>1, <3>2
  <2>5. CASE MarkError(p) \/ AnswerLost(p)
    <3>1. (CountReopened \/ reopened' = reopened) /\ torn' = TRUE /\ crossed' = crossed
      BY <2>5 DEF MarkError, AnswerLost
    <3>2. torn' \in BOOLEAN /\ (torn => torn') /\ crossed' \in BOOLEAN /\ (crossed => crossed')
      BY <2>1, <3>1, Zenon
    <3>3. QED
      BY <1>2, <3>1, <3>2
  <2>6. CASE GiveUp(p)
    <3>1. reopened' = reopened /\ torn' = (torn \/ HalfWay(p)) /\ crossed' = crossed
      BY <2>6 DEF GiveUp
    <3>2. torn' \in BOOLEAN /\ (torn => torn') /\ crossed' \in BOOLEAN /\ (crossed => crossed')
      BY <2>1, <3>1, Zenon
    <3>3. QED
      BY <1>2, <3>1, <3>2
  <2>7. CASE \/ RenewRefused(p) \/ StopFirst(p) \/ ClaimRefused(p) \/ DeleteOnHost(p) \/ DeleteFails(p)
             \/ Undo(p) \/ QuoteRemoval(p) \/ Settle(p) \/ SettleFails(p) \/ Release(p) \/ Work(p)
             \/ Result(p) \/ Recreate(p) \/ Wipe(p) \/ Create(p) \/ CreateFails(p) \/ RecreateFails(p)
             \/ Cleanup(p)
    BY <1>1, <2>7 DEF RenewRefused, StopFirst, ClaimRefused, DeleteOnHost, DeleteFails, Undo, QuoteRemoval,
                      Settle, SettleFails, Release, Work, Result, Recreate, Wipe, Create, CreateFails,
                      RecreateFails, Cleanup
  <2>8. QED
    BY <1>6, <2>2, <2>3, <2>4, <2>5, <2>6, <2>7 DEF Continue
<1>7. QED
  BY <1>3, <1>4, <1>5, <1>6 DEF Next

\* A purchase.
LEMMA InitInv == Init => IInv
<1> SUFFICES ASSUME Init PROVE IInv
  OBVIOUS
<1>1. PICK e \in 1..Period :
        /\ now = 0 /\ row = Fresh(e)
        /\ container = [status |-> "running", incusId |-> 0]
        /\ periods = <<[NoGrant EXCEPT !.end = e]>>
        /\ refunds = 0 /\ proc = [p \in Procs |-> NoProc] /\ begun = 0
        /\ reopened = 0 /\ torn = FALSE /\ crossed = FALSE
  BY DEF Init
<1>2. e \in Nat
  BY LifecycleAssumption
<1>3. row \in Rows
  BY <1>1, <1>2, Shapes
<1>4. [NoGrant EXCEPT !.end = e] \in Grants
  BY <1>2 DEF NoGrant, Grants
<1>5. periods \in Seq(Grants) /\ Len(periods) = 1 /\ periods[1] = [NoGrant EXCEPT !.end = e]
  BY <1>1, <1>4
<1>6. NoProc \in ProcType
  BY <1>2, <1>5, Shapes DEF NoProc, ProcType, Kinds, Steps, Containers
<1>7. proc \in [Procs -> ProcType]
  BY <1>1, <1>6
<1>8. now \in 0..MaxTime /\ begun \in 0..MaxRequests /\ refunds \in Nat /\ HistoriesOK
  <2>1. now \in 0..MaxTime /\ begun \in 0..MaxRequests /\ refunds \in Nat
    BY <1>1, LifecycleAssumption
  <2>2. HistoriesOK
    BY <1>1 DEF HistoriesOK
  <2>3. QED
    BY <2>1, <2>2
<1>9. container \in [status : Containers, incusId : Nat]
  BY <1>1 DEF Containers
<1>10. TypeOK
  BY <1>3, <1>5, <1>7, <1>8, <1>9 DEF TypeOK, ProcType, HistoriesOK
<1>11. \A p \in Procs : proc[p].step = "idle" /\ proc[p].kind = "none"
  BY <1>1 DEF NoProc
<1>12. PaidUntilExpiry /\ Disjoint
  BY <1>1, <1>2, <1>5 DEF PaidUntilExpiry, Disjoint, Fresh, NoGrant
<1>13. KindInv
  BY <1>11 DEF KindInv, KindOK, TaskKinds, Procs
<1>14. QED
  BY <1>10, <1>11, <1>12, <1>13 DEF IInv, GrantInv, RenewInv, At

-------------------------------------------------------------------------------
(* Steps that neither grant time nor start to *)

\* What they have in common.
Harmless ==
    /\ periods' = periods
    /\ row'.expiresAt = row.expiresAt /\ row.version <= row'.version
    /\ \A p \in Procs : /\ proc'[p].step \in {"renew", "extend"} => proc'[p] = proc[p]
                        /\ proc'[p].step = "result" =>
                              proc'[p] = proc[p] \/ proc'[p].seen # "gone" \/ proc'[p].kind = "recreate"

\* They keep the invariant.
LEMMA HarmlessInv ==
  ASSUME IInv, TypeOK', Sides', Harmless
  PROVE  IInv'
<1>1. GrantInv' /\ KindInv'
  <2>1. row.version \in Nat /\ row'.version \in Nat
    BY DEF IInv, TypeOK, Rows
  <2>2. \A p \in Procs : Saw(p).version \in Nat
    BY Shapes DEF IInv, Saw, ProcType, Rows
  <2>3. QED
    BY <2>1, <2>2 DEF IInv, GrantInv, Harmless, At, Saw, Sides
<1>2. CASE Extended
  BY <1>1, <1>2 DEF IInv, Extended, Harmless
<1>3. CASE RenewInv /\ PaidUntilExpiry /\ Disjoint
  <2>1. row.version \in Nat /\ row'.version \in Nat
    BY DEF IInv, TypeOK, Rows
  <2>2. \A p \in Procs : Saw(p).version \in Nat
    BY Shapes DEF IInv, Saw, ProcType, Rows
  <2>3. RenewInv'
    BY <1>3, <2>1, <2>2 DEF RenewInv, Harmless, At, Saw, IInv, GrantInv
  <2>4. PaidUntilExpiry' /\ Disjoint'
    BY <1>3 DEF PaidUntilExpiry, Disjoint, Harmless
  <2>5. QED
    BY <1>1, <2>3, <2>4 DEF IInv
<1>4. QED
  BY <1>2, <1>3 DEF IInv

\* The record of one process changes.
LEMMA OneProc ==
  ASSUME TypeOK, NEW p \in Procs, NEW r \in ProcType, proc' = [proc EXCEPT ![p] = r],
         periods' = periods,
         r.step \notin {"renew", "extend"}, r.step = "result" => r.seen # "gone" \/ r.kind = "recreate"
  PROVE  /\ proc' \in [Procs -> ProcType] /\ ProcType' = ProcType
         /\ \A q \in Procs : /\ proc'[q].step \in {"renew", "extend"} => proc'[q] = proc[q]
                             /\ proc'[q].step = "result" =>
                                 proc'[q] = proc[q] \/ proc'[q].seen # "gone" \/ proc'[q].kind = "recreate"
BY Shapes DEF ProcType

\* What such a step leaves of the row.
RowKept == row' \in Rows /\ row'.expiresAt = row.expiresAt /\ row.version <= row'.version

\* A step of one process, and the rest.
LEMMA OneStep ==
  ASSUME IInv, NEW p \in Procs, NEW r \in ProcType, proc' = [proc EXCEPT ![p] = r],
         r.step \notin {"renew", "extend"}, r.step = "result" => r.seen # "gone" \/ r.kind = "recreate", RowKept,
         UNCHANGED <<now, periods>>,
         container' \in [status : Containers, incusId : Nat], refunds' \in Nat,
         begun' \in 0..MaxRequests, Sides'
  PROVE  IInv'
<1>1. /\ proc' \in [Procs -> ProcType] /\ ProcType' = ProcType
      /\ \A q \in Procs : /\ proc'[q].step \in {"renew", "extend"} => proc'[q] = proc[q]
                          /\ proc'[q].step = "result" =>
                                 proc'[q] = proc[q] \/ proc'[q].seen # "gone" \/ proc'[q].kind = "recreate"
  BY OneProc DEF IInv
<1>2. TypeOK'
  BY <1>1 DEF IInv, TypeOK, ProcType, RowKept, Sides, HistoriesOK
<1>3. QED
  BY <1>1, <1>2, HarmlessInv DEF Harmless, RowKept

\* The types of what a step reads.
LEMMA Types ==
  ASSUME IInv
  PROVE  /\ row \in Rows /\ row.version \in Nat /\ row.expiresAt \in Nat /\ now \in Nat
         /\ container \in [status : Containers, incusId : Nat] /\ refunds \in Nat
         /\ begun \in 0..MaxRequests /\ HistoriesOK /\ Len(periods) \in Nat
         /\ row' = row => RowKept
         /\ \A p \in Procs : proc[p] \in ProcType /\ Saw(p) \in Rows
<1>1. /\ row \in Rows /\ now \in 0..MaxTime /\ container \in [status : Containers, incusId : Nat]
      /\ refunds \in Nat /\ begun \in 0..MaxRequests /\ Len(periods) \in Nat
  BY DEF IInv, TypeOK
<1>2. HistoriesOK
  BY DEF IInv, TypeOK, HistoriesOK
<1>3. row.version \in Nat /\ row.expiresAt \in Nat
  BY <1>1 DEF Rows
<1>4. \A p \in Procs : proc[p] \in ProcType /\ Saw(p) \in Rows
  BY Shapes DEF IInv, Saw, ProcType
<1>5. row' = row => RowKept
  BY <1>1, <1>3 DEF RowKept
<1>6. now \in Nat
  BY <1>1, LifecycleAssumption
<1>7. QED
  BY <1>1, <1>2, <1>3, <1>4, <1>5, <1>6

\* The ways in which the row is written.
Written(n, r, st, why, at, v, id) ==
    \/ n = r
    \/ n = [r EXCEPT !.status = st]
    \/ n = [r EXCEPT !.status = st, !.incusId = id]
    \/ n = [r EXCEPT !.status = st, !.version = v]
    \/ n = [r EXCEPT !.status = st, !.reason = why, !.since = at]
    \/ n = [r EXCEPT !.status = st, !.reason = why, !.since = at, !.version = v]

\* What they leave of it.
LEMMA Writes ==
  ASSUME NEW r \in Rows, NEW n, NEW st \in Statuses, NEW why \in Reasons, NEW at \in Nat,
         NEW v \in Nat, r.version <= v, NEW id \in Nat, Written(n, r, st, why, at, v, id)
  PROVE  n \in Rows /\ n.expiresAt = r.expiresAt /\ r.version <= n.version
<1>5. r.version \in Nat /\ r.version <= r.version
  BY DEF Rows
<1>1. CASE n = r \/ n = [r EXCEPT !.status = st] \/ n = [r EXCEPT !.status = st, !.incusId = id]
  <2>1. n \in Rows
    BY <1>1 DEF Rows
  <2>2. n.expiresAt = r.expiresAt /\ n.version = r.version
    BY <1>1 DEF Rows
  <2>3. QED
    BY <1>5, <2>1, <2>2
<1>2. CASE n = [r EXCEPT !.status = st, !.version = v]
  BY <1>2 DEF Rows
<1>3. CASE n = [r EXCEPT !.status = st, !.reason = why, !.since = at]
  <2>1. n \in Rows
    BY <1>3 DEF Rows
  <2>2. n.expiresAt = r.expiresAt /\ n.version = r.version
    BY <1>3 DEF Rows
  <2>3. QED
    BY <1>5, <2>1, <2>2
<1>4. CASE n = [r EXCEPT !.status = st, !.reason = why, !.since = at, !.version = v]
  BY <1>4 DEF Rows
<1>6. QED
  BY <1>1, <1>2, <1>3, <1>4 DEF Written

\* A step after which the process goes on elsewhere or is done.
LEMMA GoesOn ==
  ASSUME IInv, NEW p \in Procs, NEW s \in Steps \ {"renew", "extend", "result"}, Goto(p, s) \/ Finish(p),
         RowKept, UNCHANGED <<now, periods, begun>>,
         container' \in [status : Containers, incusId : Nat], refunds' \in Nat, Sides'
  PROVE  IInv'
<1>1. PICK r \in ProcType : proc' = [proc EXCEPT ![p] = r] /\ r.step \notin {"renew", "extend", "result"}
  <2>1. CASE Goto(p, s)
    <3>1. [proc[p] EXCEPT !.step = s] \in ProcType /\ proc[p] \in ProcType
      BY Shapes DEF IInv
    <3>2. proc' = [proc EXCEPT ![p] = [proc[p] EXCEPT !.step = s]]
      BY <2>1 DEF Goto
    <3>3. [proc[p] EXCEPT !.step = s].step = s
      BY <3>1 DEF ProcType
    <3>4. QED
      BY <3>1, <3>2, <3>3
  <2>2. CASE Finish(p)
    BY <2>2, Shapes DEF Finish, IInv, NoProc
  <2>3. QED
    BY <2>1, <2>2
<1>2. QED
  BY <1>1, OneStep, Types

\* A request that grants nothing arrives.
LEMMA ArrivesInv ==
  ASSUME IInv, Sides', NEW h \in Handlers, NEW kind \in Kinds, NEW step \in Steps \ {"renew", "extend", "result"},
         NEW quote \in 0..Len(periods), Arrives(h, kind, step, NoGrant, quote)
  PROVE  IInv'
<1> DEFINE r == [kind |-> kind, step |-> step, saw |-> row, grant |-> NoGrant, quote |-> quote,
                 seen |-> "gone"]
<1>1. r \in ProcType
  BY Types, Shapes DEF ProcType, Containers
<1>2. begun' \in 0..MaxRequests
  BY Types, LifecycleAssumption DEF Arrives
<1>3. /\ proc' = [proc EXCEPT ![h] = r]
      /\ UNCHANGED <<now, row, container, periods, refunds>>
  BY DEF Arrives
<1>4. r.step \notin {"renew", "extend", "result"} /\ h \in Procs
  BY DEF Procs
<1> HIDE DEF r
<1>5. QED
  BY <1>1, <1>2, <1>3, <1>4, OneStep, Types

\* A job that grants nothing.
LEMMA FiresInv ==
  ASSUME IInv, Sides', NEW j \in Jobs, NEW step \in Steps \ {"renew", "extend", "result"}, Fires(j, step, NoGrant)
  PROVE  IInv'
<1> DEFINE r == [kind |-> "job", step |-> step, saw |-> row, grant |-> NoGrant, quote |-> 0,
                 seen |-> "gone"]
<1>1. r \in ProcType
  BY Types, Shapes DEF ProcType, Containers, Kinds
<1>2. /\ proc' = [proc EXCEPT ![j] = r]
      /\ UNCHANGED <<now, row, container, periods, refunds, begun>>
  BY DEF Fires
<1>3. r.step \notin {"renew", "extend", "result"} /\ j \in Procs
  BY DEF Procs
<1> HIDE DEF r
<1>4. QED
  BY <1>1, <1>2, <1>3, OneStep, Types

\* Suspensions by hand, and what is refused or given up.
LEMMA ByHandInv ==
  ASSUME IInv, Sides', NEW p \in Procs,
         RenewRefused(p) \/ ClaimRefused(p) \/ GiveUp(p) \/ StopFirst(p) \/ Suspend(p) \/ Unsuspend(p)
  PROVE  IInv'
<1>1. CASE RenewRefused(p) \/ ClaimRefused(p) \/ GiveUp(p)
  <2>1. Finish(p) /\ UNCHANGED <<now, row, container, periods, refunds, begun>>
    BY <1>1 DEF RenewRefused, ClaimRefused, GiveUp
  <2>2. "idle" \in Steps \ {"renew", "extend", "result"}
    BY DEF Steps
  <2>3. QED
    BY <2>1, <2>2, GoesOn, Types
<1>2. CASE StopFirst(p)
  <2>1. Goto(p, "suspend") /\ Stopped /\ UNCHANGED <<now, row, periods, refunds, begun>>
    BY <1>2 DEF StopFirst
  <2>2. container' \in [status : Containers, incusId : Nat]
    BY <2>1, Types DEF Stopped, Containers
  <2>3. "suspend" \in Steps \ {"renew", "extend", "result"}
    BY DEF Steps
  <2>4. QED
    BY <2>1, <2>2, <2>3, GoesOn, Types
<1>3. CASE Suspend(p) \/ Unsuspend(p)
  <2>1. Finish(p) /\ UNCHANGED <<now, container, periods, refunds, begun>>
    BY <1>3 DEF Suspend, Unsuspend
  <2>2. RowKept
    <3>1. row \in Rows /\ row.version \in Nat /\ now \in Nat /\ row.incusId \in Nat /\ row.status \in Statuses
      BY Types DEF Rows
    <3>2. PICK v \in Nat : v = row.version + 1 /\ row.version <= v
      BY <3>1
    <3>3. PICK st \in Statuses, why \in Reasons, at \in Nat, id \in Nat : Written(row', row, st, why, at, v, id)
      BY <1>3, <3>1, <3>2 DEF Written, Suspend, Unsuspend, Lifted, Statuses, Reasons, Containers
    <3>4. QED
      BY <3>1, <3>2, <3>3, Writes, Types DEF RowKept
  <2>3. "idle" \in Steps \ {"renew", "extend", "result"}
    BY DEF Steps
  <2>4. QED
    BY <2>1, <2>2, <2>3, GoesOn, Types
<1>4. QED
  BY <1>1, <1>2, <1>3

\* The jobs of the expiry.
LEMMA ExpiryInv ==
  ASSUME IInv, Sides', SuspendExpired \/ StopExpired \/ ClaimExpired
  PROVE  IInv'
<1>1. /\ "suspender" \in Procs /\ "deleter" \in Procs
      /\ {"idle", "stop", "delete"} \subseteq Steps \ {"renew", "extend", "result"}
  BY DEF Procs, Jobs, Steps
<1>2. CASE SuspendExpired
  <2>1. Goto("suspender", "stop") /\ UNCHANGED <<now, container, periods, refunds, begun>>
    BY <1>2 DEF SuspendExpired, Goto
  <2>2. RowKept
    <3>1. row \in Rows /\ row.version \in Nat /\ now \in Nat /\ row.incusId \in Nat /\ row.status \in Statuses
      BY Types DEF Rows
    <3>2. PICK v \in Nat : v = row.version + 1 /\ row.version <= v
      BY <3>1
    <3>3. PICK st \in Statuses, why \in Reasons, at \in Nat, id \in Nat : Written(row', row, st, why, at, v, id)
      BY <1>2, <3>1, <3>2 DEF Written, SuspendExpired, Expired, Statuses, Reasons, Containers
    <3>4. QED
      BY <3>1, <3>2, <3>3, Writes, Types DEF RowKept
  <2>3. QED
    BY <1>1, <2>1, <2>2, GoesOn, Types
<1>3. CASE StopExpired
  <2>1. Finish("suspender") /\ Stopped /\ UNCHANGED <<now, row, periods, refunds, begun>>
    BY <1>3 DEF StopExpired
  <2>2. container' \in [status : Containers, incusId : Nat]
    BY <2>1, Types DEF Stopped, Containers
  <2>3. QED
    BY <1>1, <2>1, <2>2, GoesOn, Types
<1>4. CASE ClaimExpired
  <2>1. Goto("deleter", "delete") /\ UNCHANGED <<now, container, periods, refunds, begun>>
    BY <1>4 DEF ClaimExpired
  <2>2. RowKept
    <3>1. row \in Rows /\ row.version \in Nat /\ now \in Nat /\ row.incusId \in Nat /\ row.status \in Statuses
      BY Types DEF Rows
    <3>2. PICK v \in Nat : v = row.version + 1 /\ row.version <= v
      BY <3>1
    <3>3. PICK st \in Statuses, why \in Reasons, at \in Nat, id \in Nat : Written(row', row, st, why, at, v, id)
      BY <1>4, <3>1, <3>2 DEF Written, ClaimExpired, Statuses, Reasons, Containers
    <3>4. QED
      BY <3>1, <3>2, <3>3, Writes, Types DEF RowKept
  <2>3. QED
    BY <1>1, <2>1, <2>2, GoesOn, Types
<1>5. QED
  BY <1>2, <1>3, <1>4

\* Deletions.
LEMMA DeletionInv ==
  ASSUME IInv, Sides', NEW p \in Procs,
         \/ Claim(p) \/ DeleteOnHost(p) \/ DeleteFails(p) \/ AnswerLost(p) \/ Undo(p)
         \/ QuoteRemoval(p) \/ Settle(p) \/ SettleFails(p) \/ Release(p)
  PROVE  IInv'
<1>1. {"idle", "delete", "settle", "quote", "release", "undo"} \subseteq Steps \ {"renew", "extend", "result"}
  BY DEF Steps
<1>2. Without(Saw(p).incusId) \in [status : Containers, incusId : Nat]
  BY Types DEF Without, Containers
<1>3. CASE Claim(p)
  <2>1. PICK s \in {"settle", "delete"} : Goto(p, s)
    BY <1>3 DEF Claim
  <2>2. RowKept
    <3>1. row \in Rows /\ row.version \in Nat /\ now \in Nat /\ row.incusId \in Nat /\ row.status \in Statuses
      BY Types DEF Rows
    <3>2. PICK v \in Nat : v = row.version + 1 /\ row.version <= v
      BY <3>1
    <3>3. PICK st \in Statuses, why \in Reasons, at \in Nat, id \in Nat : Written(row', row, st, why, at, v, id)
      BY <1>3, <3>1, <3>2 DEF Written, Claim, Statuses, Reasons, Containers
    <3>4. QED
      BY <3>1, <3>2, <3>3, Writes, Types DEF RowKept
  <2>3. UNCHANGED <<now, container, periods, refunds, begun>>
    BY <1>3 DEF Claim
  <2>4. QED
    BY <1>1, <2>1, <2>2, <2>3, GoesOn, Types
<1>4. CASE DeleteOnHost(p)
  <2>1. PICK s \in {"settle", "quote", "idle"} : Goto(p, s) \/ Finish(p)
    BY <1>4 DEF DeleteOnHost, AfterDelete
  <2>2. UNCHANGED <<now, row, periods, refunds, begun>> /\ container' = Without(Saw(p).incusId)
    BY <1>4 DEF DeleteOnHost
  <2>3. QED
    BY <1>1, <1>2, <2>1, <2>2, GoesOn, Types
<1>5. CASE DeleteFails(p) \/ SettleFails(p)
  <2>1. Goto(p, "undo") /\ UNCHANGED <<now, row, container, periods, refunds, begun>>
    BY <1>5 DEF DeleteFails, SettleFails
  <2>2. QED
    BY <1>1, <2>1, GoesOn, Types
<1>6. CASE AnswerLost(p)
  <2>1. /\ Goto(p, "undo") /\ UNCHANGED <<now, row, periods, refunds, begun>>
        /\ container' = Without(Saw(p).incusId)
    BY <1>6 DEF AnswerLost
  <2>2. QED
    BY <1>1, <1>2, <2>1, GoesOn, Types
<1>7. CASE Undo(p)
  <2>1. Finish(p) /\ UNCHANGED <<now, container, periods, refunds, begun>>
    BY <1>7 DEF Undo
  <2>2. Saw(p).status \in Statuses
    BY Types DEF Rows
  <2>3. RowKept
    <3>1. row \in Rows /\ row.version \in Nat /\ now \in Nat /\ row.incusId \in Nat /\ row.status \in Statuses
      BY Types DEF Rows
    <3>2. PICK v \in Nat : v = row.version + 1 /\ row.version <= v
      BY <3>1
    <3>3. PICK st \in Statuses, why \in Reasons, at \in Nat, id \in Nat : Written(row', row, st, why, at, v, id)
      BY <1>7, <2>2, <3>1, <3>2 DEF Written, Undo, Statuses, Reasons, Containers
    <3>4. QED
      BY <3>1, <3>2, <3>3, Writes, Types DEF RowKept
  <2>4. QED
    BY <1>1, <2>1, <2>3, GoesOn, Types
<1>8. CASE QuoteRemoval(p)
  <2>1. Quote \in 0..Len(periods)
    BY Types DEF Quote
  <2> DEFINE r == [proc[p] EXCEPT !.step = "settle", !.quote = Quote]
  <2>2. r \in ProcType /\ r.step = "settle"
    BY <2>1, Types DEF ProcType, Steps
  <2>3. /\ proc' = [proc EXCEPT ![p] = r]
        /\ UNCHANGED <<now, row, container, periods, refunds, begun>>
    BY <1>8 DEF QuoteRemoval
  <2> HIDE DEF r
  <2>4. QED
    BY <2>2, <2>3, OneStep, Types
<1>9. CASE Settle(p)
  <2>1. Goto(p, "release") \/ Finish(p)
    BY <1>9 DEF Settle
  <2>2. UNCHANGED <<now, row, container, periods, begun>> /\ refunds' \in Nat
    BY <1>9, Types DEF Settle
  <2>3. QED
    BY <1>1, <2>1, <2>2, GoesOn, Types
<1>10. CASE Release(p)
  <2>1. /\ Finish(p) /\ UNCHANGED <<now, row, periods, refunds, begun>>
        /\ container' \in {container, Without(Saw(p).incusId)}
    BY <1>10 DEF Release
  <2>2. QED
    BY <1>1, <1>2, <2>1, GoesOn, Types
<1>11. QED
  BY <1>3, <1>4, <1>5, <1>6, <1>7, <1>8, <1>9, <1>10

\* Tasks and the status synchronisation.
LEMMA TaskInv ==
  ASSUME IInv, Sides', (\E p \in Procs : Work(p) \/ Result(p)) \/ Look \/ Apply
  PROVE  IInv'
<1>1. "sync" \in Procs /\ "idle" \in Steps \ {"renew", "extend", "result"}
  BY DEF Procs, Jobs, Steps
<1>2. ASSUME NEW p \in Procs, Work(p) PROVE IInv'
  <2>1. PICK st \in {"running", "stopped"} :
           /\ container' = [container EXCEPT !.status = st]
           /\ proc' = [proc EXCEPT ![p].step = "result", ![p].seen = st]
           /\ UNCHANGED <<now, row, periods, refunds, begun>>
    BY <1>2 DEF Work
  <2>2. container' \in [status : Containers, incusId : Nat]
    BY <2>1, Types DEF Containers
  <2> DEFINE r == [proc[p] EXCEPT !.step = "result", !.seen = st]
  <2>3. r \in ProcType /\ r.step = "result" /\ r.seen # "gone"
    BY Types DEF ProcType, Steps, Containers
  <2>4. proc' = [proc EXCEPT ![p] = r]
    BY <2>1
  <2> HIDE DEF r
  <2>5. QED
    BY <2>1, <2>2, <2>3, <2>4, OneStep, Types
<1>3. ASSUME NEW p \in Procs, Result(p) PROVE IInv'
  <2>1. Finish(p) /\ UNCHANGED <<now, container, periods, refunds, begun>>
    BY <1>3 DEF Result
  <2>2. proc[p].seen \in Containers /\ container.incusId \in Nat
    BY Types DEF ProcType
  <2>3. RowKept
    <3>1. row \in Rows /\ row.version \in Nat /\ now \in Nat /\ row.incusId \in Nat /\ row.status \in Statuses
      BY Types DEF Rows
    <3>2. PICK v \in Nat : v = row.version + 1 /\ row.version <= v
      BY <3>1
    <3>3. PICK st \in Statuses, why \in Reasons, at \in Nat, id \in Nat : Written(row', row, st, why, at, v, id)
      <4>1. proc[p].seen \in Statuses
        BY <1>3, <2>2 DEF Result, IInv, GrantInv, Containers, Statuses, At
      <4>2. row' = row \/ row' = [row EXCEPT !.status = proc[p].seen]
        BY <1>3 DEF Result
      <4>3. QED
        BY <2>2, <3>1, <4>1, <4>2 DEF Written, Reasons
    <3>4. QED
      BY <3>1, <3>2, <3>3, Writes, Types DEF RowKept
  <2>4. QED
    BY <1>1, <2>1, <2>3, GoesOn, Types
<1>4. CASE Look
  <2>1. UNCHANGED <<now, row, container, periods, refunds, begun>>
    BY <1>4 DEF Look
  <2>2. CASE Finish("sync")
    BY <1>1, <2>1, <2>2, GoesOn, Types
  <2>3. CASE ~Finish("sync")
    <3> DEFINE r == [proc["sync"] EXCEPT !.step = "apply", !.seen = Answer(Saw("sync").incusId)]
    <3>1. Answer(Saw("sync").incusId) \in Containers
      BY Types DEF Answer, Containers
    <3>2. r \in ProcType /\ r.step = "apply"
      BY <1>1, <3>1, Types DEF ProcType, Steps
    <3>3. proc' = [proc EXCEPT !["sync"] = r]
      BY <1>4, <2>3 DEF Look
    <3> HIDE DEF r
    <3>4. QED
      BY <1>1, <2>1, <3>2, <3>3, OneStep, Types
  <2>4. QED
    BY <2>2, <2>3
<1>5. CASE Apply
  <2>1. Finish("sync") /\ UNCHANGED <<now, container, periods, refunds, begun>>
    BY <1>5 DEF Apply
  <2>2. proc["sync"].seen \in Containers
    BY <1>1, Types DEF ProcType
  <2>3. RowKept
    <3>1. row \in Rows /\ row.version \in Nat /\ now \in Nat /\ row.incusId \in Nat /\ row.status \in Statuses
      BY Types DEF Rows
    <3>2. PICK v \in Nat : v = row.version + 1 /\ row.version <= v
      BY <3>1
    <3>3. PICK st \in Statuses, why \in Reasons, at \in Nat, id \in Nat : Written(row', row, st, why, at, v, id)
      BY <1>5, <2>2, <3>1, <3>2 DEF Written, Apply, Statuses, Reasons, Containers
    <3>4. QED
      BY <3>1, <3>2, <3>3, Writes, Types DEF RowKept
  <2>4. QED
    BY <1>1, <2>1, <2>3, GoesOn, Types
<1>6. QED
  BY <1>2, <1>3, <1>4, <1>5

\* Tasks that recreate.
LEMMA RecreateInv ==
  ASSUME IInv, Sides', NEW p \in Procs,
         \/ Recreate(p) \/ Wipe(p) \/ Create(p) \/ CreateFails(p) \/ Recreated(p) \/ RecreateFails(p)
         \/ Cleanup(p) \/ MarkError(p)
  PROVE  IInv'
<1>1. {"idle", "wipe", "create", "cleanup", "fail"} \subseteq Steps \ {"renew", "extend", "result"}
  BY DEF Steps
<1>2. /\ \A id \in Nat : Without(id) \in [status : Containers, incusId : Nat]
      /\ NewContainer \in [status : Containers, incusId : Nat]
      /\ Saw(p).incusId \in Nat /\ container.incusId \in Nat
  BY Types DEF Without, NewContainer, Containers, Rows
<1>3. CASE Recreate(p)
  <2> DEFINE r == [proc[p] EXCEPT !.step = "wipe", !.saw = row]
  <2>1. r \in ProcType /\ r.step = "wipe"
    BY Types DEF ProcType, Steps
  <2>2. /\ proc' = [proc EXCEPT ![p] = r]
        /\ UNCHANGED <<now, row, container, periods, refunds, begun>>
    BY <1>3 DEF Recreate
  <2> HIDE DEF r
  <2>3. QED
    BY <2>1, <2>2, OneStep, Types
<1>4. CASE Wipe(p) \/ CreateFails(p) \/ RecreateFails(p) \/ Cleanup(p)
  <2>1. PICK s \in {"create", "fail", "cleanup"} : Goto(p, s)
    BY <1>4 DEF Wipe, CreateFails, RecreateFails, Cleanup
  <2>2. UNCHANGED <<now, row, periods, refunds, begun>>
    BY <1>4 DEF Wipe, CreateFails, RecreateFails, Cleanup
  <2>3. container' \in [status : Containers, incusId : Nat]
    BY <1>2, <1>4, Types DEF Wipe, CreateFails, RecreateFails, Cleanup
  <2>4. QED
    BY <1>1, <2>1, <2>2, <2>3, GoesOn, Types
<1>5. CASE Create(p)
  <2> DEFINE r == [proc[p] EXCEPT !.step = "result"]
  <2>1. r \in ProcType /\ r.step = "result" /\ r.kind = "recreate"
    BY <1>5, Types DEF ProcType, Steps, Create, IInv, KindInv, KindOK, At
  <2>2. proc' = [proc EXCEPT ![p] = r] /\ UNCHANGED <<now, row, periods, refunds, begun>>
    BY <1>5 DEF Create, Goto
  <2>3. container' \in [status : Containers, incusId : Nat]
    BY <1>2, <1>5 DEF Create
  <2> HIDE DEF r
  <2>4. QED
    BY <2>1, <2>2, <2>3, OneStep, Types
<1>6. CASE Recreated(p) \/ MarkError(p)
  <2>1. Finish(p) /\ UNCHANGED <<now, container, periods, refunds, begun>>
    BY <1>6 DEF Recreated, MarkError
  <2>2. RowKept
    <3>1. row \in Rows /\ row.version \in Nat /\ now \in Nat /\ row.incusId \in Nat /\ row.status \in Statuses
      BY Types DEF Rows
    <3>2. PICK v \in Nat : v = row.version + 1 /\ row.version <= v
      BY <3>1
    <3>3. PICK st \in Statuses, why \in Reasons, at \in Nat, id \in Nat : Written(row', row, st, why, at, v, id)
      BY <1>2, <1>6, <3>1, <3>2 DEF Written, Recreated, MarkError, Statuses, Reasons
    <3>4. QED
      BY <3>1, <3>2, <3>3, Writes, Types DEF RowKept
  <2>3. QED
    BY <1>1, <2>1, <2>2, GoesOn, Types
<1>7. QED
  BY <1>3, <1>4, <1>5, <1>6

-------------------------------------------------------------------------------
(* Steps that grant time or start to *)

\* A request or the job has worked out what to grant.
LEMMA Worked ==
  ASSUME IInv, Sides', NEW p \in Procs, NEW r \in ProcType, proc' = [proc EXCEPT ![p] = r],
         UNCHANGED <<now, row, container, periods, refunds>>, begun' \in 0..MaxRequests,
         r.saw = row, row.expiresAt <= r.grant.end,
         \/ /\ r.step = "renew"
            /\ r.grant.by = "renew" /\ r.grant.start = row.expiresAt /\ r.grant.start <= r.grant.end
         \/ r.step = "extend" /\ r.grant.by = "extend"
  PROVE  IInv'
<1>1. proc \in [Procs -> ProcType] /\ proc' \in [Procs -> ProcType] /\ ProcType' = ProcType
  BY Shapes DEF IInv, ProcType
<1>2. TypeOK'
  BY <1>1 DEF IInv, TypeOK, ProcType, Sides, HistoriesOK
<1>3. proc'[p] = r /\ \A q \in Procs : q # p => proc'[q] = proc[q]
  BY <1>1
<1>4. GrantInv' /\ KindInv'
  <2>1. row.version <= row.version
    BY Types
  <2>2. QED
    BY <1>3, <2>1 DEF IInv, GrantInv, At, Saw, Sides
<1>5. Extended' = Extended
  BY DEF Extended
<1>6. RenewInv => RenewInv'
  BY <1>3 DEF RenewInv, At, Saw
<1>7. PaidUntilExpiry /\ Disjoint => (PaidUntilExpiry /\ Disjoint)'
  BY DEF PaidUntilExpiry, Disjoint
<1>8. QED
  BY <1>2, <1>4, <1>5, <1>6, <1>7 DEF IInv

\* What a renewal and an extension would grant.
LEMMA WorkedOut ==
  ASSUME IInv
  PROVE  /\ Renewal \in Grants /\ Renewal.by = "renew" /\ Renewal.start = row.expiresAt
         /\ Renewal.start <= Renewal.end /\ row.expiresAt <= Later(row.expiresAt) + Extension
         /\ [start |-> Later(row.expiresAt), end |-> Later(row.expiresAt) + Extension, by |-> "extend"] \in Grants
<1>1. row.expiresAt \in Nat /\ Later(row.expiresAt) \in Nat /\ row.expiresAt <= Later(row.expiresAt)
  BY Types DEF Later
<1>2. /\ Later(row.expiresAt) + Period \in Nat /\ Later(row.expiresAt) + Extension \in Nat
      /\ row.expiresAt <= Later(row.expiresAt) + Period
      /\ row.expiresAt <= Later(row.expiresAt) + Extension
  BY <1>1, LifecycleAssumption
<1>3. QED
  BY <1>1, <1>2 DEF Renewal, Grants

\* Requests.
LEMMA ArriveInv ==
  ASSUME IInv, Sides', NEW h \in Handlers, Arrive(h)
  PROVE  IInv'
<1>1. Quote \in 0..Len(periods) /\ 0 \in 0..Len(periods) /\ Len(periods) \in 0..Len(periods)
  BY Types DEF Quote
<1>2. CASE StartRenew(h) \/ StartExtend(h)
  <2>1. PICK kind \in {"renew", "extend"} :
          Arrives(h, kind, kind,
                  IF kind = "renew" THEN Renewal
                  ELSE [start |-> Later(row.expiresAt), end |-> Later(row.expiresAt) + Extension, by |-> "extend"], 0)
    BY <1>2 DEF StartRenew, StartExtend
  <2>2. PICK g \in Grants :
          /\ Arrives(h, kind, kind, g, 0) /\ row.expiresAt <= g.end
          /\ \/ kind = "renew" /\ g.by = "renew" /\ g.start = row.expiresAt /\ g.start <= g.end
             \/ kind = "extend" /\ g.by = "extend"
    BY <2>1, WorkedOut
  <2> DEFINE r == [kind |-> kind, step |-> kind, saw |-> row, grant |-> g, quote |-> 0, seen |-> "gone"]
  <2>3. r \in ProcType /\ r.step = kind /\ r.saw = row /\ r.grant = g
    BY <1>1, Types DEF ProcType, Kinds, Steps, Containers
  <2>4. /\ proc' = [proc EXCEPT ![h] = r]
        /\ UNCHANGED <<now, row, container, periods, refunds>>
    BY <2>2 DEF Arrives
  <2>5. begun' \in 0..MaxRequests
    BY <2>2, Types, LifecycleAssumption DEF Arrives
  <2> HIDE DEF r
  <2>6. h \in Procs
    BY DEF Procs
  <2>7. QED
    BY <2>2, <2>3, <2>4, <2>5, <2>6, Worked
<1>3. CASE ~(StartRenew(h) \/ StartExtend(h))
  <2>1. PICK kind \in Kinds, step \in {"stop", "suspend", "unsuspend", "claim", "work"}, quote \in {0, Quote, Len(periods)} :
          Arrives(h, kind, step, NoGrant, quote)
    BY <1>3 DEF Arrive, StartSuspend, StartUnsuspend, StartDestroy, StartRemove, StartAdminRemove, StartTask, Kinds
  <2>2. step \in Steps \ {"renew", "extend", "result"}
    BY DEF Steps
  <2>3. quote \in 0..Len(periods)
    BY <1>1
  <2>4. QED
    BY <2>1, <2>2, <2>3, ArrivesInv
<1>4. QED
  BY <1>2, <1>3

\* Jobs that read the row.
LEMMA FireInv ==
  ASSUME IInv, Sides', AutoRenew \/ ListExpired \/ StartSync
  PROVE  IInv'
<1>1. {"claim", "look"} \subseteq Steps \ {"renew", "extend", "result"} /\ {"autoRenew", "deleter", "sync"} \subseteq Jobs
  BY DEF Steps, Jobs
<1>2. CASE AutoRenew
  <2> DEFINE r == [kind |-> "job", step |-> "renew", saw |-> row, grant |-> Renewal, quote |-> 0, seen |-> "gone"]
  <2>1. r \in ProcType /\ r.step = "renew" /\ r.saw = row /\ r.grant = Renewal
    BY Types, WorkedOut DEF ProcType, Kinds, Steps, Containers
  <2>2. /\ proc' = [proc EXCEPT !["autoRenew"] = r]
        /\ UNCHANGED <<now, row, container, periods, refunds, begun>>
    BY <1>2 DEF AutoRenew, Fires
  <2> HIDE DEF r
  <2>3. "autoRenew" \in Procs
    BY <1>1 DEF Procs
  <2>4. QED
    BY <2>1, <2>2, <2>3, Types, WorkedOut, Worked
<1>3. CASE ListExpired \/ StartSync
  BY <1>1, <1>3, FiresInv DEF ListExpired, StartSync
<1>4. QED
  BY <1>2, <1>3

\* A period is added.
LEMMA Granted ==
  ASSUME TypeOK, NEW g \in Grants, periods' = Append(periods, g)
  PROVE  /\ periods' \in Seq(Grants) /\ Len(periods) \in Nat
         /\ DOMAIN periods = 1..Len(periods) /\ DOMAIN periods' = 1..(Len(periods) + 1)
         /\ \A i \in 1..Len(periods) : periods'[i] = periods[i]
         /\ periods'[Len(periods) + 1] = g
         /\ ProcType \subseteq ProcType'
         /\ Extended => Extended'
         /\ g.by = "extend" => Extended'
<1>1. periods \in Seq(Grants) /\ Len(periods) \in Nat
  BY DEF TypeOK
<1>2. periods' \in Seq(Grants) /\ Len(periods') = Len(periods) + 1
  BY <1>1
<1>3. /\ DOMAIN periods = 1..Len(periods) /\ DOMAIN periods' = 1..(Len(periods) + 1)
      /\ \A i \in 1..Len(periods) : periods'[i] = periods[i]
      /\ periods'[Len(periods) + 1] = g
  BY <1>1, <1>2
<1>4. 0..Len(periods) \subseteq 0..Len(periods')
  BY <1>1, <1>2
<1>5. ProcType \subseteq ProcType'
  BY <1>4 DEF ProcType
<1>6. (Extended => Extended') /\ (g.by = "extend" => Extended')
  BY <1>1, <1>3 DEF Extended
<1>7. QED
  BY <1>1, <1>2, <1>3, <1>5, <1>6

\* The row and the processes after a period was added.
LEMMA GrantedTypes ==
  ASSUME IInv, NEW p \in Procs, periods' = Append(periods, proc[p].grant), Finish(p),
         NEW n \in Nat,
         row' = [IF IsExpired(Saw(p)) THEN Lifted(row) ELSE row
                    EXCEPT !.expiresAt = proc[p].grant.end, !.version = n],
         row.version <= n, UNCHANGED <<now, container, refunds, begun>>, Sides'
  PROVE  /\ TypeOK' /\ GrantInv' /\ KindInv' /\ row'.expiresAt = proc[p].grant.end /\ row'.version = n
         /\ \A q \in Procs : At(q, "renew")' => q # p /\ proc'[q] = proc[q]
<1>1. proc[p].grant \in Grants /\ proc[p].grant.end \in Nat /\ row \in Rows
  BY Types DEF ProcType, Grants
<1>2. periods' \in Seq(Grants) /\ ProcType \subseteq ProcType'
  BY <1>1, Granted DEF IInv
<1>3. proc' \in [Procs -> ProcType] /\ proc'[p] = NoProc /\ \A q \in Procs : q # p => proc'[q] = proc[q]
  BY Shapes DEF IInv, Finish
<1>4. PICK r \in Rows : row' = [r EXCEPT !.expiresAt = proc[p].grant.end, !.version = n]
  <2>1. Lifted(row) \in Rows
    BY <1>1 DEF Lifted, Rows, Statuses, Reasons
  <2>2. QED
    BY <1>1, <2>1
<1>5. row' \in Rows /\ row'.expiresAt = proc[p].grant.end /\ row'.version = n
  BY <1>1, <1>4 DEF Rows
<1>6. proc' \in [Procs -> ProcType']
  BY <1>2, <1>3
<1>7. TypeOK'
  BY <1>2, <1>5, <1>6 DEF IInv, TypeOK, ProcType, Sides, HistoriesOK
<1>8. GrantInv' /\ KindInv'
  <2>1. \A q \in Procs : Saw(q).version \in Nat /\ row.version \in Nat
    BY Types DEF Rows
  <2>2. QED
    BY <1>3, <1>5, <2>1 DEF IInv, GrantInv, At, NoProc, Saw, Sides
<1>9. \A q \in Procs : At(q, "renew")' => q # p /\ proc'[q] = proc[q]
  BY <1>3 DEF At, NoProc
<1>10. QED
  BY <1>5, <1>7, <1>8, <1>9

\* A renewal is charged.
LEMMA RenewStep ==
  ASSUME IInv, Sides', NEW p \in Procs, Renew(p)
  PROVE  IInv'
<1> DEFINE g == proc[p].grant
<1>1. /\ At(p, "renew") /\ row.version = Saw(p).version /\ periods' = Append(periods, g) /\ Finish(p)
      /\ UNCHANGED <<now, container, refunds, begun>>
  BY DEF Renew, Unchanged
<1>2. g \in Grants /\ g.start \in Nat /\ g.end \in Nat /\ row.version \in Nat /\ row.version + 1 \in Nat
  BY Types DEF ProcType, Grants
<1>3. PICK n \in Nat : n = row.version + 1 /\ row.version <= n
  BY <1>2
<1>4. row' = [IF IsExpired(Saw(p)) THEN Lifted(row) ELSE row EXCEPT !.expiresAt = g.end, !.version = n]
  <2>1. (IF IsExpired(Saw(p)) THEN Lifted(row) ELSE row).version = row.version
    BY Types DEF Lifted, Rows
  <2>2. QED
    BY <1>3, <2>1 DEF Renew
<1>5. /\ TypeOK' /\ GrantInv' /\ KindInv' /\ row'.expiresAt = g.end /\ row'.version = n
      /\ \A q \in Procs : At(q, "renew")' => q # p /\ proc'[q] = proc[q]
  BY <1>1, <1>2, <1>3, <1>4, GrantedTypes, Types
<1>6. /\ Len(periods) \in Nat /\ DOMAIN periods = 1..Len(periods) /\ DOMAIN periods' = 1..(Len(periods) + 1)
      /\ \A i \in 1..Len(periods) : periods'[i] = periods[i]
      /\ periods'[Len(periods) + 1] = g
      /\ Extended => Extended'
  BY <1>1, <1>2, Granted DEF IInv
<1> HIDE DEF g
<1>7. CASE Extended
  BY <1>5, <1>6, <1>7 DEF IInv
<1>8. CASE RenewInv /\ PaidUntilExpiry /\ Disjoint
  <2>1. g.start = row.expiresAt /\ g.start <= g.end
    BY <1>1, <1>8 DEF RenewInv, g
  <2>2. RenewInv'
    <3>1. ASSUME NEW q \in Procs, At(q, "renew")'
          PROVE  /\ proc'[q].saw.version < row'.version
                 /\ proc'[q].grant.start <= proc'[q].grant.end
      <4>1. At(q, "renew") /\ proc'[q] = proc[q]
        BY <1>5, <3>1 DEF At
      <4>2. Saw(q).version <= row.version /\ Saw(q).version \in Nat /\ proc[q].grant.start <= proc[q].grant.end
        BY <1>8, <4>1, Types DEF RenewInv, Rows, IInv, GrantInv
      <4>3. QED
        BY <1>2, <1>3, <1>5, <4>1, <4>2 DEF Saw
    <3>2. \A q \in Procs : proc'[q].saw.version \in Nat /\ row'.version \in Nat
      BY <1>5 DEF TypeOK, Rows
    <3>3. QED
      BY <3>1, <3>2 DEF RenewInv, Saw
  <2>3. \A i \in 1..Len(periods) : periods[i].end \in Nat /\ periods[i].end <= row.expiresAt
    <3>1. ASSUME NEW i \in 1..Len(periods) PROVE periods[i] \in Grants
      BY <1>6, <3>1 DEF IInv, TypeOK
    <3>2. QED
      BY <1>6, <1>8, <3>1 DEF PaidUntilExpiry, Grants
  <2>4. PaidUntilExpiry'
    BY <1>2, <1>5, <1>6, <2>1, <2>3 DEF PaidUntilExpiry
  <2>5. Disjoint'
    <3>1. ASSUME NEW i \in 1..(Len(periods) + 1), NEW j \in 1..(Len(periods) + 1), i < j
          PROVE  periods'[i].end <= periods'[j].start
      <4>1. i \in 1..Len(periods)
        BY <1>6, <3>1
      <4>2. CASE j \in 1..Len(periods)
        BY <1>6, <1>8, <3>1, <4>1, <4>2 DEF Disjoint
      <4>3. CASE j = Len(periods) + 1
        BY <1>6, <2>1, <2>3, <4>1, <4>3
      <4>4. QED
        BY <1>6, <4>2, <4>3
    <3>2. QED
      BY <1>6, <3>1 DEF Disjoint
  <2>6. QED
    BY <1>5, <2>2, <2>4, <2>5 DEF IInv
<1>9. QED
  BY <1>7, <1>8 DEF IInv

\* An extension by hand.
LEMMA ExtendStep ==
  ASSUME IInv, Sides', NEW p \in Procs, Extend(p)
  PROVE  IInv'
<1> DEFINE g == proc[p].grant
<1>1. /\ At(p, "extend") /\ periods' = Append(periods, g) /\ Finish(p)
      /\ UNCHANGED <<now, container, refunds, begun>>
  BY DEF Extend
<1>2. g \in Grants /\ g.by = "extend" /\ row.version \in Nat
  BY <1>1, Types DEF ProcType, IInv, GrantInv
<1>3. row.version <= row.version
  BY <1>2
<1>4. row' = [IF IsExpired(Saw(p)) THEN Lifted(row) ELSE row EXCEPT !.expiresAt = g.end, !.version = row.version]
  BY Types DEF Extend, Lifted, Rows
<1>5. TypeOK' /\ GrantInv' /\ KindInv'
  BY <1>1, <1>2, <1>3, <1>4, GrantedTypes
<1>6. Extended'
  BY <1>1, <1>2, Granted DEF IInv
<1>7. QED
  BY <1>5, <1>6 DEF IInv

\* Time passes.
LEMMA TickInv ==
  ASSUME IInv, Sides', Tick
  PROVE  IInv'
<1>1. now' \in 0..MaxTime
  BY LifecycleAssumption DEF Tick, IInv, TypeOK
<1>2. UNCHANGED <<row, container, periods, refunds, proc, begun>>
  BY DEF Tick
<1>3. TypeOK'
  BY <1>1, <1>2 DEF IInv, TypeOK, Sides, HistoriesOK
<1>4. Harmless
  BY <1>2, Types DEF Harmless
<1>5. QED
  BY <1>3, <1>4, HarmlessInv

\* Every step keeps the invariant.
LEMMA NextInv == IInv /\ [Next]_vars => IInv'
<1> SUFFICES ASSUME IInv, [Next]_vars PROVE IInv'
  OBVIOUS
<1>0. Sides'
  BY KindsStep, HistoriesStep, Types DEF IInv, Sides
<1>1. CASE UNCHANGED vars
  <2>1. TypeOK' /\ Harmless
    BY <1>1, Types DEF vars, histories, Harmless, IInv, TypeOK
  <2>2. QED
    BY <1>0, <2>1, HarmlessInv
<1>2. ASSUME NEW h \in Handlers, Arrive(h) PROVE IInv'
  BY <1>0, <1>2, ArriveInv
<1>3. ASSUME NEW p \in Procs, Continue(p) \/ GiveUp(p) PROVE IInv'
  BY <1>0, <1>3, RenewStep, ExtendStep, ByHandInv, DeletionInv, TaskInv, RecreateInv DEF Continue
<1>4. CASE Fire \/ JobStep
  BY <1>0, <1>4, FireInv, ExpiryInv, TaskInv DEF Fire, JobStep
<1>5. CASE Tick
  BY <1>0, <1>5, TickInv
<1>6. QED
  BY <1>1, <1>2, <1>3, <1>4, <1>5 DEF Next

-------------------------------------------------------------------------------
\* The row, what processes have read of it and what they will grant keep their types
\* for any number of requests: no result of a task or of the synchronisation writes a
\* status that is none.
THEOREM TypeCorrect == Spec => []TypeOK
<1>1. IInv => TypeOK
  BY DEF IInv
<1>2. QED
  BY <1>1, InitInv, NextInv, PTL DEF Spec

\* However renewals on the page, over the API and by the job meet each other, the
\* expiry, deletions and tasks: nobody is charged twice for the same time.
THEOREM RenewalsDisjoint == Spec => []PeriodsDisjoint
<1>1. IInv => PeriodsDisjoint
  BY DEF IInv, PeriodsDisjoint, Disjoint
<1>2. QED
  BY <1>1, InitInv, NextInv, PTL DEF Spec

-------------------------------------------------------------------------------
(* What a deletion owns                                                        *)
(*                                                                             *)
(* Between its claim and its end a deletion is the only one, and the row is    *)
(* deleted, unless somebody reopened a deleted row.                            *)

\* The steps of a deletion that has claimed the row; until its refund is settled
\* it may still pay or undo.
Claiming == {"delete", "quote", "settle", "undo"}
Holding == Claiming \cup {"release"}
Holds(p) == proc[p].step \in Holding
Claimants == {p \in Procs : proc[p].step \in Claiming}

Counted ==
    Cardinality(Claimants) + refunds <= (IF row.status = "deleted" THEN 1 ELSE 0) + reopened

Alone ==
    reopened = 0 => /\ \A p \in Procs : Holds(p) => row.status = "deleted"
                    /\ \A p, q \in Procs : Holds(p) /\ Holds(q) => p = q

\* What a step is to the deletions: somebody else's, or the last of one...
Loose(p) ==
    /\ Others(p) /\ proc'[p].step \notin Holding
    /\ refunds' = refunds /\ reopened <= reopened'
    /\ row.status = "deleted" => row'.status = "deleted" \/ reopened < reopened'

\* ... a claim...
Claims(p) ==
    /\ Others(p) /\ ~Holds(p) /\ proc'[p].step \in {"delete", "settle"}
    /\ row'.status = "deleted" /\ refunds' = refunds
    /\ \/ row.status # "deleted" /\ reopened' = reopened
       \/ reopened' = reopened + 1

\* ... a step of one that goes on...
Carries(p) ==
    /\ Others(p) /\ Holds(p)
    /\ row' = row /\ reopened' = reopened
    /\ \/ refunds' = refunds /\ (proc'[p].step \in Claiming => proc[p].step \in Claiming)
       \/ refunds' = refunds + 1 /\ proc[p].step \in Claiming /\ proc'[p].step \notin Claiming

\* ... or the end of one that is undone.
Undoes(p) ==
    /\ Others(p) /\ At(p, "undo") /\ proc'[p].step = "idle"
    /\ refunds' = refunds /\ reopened' = reopened

Untouched == UNCHANGED <<row, proc, refunds, reopened>>

\* A step that leaves the refunds and the row's status alone, and one that counts.
LEMMA LooseBy ==
  ASSUME HistoriesOK, NEW p \in Procs, Others(p), proc'[p].step \notin Holding, refunds' = refunds,
         \/ reopened' = reopened /\ (row.status = "deleted" => row'.status = "deleted")
         \/ CountReopened
  PROVE  Loose(p)
<1>1. reopened \in Nat
  BY DEF HistoriesOK
<1>2. CASE reopened' = reopened /\ (row.status = "deleted" => row'.status = "deleted")
  BY <1>1, <1>2 DEF Loose
<1>3. CASE CountReopened
  BY <1>1, <1>3 DEF CountReopened, Loose
<1>4. QED
  BY <1>2, <1>3

\* A request begins.
LEMMA ArriveBegins ==
  ASSUME NEW h \in Handlers, Arrive(h)
  PROVE  \E kind \in Kinds, step \in {"renew", "extend", "stop", "suspend", "unsuspend", "claim", "work"} :
            /\ \E g, quote : Arrives(h, kind, step, g, quote)
            /\ step = "renew" => row.status # "deleted"
<1>1. CASE StartRenew(h) \/ StartExtend(h)
  <2>1. PICK kind \in {"renew", "extend"} :
          (\E g : Arrives(h, kind, kind, g, 0)) /\ (kind = "renew" => row.status # "deleted")
    BY <1>1 DEF StartRenew, StartExtend
  <2>2. QED
    BY <2>1 DEF Kinds
<1>2. CASE StartSuspend(h) \/ StartUnsuspend(h)
  <2>1. PICK kind \in {"suspend", "unsuspend"}, step \in {"stop", "suspend", "unsuspend"} :
          Arrives(h, kind, step, NoGrant, 0)
    BY <1>2 DEF StartSuspend, StartUnsuspend
  <2>2. QED
    BY <2>1 DEF Kinds
<1>3. CASE StartDestroy(h) \/ StartRemove(h) \/ StartAdminRemove(h)
  <2>1. PICK kind \in {"destroy", "remove", "adminRemove"} :
                  \E quote : Arrives(h, kind, "claim", NoGrant, quote)
    BY <1>3 DEF StartDestroy, StartRemove, StartAdminRemove
  <2>2. QED
    BY <2>1 DEF Kinds
<1>4. ASSUME NEW kind \in {"power", "recreate"}, StartTask(h, kind)
      PROVE  \E k \in Kinds, step \in {"renew", "extend", "stop", "suspend", "unsuspend", "claim", "work"} :
                /\ \E g, quote : Arrives(h, k, step, g, quote)
                /\ step = "renew" => row.status # "deleted"
  <2>1. Arrives(h, kind, "work", NoGrant, 0) /\ kind \in Kinds
    BY <1>4 DEF StartTask, Kinds
  <2>2. QED
    BY <2>1
<1>5. QED
  BY <1>1, <1>2, <1>3, <1>4 DEF Arrive

\* Which step is which.
LEMMA StepClass ==
  ASSUME IInv, [Next]_vars
  PROVE  Untouched \/ \E p \in Procs : Loose(p) \/ Claims(p) \/ Carries(p) \/ Undoes(p)
<1>1. TypeOK /\ HistoriesOK /\ KindInv /\ row \in Rows /\ refunds \in Nat
  BY Types DEF IInv
<1>2. CASE UNCHANGED vars \/ Tick
  BY <1>2 DEF vars, histories, Tick, Untouched
<1>3. ASSUME NEW h \in Handlers, Arrive(h) PROVE \E p \in Procs : Loose(p)
  <2>1. PICK kind, step, g, quote :
           /\ kind \in Kinds /\ step \in {"renew", "extend", "stop", "suspend", "unsuspend", "claim", "work"}
           /\ Arrives(h, kind, step, g, quote)
    BY <1>3, ArriveBegins
  <2>2. h \in Procs /\ Others(h) /\ proc'[h].step \notin Holding
    BY <1>1, <2>1, Begins DEF Holding, Claiming
  <2>3. UNCHANGED <<row, refunds, reopened>>
    BY <2>1 DEF Arrives, histories
  <2>4. QED
    BY <1>1, <2>2, <2>3, LooseBy
<1>4. CASE AutoRenew \/ ListExpired \/ StartSync
  <2>1. PICK j, step, g : j \in Jobs /\ step \in {"renew", "claim", "look"} /\ Fires(j, step, g)
    BY <1>4 DEF AutoRenew, ListExpired, StartSync, Jobs
  <2>2. j \in Procs /\ Others(j) /\ proc'[j].step \notin Holding
    BY <1>1, <2>1, Begins DEF Holding, Claiming
  <2>3. UNCHANGED <<row, refunds, reopened>>
    BY <2>1 DEF Fires, histories
  <2>4. QED
    BY <1>1, <2>2, <2>3, LooseBy
<1>5. CASE SuspendExpired \/ JobStep
  <2>1. "suspender" \in Procs /\ "deleter" \in Procs /\ "sync" \in Procs
    BY DEF Procs, Jobs
  <2>2. CASE SuspendExpired
    <3>1. Goto("suspender", "stop") /\ row.status # "deleted" /\ UNCHANGED <<refunds, reopened>>
      BY <2>2 DEF SuspendExpired, Overdue, Goto, histories
    <3>2. Others("suspender") /\ proc'["suspender"].step \notin Holding
      BY <1>1, <2>1, <3>1, Goes DEF Holding, Claiming
    <3>3. QED
      BY <1>1, <2>1, <3>1, <3>2, LooseBy
  <2>3. CASE StopExpired
    <3>1. Finish("suspender") /\ UNCHANGED <<row, refunds, reopened>>
      BY <2>3 DEF StopExpired, histories
    <3>2. Others("suspender") /\ proc'["suspender"].step \notin Holding
      BY <1>1, <2>1, <3>1, Goes DEF Holding, Claiming
    <3>3. QED
      BY <1>1, <2>1, <3>1, <3>2, LooseBy
  <2>4. CASE ClaimExpired
    <3>1. /\ At("deleter", "claim") /\ Goto("deleter", "delete") /\ UNCHANGED <<refunds, reopened>>
          /\ row' = [row EXCEPT !.status = "deleted", !.version = @ + 1] /\ row.status = "suspended"
      BY <2>4 DEF ClaimExpired, Overripe, IsExpired, histories
    <3>2. Others("deleter") /\ proc'["deleter"].step = "delete"
      BY <1>1, <2>1, <3>1, Goes
    <3>3. row'.status = "deleted" /\ row.status # "deleted"
      BY <1>1, <3>1 DEF Rows
    <3>4. ~Holds("deleter")
      BY <3>1 DEF Holds, Holding, Claiming, At
    <3>5. QED
      BY <2>1, <3>1, <3>2, <3>3, <3>4 DEF Claims
  <2>5. CASE Look
    <3>1. UNCHANGED <<row, refunds, reopened>>
      BY <2>5 DEF Look, histories
    <3>2. \/ Others("sync") /\ proc'["sync"].step = "apply"
          \/ Finish("sync")
      BY <1>1, <2>1, <2>5, Looks
    <3>3. Others("sync") /\ proc'["sync"].step \notin Holding
      BY <1>1, <2>1, <3>2, Goes DEF Holding, Claiming
    <3>4. QED
      BY <1>1, <2>1, <3>1, <3>3, LooseBy
  <2>6. CASE Apply
    <3>1. At("sync", "apply") /\ Finish("sync") /\ UNCHANGED <<refunds, reopened>>
      BY <2>6 DEF Apply, histories
    <3>2. Others("sync") /\ proc'["sync"].step \notin Holding
      BY <1>1, <2>1, <3>1, Goes DEF Holding, Claiming
    <3>3. row.status = "deleted" => row'.status = "deleted"
      <4>1. Saw("sync").status # "deleted"
        BY <1>1, <2>1, <3>1 DEF KindInv, KindOK, At, Saw
      <4>2. QED
        BY <1>1, <2>6, <4>1 DEF Apply, StillAsRead, Rows
    <3>4. QED
      BY <1>1, <2>1, <3>1, <3>2, <3>3, LooseBy
  <2>7. QED
    BY <1>5, <2>2, <2>3, <2>4, <2>5, <2>6 DEF JobStep
<1>6. ASSUME NEW p \in Procs, Continue(p) \/ GiveUp(p)
      PROVE  Loose(p) \/ Claims(p) \/ Carries(p) \/ Undoes(p)
  <2>1. Finish(p) => Others(p) /\ proc'[p].step = "idle" /\ proc'[p].step \notin Holding
    BY <1>1, Goes DEF Holding, Claiming
  <2>2. CASE Renew(p) \/ RenewRefused(p) \/ ClaimRefused(p) \/ GiveUp(p) \/ Result(p) \/ Release(p)
    <3>1. Finish(p) /\ UNCHANGED <<refunds, reopened>>
      BY <2>2 DEF Renew, RenewRefused, ClaimRefused, GiveUp, Result, Release, histories
    <3>2. row.status = "deleted" => row'.status = "deleted"
      BY <2>2 DEF Renew, Unchanged, RenewRefused, ClaimRefused, GiveUp, Result, Writable, Release
    <3>3. QED
      BY <1>1, <2>1, <3>1, <3>2, LooseBy
  <2>3. CASE Extend(p) \/ Suspend(p) \/ Unsuspend(p) \/ Recreated(p) \/ MarkError(p)
    <3>1. Finish(p) /\ CountReopened /\ refunds' = refunds
      BY <2>3 DEF Extend, Suspend, Unsuspend, Recreated, MarkError
    <3>2. QED
      BY <1>1, <2>1, <3>1, LooseBy
  <2>4. CASE StopFirst(p) \/ Wipe(p) \/ Create(p) \/ CreateFails(p) \/ RecreateFails(p) \/ Cleanup(p)
    <3>1. PICK s \in {"suspend", "create", "result", "fail", "cleanup"} : Goto(p, s)
      BY <2>4 DEF StopFirst, Wipe, Create, CreateFails, RecreateFails, Cleanup
    <3>2. UNCHANGED <<row, refunds, reopened>>
      BY <2>4 DEF StopFirst, Wipe, Create, CreateFails, RecreateFails, Cleanup, histories
    <3>3. Others(p) /\ proc'[p].step \notin Holding
      BY <1>1, <3>1, Goes DEF Holding, Claiming
    <3>4. QED
      BY <1>1, <3>2, <3>3, LooseBy
  <2>5. CASE Work(p) \/ Recreate(p)
    <3>1. UNCHANGED <<row, refunds, reopened>>
      BY <2>5 DEF Work, Recreate, histories
    <3>2. Others(p) /\ proc'[p].step \notin Holding
      BY <1>1, <2>5, Looks DEF Holding, Claiming
    <3>3. QED
      BY <1>1, <3>1, <3>2, LooseBy
  <2>6. CASE Claim(p)
    <3>1. PICK s \in {"settle", "delete"} : Goto(p, s)
      BY <2>6 DEF Claim
    <3>2. /\ At(p, "claim") /\ row' = [row EXCEPT !.status = "deleted"] /\ refunds' = refunds
          /\ row.status = Saw(p).status
          /\ reopened' = reopened + (IF Saw(p).status = "deleted" THEN 1 ELSE 0)
      BY <2>6 DEF Claim, StatusAsSeen
    <3>3. Others(p) /\ proc'[p].step = s
      BY <1>1, <3>1, Goes
    <3>4. row'.status = "deleted" /\ ~Holds(p)
      BY <1>1, <3>2 DEF Rows, Holds, Holding, Claiming, At
    <3>5. (row.status # "deleted" /\ reopened' = reopened) \/ reopened' = reopened + 1
      BY <1>1, <3>2 DEF HistoriesOK
    <3>6. QED
      BY <3>2, <3>3, <3>4, <3>5 DEF Claims
  <2>7. CASE DeleteOnHost(p) \/ DeleteFails(p) \/ AnswerLost(p) \/ SettleFails(p)
    <3>1. PICK s \in {"settle", "quote", "undo", "idle"} : Goto(p, s) \/ Finish(p)
      BY <2>7 DEF DeleteOnHost, AfterDelete, DeleteFails, AnswerLost, SettleFails
    <3>2. UNCHANGED <<row, refunds, reopened>> /\ proc[p].step \in Claiming
      BY <2>7 DEF DeleteOnHost, DeleteFails, AnswerLost, SettleFails, histories, At, Claiming
    <3>3. Others(p)
      BY <1>1, <3>1, Goes
    <3>4. QED
      BY <3>2, <3>3 DEF Carries, Holds, Holding
  <2>8. CASE QuoteRemoval(p)
    <3>1. UNCHANGED <<row, refunds, reopened>> /\ proc[p].step \in Claiming
      BY <2>8 DEF QuoteRemoval, histories, At, Claiming
    <3>2. Others(p)
      BY <1>1, <2>8, Looks
    <3>3. QED
      BY <3>1, <3>2 DEF Carries, Holds, Holding
  <2>9. CASE Settle(p)
    <3>1. /\ UNCHANGED <<row, reopened>> /\ proc[p].step \in Claiming
          /\ Goto(p, "release") \/ Finish(p)
          /\ refunds' = refunds + (IF proc[p].quote > 0 THEN 1 ELSE 0)
      BY <2>9 DEF Settle, histories, At, Claiming
    <3>2. Others(p) /\ proc'[p].step \notin Claiming
      BY <1>1, <3>1, Goes DEF Claiming
    <3>3. refunds' = refunds \/ refunds' = refunds + 1
      BY <1>1, <3>1
    <3>4. QED
      BY <3>1, <3>2, <3>3 DEF Carries, Holds, Holding
  <2>10. CASE Undo(p)
    BY <2>1, <2>10 DEF Undo, Undoes, histories
  <2>11. QED
    BY <1>6, <2>2, <2>3, <2>4, <2>5, <2>6, <2>7, <2>8, <2>9, <2>10 DEF Continue
<1>7. QED
  BY <1>2, <1>3, <1>4, <1>5, <1>6 DEF Next, Fire

\* There are finitely many.
LEMMA FiniteClaimants == IsFiniteSet(Claimants)
<1>1. IsFiniteSet(Procs)
  <2>1. IsFiniteSet(Jobs)
    <3>1. IsFiniteSet({"autoRenew"})
      BY FS_Singleton
    <3>2. IsFiniteSet({"autoRenew"} \cup {"suspender"})
      BY <3>1, FS_AddElement
    <3>3. IsFiniteSet(({"autoRenew"} \cup {"suspender"}) \cup {"deleter"})
      BY <3>2, FS_AddElement
    <3>4. IsFiniteSet((({"autoRenew"} \cup {"suspender"}) \cup {"deleter"}) \cup {"sync"})
      BY <3>3, FS_AddElement
    <3>5. Jobs = (({"autoRenew"} \cup {"suspender"}) \cup {"deleter"}) \cup {"sync"}
      BY DEF Jobs
    <3>6. QED
      BY <3>4, <3>5
  <2>2. QED
    BY <2>1, LifecycleAssumption, FS_Union DEF Procs
<1>2. Claimants \in SUBSET Procs
  BY DEF Claimants
<1>3. QED
  BY <1>1, <1>2, FS_Subset

\* One more, or one fewer.
LEMMA ClaimantsChange ==
  ASSUME NEW p \in Procs, Others(p)
  PROVE  /\ Cardinality(Claimants) \in Nat /\ Cardinality(Claimants') \in Nat
         /\ Cardinality(Claimants') <= Cardinality(Claimants) + 1
         /\ proc'[p].step \notin Claiming => Cardinality(Claimants') <= Cardinality(Claimants)
         /\ proc[p].step \in Claiming => Cardinality(Claimants') <= Cardinality(Claimants)
         /\ proc'[p].step \notin Claiming /\ proc[p].step \in Claiming =>
                Cardinality(Claimants') = Cardinality(Claimants) - 1
<1>1. IsFiniteSet(Claimants) /\ Cardinality(Claimants) \in Nat
  BY FiniteClaimants, FS_CardinalityType
<1>2. CASE proc'[p].step \in Claiming
  <2>1. Claimants' = Claimants \cup {p}
    BY <1>2 DEF Claimants, Others
  <2>2. proc[p].step \in Claiming => p \in Claimants
    BY DEF Claimants
  <2>3. Cardinality(Claimants') = IF p \in Claimants THEN Cardinality(Claimants) ELSE Cardinality(Claimants) + 1
    BY <1>1, <2>1, FS_AddElement
  <2>4. QED
    BY <1>1, <1>2, <2>2, <2>3
<1>3. CASE proc'[p].step \notin Claiming
  <2>1. Claimants' = Claimants \ {p}
    BY <1>3 DEF Claimants, Others
  <2>2. proc[p].step \in Claiming <=> p \in Claimants
    BY DEF Claimants
  <2>3. /\ Cardinality(Claimants') = IF p \in Claimants THEN Cardinality(Claimants) - 1 ELSE Cardinality(Claimants)
        /\ Cardinality(Claimants') \in Nat
    BY <1>1, <2>1, FS_RemoveElement, FS_CardinalityType
  <2>4. QED
    BY <1>1, <1>3, <2>2, <2>3
<1>4. QED
  BY <1>2, <1>3

\* No more deletions than before, or one more that is counted on the other side.
LEMMA Fewer ==
  ASSUME NEW c \in Nat, NEW d \in Nat, NEW f \in Nat, NEW r \in Nat, NEW s \in Nat,
         NEW a \in Nat, NEW b \in Nat, a <= 1, c + f <= a + r,
         d <= c, r <= s, a <= b \/ r < s
  PROVE  d + f <= b + s
OBVIOUS

LEMMA OneMore ==
  ASSUME NEW c \in Nat, NEW d \in Nat, NEW f \in Nat, NEW r \in Nat, NEW s \in Nat,
         NEW a \in Nat, a <= 1, c + f <= a + r,
         d <= c + 1, a + r <= s
  PROVE  d + f <= 1 + s
OBVIOUS

\* Every step keeps the count, whoever reopens what.
LEMMA StepCounted ==
  ASSUME IInv, Counted, [Next]_vars
  PROVE  Counted'
<1>1. refunds \in Nat /\ reopened \in Nat /\ reopened' \in Nat
  BY Types, HistoriesStep DEF HistoriesOK
<1>2. CASE Untouched
  BY <1>2 DEF Untouched, Counted, Claimants
<1>3. ASSUME NEW p \in Procs, Loose(p) \/ Claims(p) \/ Carries(p) \/ Undoes(p) PROVE Counted'
  <2>1. Others(p)
    BY <1>3 DEF Loose, Claims, Carries, Undoes
  <2>2. PICK c \in Nat, d \in Nat :
          /\ c = Cardinality(Claimants) /\ d = Cardinality(Claimants')
          /\ d <= c + 1
          /\ proc'[p].step \notin Claiming => d <= c
          /\ proc[p].step \in Claiming => d <= c
          /\ proc'[p].step \notin Claiming /\ proc[p].step \in Claiming => d = c - 1
    BY <2>1, ClaimantsChange
  <2>3. PICK a \in {0, 1}, b \in {0, 1} :
          /\ a = IF row.status = "deleted" THEN 1 ELSE 0
          /\ b = IF row'.status = "deleted" THEN 1 ELSE 0
          /\ c + refunds <= a + reopened
    BY <2>2 DEF Counted
  <2>4. SUFFICES d + refunds' <= b + reopened'
    BY <2>2, <2>3 DEF Counted
  <2>5. CASE Loose(p)
    <3>1. d <= c /\ refunds' = refunds /\ reopened <= reopened'
      BY <2>2, <2>5 DEF Loose, Holding
    <3>2. a <= b \/ reopened < reopened'
      BY <2>3, <2>5 DEF Loose
    <3>3. c + refunds <= a + reopened /\ a \in {0, 1} /\ b \in {0, 1} /\ c \in Nat /\ d \in Nat
      BY <2>2, <2>3
    <3>4. a \in Nat /\ a <= 1 /\ b \in Nat
      BY <3>3
    <3>5. d + refunds <= b + reopened'
      BY <1>1, <3>1, <3>2, <3>3, <3>4, Fewer
    <3>6. QED
      BY <3>1, <3>5
  <2>6. CASE Claims(p)
    <3>1. d <= c + 1 /\ refunds' = refunds /\ b = 1
      BY <2>2, <2>3, <2>6 DEF Claims
    <3>2. (a = 0 /\ reopened' = reopened) \/ reopened' = reopened + 1
      BY <2>3, <2>6 DEF Claims
    <3>3. c + refunds <= a + reopened /\ a \in {0, 1} /\ b \in {0, 1} /\ c \in Nat /\ d \in Nat
      BY <2>2, <2>3
    <3>4. a \in Nat /\ a <= 1 /\ b \in Nat
      BY <3>3
    <3>5. a + reopened <= reopened'
      BY <1>1, <3>2, <3>3, <3>4
    <3>6. d + refunds <= 1 + reopened'
      BY <1>1, <3>1, <3>3, <3>4, <3>5, OneMore
    <3>7. QED
      BY <3>1, <3>6
  <2>7. CASE Carries(p)
    <3>1. row' = row /\ reopened' = reopened
      BY <2>7 DEF Carries
    <3>2. CASE refunds' = refunds /\ (proc'[p].step \in Claiming => proc[p].step \in Claiming)
      <4>1. d <= c
        BY <2>2, <3>2
      <4>2. QED
        BY <1>1, <2>3, <3>1, <3>2, <4>1
    <3>3. CASE refunds' = refunds + 1 /\ proc[p].step \in Claiming /\ proc'[p].step \notin Claiming
      <4>1. d = c - 1
        BY <2>2, <3>3
      <4>2. QED
        BY <1>1, <2>3, <3>1, <3>3, <4>1
    <3>4. QED
      BY <2>7, <3>2, <3>3 DEF Carries
  <2>8. CASE Undoes(p)
    <3>1. d = c - 1 /\ refunds' = refunds /\ reopened' = reopened
      BY <2>2, <2>8 DEF Undoes, At, Claiming
    <3>2. QED
      BY <1>1, <2>3, <3>1
  <2>9. QED
    BY <1>3, <2>5, <2>6, <2>7, <2>8
<1>4. QED
  BY <1>2, <1>3, StepClass

\* Every step keeps what a deletion owns.
LEMMA StepAlone ==
  ASSUME IInv, Alone, [Next]_vars
  PROVE  Alone'
<1>1. SUFFICES ASSUME reopened' = 0
      PROVE  /\ \A q \in Procs : Holds(q)' => row'.status = "deleted"
             /\ \A q, r \in Procs : Holds(q)' /\ Holds(r)' => q = r
  BY DEF Alone
<1>2. reopened = 0 /\ reopened' = reopened
  BY <1>1, Types, HistoriesStep DEF HistoriesOK, Grows
<1>3. /\ \A q \in Procs : Holds(q) => row.status = "deleted"
      /\ \A q, r \in Procs : Holds(q) /\ Holds(r) => q = r
  BY <1>2 DEF Alone
<1>4. CASE Untouched
  BY <1>3, <1>4 DEF Untouched, Holds
<1>5. ASSUME NEW p \in Procs, Loose(p)
      PROVE  /\ \A q \in Procs : Holds(q)' => row'.status = "deleted"
             /\ \A q, r \in Procs : Holds(q)' /\ Holds(r)' => q = r
  <2>1. \A q \in Procs : Holds(q)' => Holds(q)
    BY <1>5 DEF Loose, Others, Holds
  <2>2. row.status = "deleted" => row'.status = "deleted"
    BY <1>2, <1>5 DEF Loose
  <2>3. QED
    BY <1>3, <2>1, <2>2
<1>6. ASSUME NEW p \in Procs, Claims(p)
      PROVE  /\ \A q \in Procs : Holds(q)' => row'.status = "deleted"
             /\ \A q, r \in Procs : Holds(q)' /\ Holds(r)' => q = r
  <2>1. row.status # "deleted" /\ row'.status = "deleted"
    BY <1>1, <1>2, <1>6 DEF Claims
  <2>2. \A q \in Procs : Holds(q)' => q = p
    BY <1>3, <1>6, <2>1 DEF Claims, Others, Holds
  <2>3. QED
    BY <2>1, <2>2
<1>7. ASSUME NEW p \in Procs, Carries(p)
      PROVE  /\ \A q \in Procs : Holds(q)' => row'.status = "deleted"
             /\ \A q, r \in Procs : Holds(q)' /\ Holds(r)' => q = r
  <2>1. row' = row /\ \A q \in Procs : Holds(q)' => Holds(q)
    BY <1>7 DEF Carries, Others, Holds
  <2>2. QED
    BY <1>3, <2>1
<1>8. ASSUME NEW p \in Procs, Undoes(p)
      PROVE  /\ \A q \in Procs : Holds(q)' => row'.status = "deleted"
             /\ \A q, r \in Procs : Holds(q)' /\ Holds(r)' => q = r
  <2>1. Holds(p) /\ ~Holds(p)'
    BY <1>8 DEF Undoes, Holds, Holding, Claiming, At
  <2>2. \A q \in Procs : ~Holds(q)'
    BY <1>3, <1>8, <2>1 DEF Undoes, Others, Holds
  <2>3. QED
    BY <2>2
<1>9. QED
  BY <1>4, <1>5, <1>6, <1>7, <1>8, StepClass

-------------------------------------------------------------------------------
(* The names of containers *)

\* Nobody knows a name newer than the row's; the container a recreation has made is
\* newer, and there.
Names ==
    /\ row.incusId <= container.incusId
    /\ \A p \in Procs : /\ Saw(p).incusId <= row.incusId
                        /\ At(p, "result") /\ proc[p].kind = "recreate" =>
                              row.incusId < container.incusId /\ container.status # "gone"

\* What a process knows of the row it knew before or reads now.
LEMMA Reads ==
  ASSUME IInv, [Next]_vars
  PROVE  \A q \in Procs : Saw(q)' \in {Saw(q), row, Fresh(0)}
<1>1. TypeOK
  BY DEF IInv
<1>2. ASSUME NEW p \in Procs, Others(p), proc'[p].saw \in {proc[p].saw, row, Fresh(0)}
      PROVE  \A q \in Procs : Saw(q)' \in {Saw(q), row, Fresh(0)}
  BY <1>2 DEF Others, Saw
<1>3. CASE UNCHANGED vars \/ Tick
  BY <1>3 DEF vars, Tick, Saw
<1>4. ASSUME NEW h \in Handlers, Arrive(h) PROVE \A q \in Procs : Saw(q)' \in {Saw(q), row, Fresh(0)}
  <2>1. PICK kind, step, g, quote : kind \in Kinds /\ Arrives(h, kind, step, g, quote)
    BY <1>4, ArriveBegins
  <2>2. h \in Procs /\ Others(h) /\ proc'[h].saw = row
    BY <1>1, <2>1, Begins
  <2>3. QED
    BY <1>2, <2>2
<1>5. CASE AutoRenew \/ ListExpired \/ StartSync
  <2>1. PICK j, step, g : j \in Jobs /\ step \in {"renew", "claim", "look"} /\ Fires(j, step, g)
    BY <1>5 DEF AutoRenew, ListExpired, StartSync, Jobs
  <2>2. j \in Procs /\ Others(j) /\ proc'[j].saw = row
    BY <1>1, <2>1, Begins
  <2>3. QED
    BY <1>2, <2>2
<1>6. ASSUME NEW p \in Procs, NEW s, Goto(p, s) \/ Finish(p)
      PROVE  \A q \in Procs : Saw(q)' \in {Saw(q), row, Fresh(0)}
  BY <1>1, <1>2, <1>6, Goes
<1>7. CASE SuspendExpired \/ JobStep
  <2>1. "suspender" \in Procs /\ "deleter" \in Procs /\ "sync" \in Procs
    BY DEF Procs, Jobs
  <2>2. CASE SuspendExpired
    BY <1>6, <2>1, <2>2 DEF SuspendExpired, Goto
  <2>3. CASE StopExpired \/ ClaimExpired \/ Apply
    BY <1>6, <2>1, <2>3 DEF StopExpired, ClaimExpired, Apply
  <2>4. CASE Look
    <3>1. Others("sync") /\ proc'["sync"].saw \in {proc["sync"].saw, Fresh(0)}
      BY <1>1, <2>1, <2>4, Looks, Goes
    <3>2. QED
      BY <1>2, <2>1, <3>1
  <2>5. QED
    BY <1>7, <2>2, <2>3, <2>4 DEF JobStep
<1>8. ASSUME NEW p \in Procs, Continue(p) \/ GiveUp(p)
      PROVE  \A q \in Procs : Saw(q)' \in {Saw(q), row, Fresh(0)}
  <2>1. CASE QuoteRemoval(p) \/ Work(p) \/ Recreate(p)
    BY <1>1, <1>2, <2>1, Looks
  <2>2. CASE \E s : Goto(p, s) \/ Finish(p)
    BY <1>6, <2>2
  <2>3. CASE \/ Renew(p) \/ RenewRefused(p) \/ Extend(p) \/ StopFirst(p) \/ Suspend(p) \/ Unsuspend(p)
             \/ Claim(p) \/ ClaimRefused(p) \/ DeleteOnHost(p) \/ DeleteFails(p) \/ AnswerLost(p)
    BY <2>2, <2>3 DEF Renew, RenewRefused, Extend, StopFirst, Suspend, Unsuspend, Claim, ClaimRefused,
                      DeleteOnHost, AfterDelete, DeleteFails, AnswerLost
  <2>4. CASE \/ Undo(p) \/ Settle(p) \/ SettleFails(p) \/ Release(p) \/ Result(p) \/ Wipe(p)
             \/ Create(p) \/ CreateFails(p) \/ Recreated(p) \/ RecreateFails(p) \/ Cleanup(p)
             \/ MarkError(p) \/ GiveUp(p)
    BY <2>2, <2>4 DEF Undo, Settle, SettleFails, Release, Result, Wipe, Create, CreateFails, Recreated,
                      RecreateFails, Cleanup, MarkError, GiveUp
  <2>5. QED
    BY <1>8, <2>1, <2>3, <2>4 DEF Continue
<1>9. QED
  BY <1>3, <1>4, <1>5, <1>7, <1>8 DEF Next, Fire

\* Only the end of a recreation gives the row another name...
LEMMA RowNames ==
  ASSUME IInv, [Next]_vars
  PROVE  \/ row'.incusId = row.incusId
         \/ \E p \in Procs : Recreated(p) /\ row'.incusId = container.incusId
<1>1. row \in Rows
  BY Types
<1>2. CASE row' = row
  BY <1>2
<1>3. ASSUME NEW p \in Procs,
             \/ Renew(p) \/ Extend(p) \/ Suspend(p) \/ Unsuspend(p) \/ Claim(p) \/ Undo(p) \/ Result(p)
             \/ MarkError(p)
      PROVE  row'.incusId = row.incusId
  <2>1. CASE Renew(p) \/ Extend(p)
    BY <1>1, <2>1 DEF Renew, Extend, Lifted, Rows
  <2>2. CASE Suspend(p) \/ Unsuspend(p) \/ Claim(p) \/ MarkError(p)
    BY <1>1, <2>2 DEF Suspend, Unsuspend, Lifted, Claim, MarkError, Rows
  <2>3. CASE Undo(p) \/ Result(p)
    BY <1>1, <2>3 DEF Undo, Result, Rows
  <2>4. QED
    BY <1>3, <2>1, <2>2, <2>3
<1>4. CASE SuspendExpired \/ ClaimExpired \/ Apply
  BY <1>1, <1>4 DEF SuspendExpired, Expired, ClaimExpired, Apply, Rows
<1>5. ASSUME NEW p \in Procs, Recreated(p)
      PROVE  row'.incusId = container.incusId
  BY <1>1, <1>5 DEF Recreated, Rows
<1>6. CASE UNCHANGED vars \/ Tick \/ StopExpired \/ Look
  BY <1>2, <1>6 DEF vars, Tick, StopExpired, Look
<1>7. ASSUME NEW h \in Handlers, Arrive(h) PROVE row' = row
  <2>1. PICK kind, step, g, quote : kind \in Kinds /\ Arrives(h, kind, step, g, quote)
    BY <1>7, ArriveBegins
  <2>2. QED
    BY <2>1 DEF Arrives
<1>8. CASE AutoRenew \/ ListExpired \/ StartSync
  BY <1>2, <1>8 DEF AutoRenew, ListExpired, StartSync, Fires
<1>9. ASSUME NEW p \in Procs,
             \/ RenewRefused(p) \/ StopFirst(p) \/ ClaimRefused(p) \/ DeleteOnHost(p) \/ DeleteFails(p)
             \/ AnswerLost(p) \/ QuoteRemoval(p) \/ Settle(p) \/ SettleFails(p) \/ Release(p) \/ Work(p)
             \/ Recreate(p) \/ Wipe(p) \/ Create(p) \/ CreateFails(p) \/ RecreateFails(p) \/ Cleanup(p)
             \/ GiveUp(p)
      PROVE  row' = row
  BY <1>9 DEF RenewRefused, StopFirst, ClaimRefused, DeleteOnHost, DeleteFails, AnswerLost, QuoteRemoval,
              Settle, SettleFails, Release, Work, Recreate, Wipe, Create, CreateFails, RecreateFails,
              Cleanup, GiveUp
<1>10. QED
  BY <1>2, <1>3, <1>4, <1>5, <1>6, <1>7, <1>8, <1>9 DEF Next, Fire, JobStep, Continue

\* ... and what becomes of the container.
Kept == container'.incusId = container.incusId /\ (container.status # "gone" => container'.status # "gone")
Lost(p) ==
    \/ DeleteOnHost(p) /\ Saw(p).incusId = container.incusId
    \/ AnswerLost(p) /\ Saw(p).incusId = container.incusId
    \/ Release(p) /\ Saw(p).incusId = container.incusId
    \/ Wipe(p) /\ Saw(p).incusId = container.incusId
    \/ Cleanup(p)
Made(p) == (Create(p) \/ CreateFails(p)) /\ container' = NewContainer

LEMMA Containing ==
  ASSUME IInv, [Next]_vars
  PROVE  Kept \/ \E p \in Procs : (container'.incusId = container.incusId /\ Lost(p)) \/ Made(p)
<1>1. container \in [status : Containers, incusId : Nat]
  BY Types
<1>2. ASSUME container' = container PROVE Kept
  BY <1>2 DEF Kept
<1>3. ASSUME Stopped PROVE Kept
  BY <1>1, <1>3 DEF Stopped, Kept
<1>4. ASSUME NEW p \in Procs, container' = Without(Saw(p).incusId)
      PROVE  /\ container'.incusId = container.incusId
             /\ Saw(p).incusId = container.incusId \/ Kept
  BY <1>1, <1>4 DEF Without, Kept
<1>5. ASSUME NEW p \in Procs, Work(p) PROVE Kept
  BY <1>1, <1>5 DEF Work, Kept
<1>6. ASSUME NEW p \in Procs, Cleanup(p) PROVE container'.incusId = container.incusId
  BY <1>1, <1>6 DEF Cleanup, Without
<1>7. CASE UNCHANGED vars \/ Tick \/ Look \/ ClaimExpired \/ Apply \/ SuspendExpired
  BY <1>2, <1>7 DEF vars, Tick, Look, ClaimExpired, Apply, SuspendExpired
<1>8. ASSUME NEW h \in Handlers, Arrive(h) PROVE container' = container
  <2>1. PICK kind, step, g, quote : kind \in Kinds /\ Arrives(h, kind, step, g, quote)
    BY <1>8, ArriveBegins
  <2>2. QED
    BY <2>1 DEF Arrives
<1>9. CASE AutoRenew \/ ListExpired \/ StartSync
  BY <1>2, <1>9 DEF AutoRenew, ListExpired, StartSync, Fires
<1>10. CASE StopExpired
  BY <1>3, <1>10 DEF StopExpired
<1>11. ASSUME NEW p \in Procs,
             \/ Renew(p) \/ RenewRefused(p) \/ Extend(p) \/ Suspend(p) \/ Unsuspend(p) \/ Claim(p)
             \/ ClaimRefused(p) \/ DeleteFails(p) \/ Undo(p) \/ QuoteRemoval(p) \/ Settle(p)
             \/ SettleFails(p) \/ Result(p) \/ Recreate(p) \/ Recreated(p) \/ RecreateFails(p)
             \/ MarkError(p) \/ GiveUp(p)
      PROVE  container' = container
  BY <1>11 DEF Renew, RenewRefused, Extend, Suspend, Unsuspend, Claim, ClaimRefused, DeleteFails, Undo,
               QuoteRemoval, Settle, SettleFails, Result, Recreate, Recreated, RecreateFails, MarkError,
               GiveUp
<1>12. ASSUME NEW p \in Procs, DeleteOnHost(p) \/ AnswerLost(p) \/ Release(p) \/ Wipe(p)
       PROVE  Kept \/ (container'.incusId = container.incusId /\ Lost(p))
  <2>1. container' = container \/ container' = Without(Saw(p).incusId)
    BY <1>12 DEF DeleteOnHost, AnswerLost, Release, Wipe
  <2>2. QED
    BY <1>2, <1>4, <1>12, <2>1 DEF Lost
<1>13. ASSUME NEW p \in Procs, Create(p) \/ CreateFails(p) PROVE Kept \/ Made(p)
  BY <1>2, <1>13 DEF Create, CreateFails, Made
<1>14. ASSUME NEW p \in Procs, StopFirst(p) PROVE Kept
  BY <1>3, <1>14 DEF StopFirst
<1>15. QED
  BY <1>2, <1>5, <1>6, <1>7, <1>8, <1>9, <1>10, <1>11, <1>12, <1>13, <1>14
     DEF Next, Fire, JobStep, Continue, Lost

\* Recreations come to their result one at a time.
LEMMA ResultOf ==
  ASSUME IInv, [Next]_vars, NEW q \in Procs, proc'[q].step = "result", proc'[q].kind = "recreate"
  PROVE  \/ Create(q)
         \/ At(q, "result") /\ proc[q].kind = "recreate"
<1>1. TypeOK /\ proc \in [Procs -> ProcType]
  BY Shapes DEF IInv
<1>2. ASSUME NEW p \in Procs, Others(p), proc'[p].step # "result"
      PROVE  At(q, "result") /\ proc[q].kind = "recreate"
  BY <1>2 DEF Others, At
<1>3. CASE UNCHANGED vars \/ Tick
  BY <1>3 DEF vars, Tick, At
<1>4. ASSUME NEW h \in Handlers, Arrive(h) PROVE At(q, "result") /\ proc[q].kind = "recreate"
  <2>1. PICK kind, step, g, quote :
           /\ kind \in Kinds /\ step \in {"renew", "extend", "stop", "suspend", "unsuspend", "claim", "work"}
           /\ Arrives(h, kind, step, g, quote)
    BY <1>4, ArriveBegins
  <2>2. h \in Procs /\ Others(h) /\ proc'[h].step # "result"
    BY <1>1, <2>1, Begins
  <2>3. QED
    BY <1>2, <2>2
<1>5. CASE AutoRenew \/ ListExpired \/ StartSync
  <2>1. PICK j, step, g : j \in Jobs /\ step \in {"renew", "claim", "look"} /\ Fires(j, step, g)
    BY <1>5 DEF AutoRenew, ListExpired, StartSync, Jobs
  <2>2. j \in Procs /\ Others(j) /\ proc'[j].step # "result"
    BY <1>1, <2>1, Begins
  <2>3. QED
    BY <1>2, <2>2
<1>6. ASSUME NEW p \in Procs, Finish(p) PROVE At(q, "result") /\ proc[q].kind = "recreate"
  BY <1>1, <1>2, <1>6, Goes
<1>7. ASSUME NEW p \in Procs, NEW s, s # "result", Goto(p, s)
      PROVE  At(q, "result") /\ proc[q].kind = "recreate"
  BY <1>1, <1>2, <1>7, Goes
<1>8. CASE SuspendExpired \/ JobStep
  <2>1. "suspender" \in Procs /\ "deleter" \in Procs /\ "sync" \in Procs
    BY DEF Procs, Jobs
  <2>2. CASE SuspendExpired \/ ClaimExpired
    <3>1. Goto("suspender", "stop") \/ Goto("deleter", "delete")
      BY <2>2 DEF SuspendExpired, ClaimExpired, Goto
    <3>2. QED
      BY <1>7, <2>1, <3>1
  <2>3. CASE StopExpired \/ Apply
    BY <1>6, <2>1, <2>3 DEF StopExpired, Apply
  <2>4. CASE Look
    <3>1. Others("sync") /\ proc'["sync"].step # "result"
      BY <1>1, <2>1, <2>4, Looks, Goes
    <3>2. QED
      BY <1>2, <2>1, <3>1
  <2>5. QED
    BY <1>8, <2>2, <2>3, <2>4 DEF JobStep
<1>9. ASSUME NEW p \in Procs, Continue(p) \/ GiveUp(p)
      PROVE  Create(q) \/ (At(q, "result") /\ proc[q].kind = "recreate")
  <2>1. CASE Create(p)
    <3>1. Others(p)
      BY <1>1, <2>1, Goes DEF Create
    <3>2. QED
      BY <2>1, <3>1 DEF Others, At
  <2>2. CASE Work(p)
    <3>1. Others(p) /\ proc'[p].kind = proc[p].kind /\ proc[p].kind = "power"
      BY <1>1, <2>2, Looks DEF Work
    <3>2. QED
      BY <3>1 DEF Others, At
  <2>3. CASE QuoteRemoval(p) \/ Recreate(p)
    BY <1>1, <1>2, <2>3, Looks
  <2>4. CASE \/ Renew(p) \/ RenewRefused(p) \/ Extend(p) \/ Suspend(p) \/ Unsuspend(p) \/ ClaimRefused(p)
             \/ Undo(p) \/ Release(p) \/ Result(p) \/ Recreated(p) \/ MarkError(p) \/ GiveUp(p)
    BY <1>6, <2>4 DEF Renew, RenewRefused, Extend, Suspend, Unsuspend, ClaimRefused, Undo, Release,
                      Result, Recreated, MarkError, GiveUp
  <2>5. CASE \/ StopFirst(p) \/ Claim(p) \/ DeleteOnHost(p) \/ DeleteFails(p) \/ AnswerLost(p) \/ Settle(p)
             \/ SettleFails(p) \/ Wipe(p) \/ CreateFails(p) \/ RecreateFails(p) \/ Cleanup(p)
    <3>1. Finish(p) \/ \E s \in {"suspend", "settle", "delete", "quote", "undo", "release", "create", "fail", "cleanup"} :
             Goto(p, s)
      BY <2>5 DEF StopFirst, Claim, DeleteOnHost, AfterDelete, DeleteFails, AnswerLost, Settle, SettleFails,
                  Wipe, CreateFails, RecreateFails, Cleanup
    <3>2. QED
      BY <1>6, <1>7, <3>1
  <2>6. QED
    BY <1>9, <2>1, <2>2, <2>3, <2>4, <2>5 DEF Continue
<1>10. QED
  BY <1>3, <1>4, <1>5, <1>8, <1>9 DEF Next, Fire

\* A task under way is the only one.
LEMMA OneTask ==
  ASSUME KindInv, NEW p \in Procs, NEW q \in Procs, proc[p].kind \in TaskKinds, proc[q].kind \in TaskKinds
  PROVE  p = q
BY DEF KindInv, KindOK

\* Every step keeps the names.
LEMMA StepNames ==
  ASSUME IInv, Names, [Next]_vars
  PROVE  Names'
<1>1. /\ row.incusId \in Nat /\ container.incusId \in Nat /\ KindInv
      /\ \A q \in Procs : Saw(q).incusId \in Nat
      /\ container \in [status : Containers, incusId : Nat]
  BY Types DEF Rows, IInv
<1>2. /\ row'.incusId \in Nat /\ container'.incusId \in Nat
  BY NextInv DEF IInv, TypeOK, Rows
<1>3. row.incusId <= row'.incusId /\ row'.incusId <= container.incusId
  BY <1>1, RowNames DEF Names
<1>4. /\ container.incusId <= container'.incusId
      /\ \A p \in Procs : Made(p) => container'.incusId = container.incusId + 1 /\ container'.status = "running"
  <2>1. \A p \in Procs : Made(p) => container'.incusId = container.incusId + 1 /\ container'.status = "running"
    BY DEF Made, NewContainer
  <2>2. container.incusId <= container'.incusId
    BY <1>1, <2>1, Containing DEF Kept
  <2>3. QED
    BY <2>1, <2>2
<1>5. \A q \in Procs : Saw(q)'.incusId <= row'.incusId
  <2>1. ASSUME NEW q \in Procs PROVE Saw(q)'.incusId <= row'.incusId
    <3>1. Saw(q)' = Saw(q) \/ Saw(q)' = row \/ Saw(q)' = Fresh(0)
      BY Reads
    <3>2. Saw(q)'.incusId <= row.incusId /\ Saw(q)'.incusId \in Nat
      BY <1>1, <3>1 DEF Names, Fresh
    <3>3. QED
      BY <1>1, <1>2, <1>3, <3>2
  <2>2. QED
    BY <2>1
<1>6. ASSUME NEW q \in Procs, proc'[q].step = "result", proc'[q].kind = "recreate"
      PROVE  row'.incusId < container'.incusId /\ container'.status # "gone"
  <2>1. CASE Create(q)
    <3>1. Made(q) /\ row' = row
      BY <2>1 DEF Create, Made
    <3>2. QED
      BY <1>1, <1>4, <3>1 DEF Names
  <2>2. CASE At(q, "result") /\ proc[q].kind = "recreate"
    <3>1. row.incusId < container.incusId /\ container.status # "gone"
      BY <2>2 DEF Names
    <3>2. row'.incusId = row.incusId
      <4>1. ASSUME NEW p \in Procs, Recreated(p) PROVE FALSE
        <5>1. proc[p].kind = "recreate" /\ Finish(p)
          BY <4>1 DEF Recreated
        <5>2. p = q
          BY <1>1, <2>2, <5>1, OneTask DEF TaskKinds
        <5>3. proc'[p].step = "idle"
          BY <5>1, Goes DEF IInv
        <5>4. QED
          BY <1>6, <5>2, <5>3
      <4>2. QED
        BY <4>1, RowNames
    <3>3. ASSUME NEW p \in Procs, Lost(p) PROVE FALSE
      <4>1. CASE Saw(p).incusId = container.incusId
        BY <1>1, <3>1, <4>1 DEF Names
      <4>2. CASE Cleanup(p)
        <5>1. At(p, "cleanup") /\ proc[p].kind = "recreate"
          BY <1>1, <4>2 DEF Cleanup, KindInv, KindOK, At
        <5>2. p = q
          BY <1>1, <2>2, <5>1, OneTask DEF TaskKinds
        <5>3. QED
          BY <2>2, <5>1, <5>2 DEF At
      <4>3. QED
        BY <3>3, <4>1, <4>2 DEF Lost
    <3>4. CASE Kept
      BY <3>1, <3>2, <3>4 DEF Kept
    <3>5. ASSUME NEW p \in Procs, Made(p) PROVE row'.incusId < container'.incusId /\ container'.status # "gone"
      BY <1>1, <1>2, <1>4, <3>1, <3>2, <3>5
    <3>6. QED
      BY <3>3, <3>4, <3>5, Containing
  <2>3. QED
    BY <1>6, <2>1, <2>2, ResultOf
<1>7. QED
  BY <1>1, <1>2, <1>3, <1>4, <1>5, <1>6 DEF Names, At

-------------------------------------------------------------------------------
(* The container of an instance that is not deleted *)

\* Deleted for good: no deletion that can still be undone is under way.
Gone ==
    /\ row.status = "deleted"
    /\ \A p \in Procs : /\ ~At(p, "delete") /\ ~At(p, "undo")
                        /\ At(p, "settle") => proc[p].kind # "adminRemove"

Building == \E h \in Handlers : HalfWay(h)

GoneInv == torn \/ reopened > 0 \/ Present \/ Building \/ Gone

\* A step of a process that builds nothing, takes nothing from the host and revives nothing.
LEMMA QuietStep ==
  ASSUME IInv, NEW p \in Procs, Others(p), ~HalfWay(p), Present \/ Building \/ Gone,
         row'.incusId = row.incusId, Kept,
         Gone => /\ row'.status = "deleted" /\ proc'[p].step \notin {"delete", "undo"}
                 /\ proc'[p].step = "settle" => proc'[p].kind # "adminRemove"
  PROVE  Present' \/ Building' \/ Gone'
<1>1. CASE Present
  BY <1>1 DEF Present, Kept
<1>2. CASE Building
  <2>1. PICK h \in Handlers : HalfWay(h)
    BY <1>2 DEF Building
  <2>2. h \in Procs /\ h # p
    BY <2>1 DEF Procs
  <2>3. HalfWay(h)'
    BY <2>1, <2>2 DEF Others, HalfWay, At
  <2>4. QED
    BY <2>3 DEF Building
<1>3. CASE Gone
  BY <1>3 DEF Gone, Others, At
<1>4. QED
  BY <1>1, <1>2, <1>3

\* A step after which a recreation is half way.
LEMMA BuildStep ==
  ASSUME IInv, NEW p \in Procs, proc[p].kind = "recreate", proc'[p].kind = "recreate",
         proc'[p].step \in {"create", "result", "cleanup", "fail"}
  PROVE  Building'
<1>1. p \in Handlers
  BY DEF IInv, KindInv, KindOK, TaskKinds
<1>2. HalfWay(p)'
  BY DEF HalfWay, At
<1>3. QED
  BY <1>1, <1>2 DEF Building

\* What a request or a task does.
LEMMA ContinueGone ==
  ASSUME IInv, Alone, Names, Alone', [Next]_vars, reopened = 0, reopened' = 0, ~torn', NEW p \in Procs,
         Continue(p) \/ GiveUp(p), Present \/ Building \/ Gone
  PROVE  Present' \/ Building' \/ Gone'
<1>1. /\ TypeOK /\ KindInv /\ KindOK(proc[p], p) /\ row \in Rows
      /\ container \in [status : Containers, incusId : Nat]
  BY Types DEF IInv, KindInv
<1>2. HalfWay(p) => proc[p].kind = "recreate"
  BY <1>1 DEF HalfWay, KindOK
<1>3. ASSUME NEW s \in {"idle", "suspend", "claim"}, proc'[p].step = s, Others(p), ~HalfWay(p), Kept,
             row'.incusId = row.incusId, row.status = "deleted" => row'.status = "deleted"
      PROVE  Present' \/ Building' \/ Gone'
  BY <1>3, QuietStep DEF Gone
<1>4. ASSUME Finish(p) PROVE Others(p) /\ proc'[p].step = "idle"
  BY <1>1, <1>4, Goes
<1>5. container' = container => Kept
  BY DEF Kept
<1>6. CASE Extend(p) \/ Suspend(p) \/ Unsuspend(p)
  <2>1. Finish(p) /\ container' = container /\ CountReopened /\ ~HalfWay(p)
    BY <1>6 DEF Extend, Suspend, Unsuspend, HalfWay, At
  <2>2. row.status = "deleted" => row'.status = "deleted"
    BY <2>1 DEF CountReopened
  <2>3. row'.incusId = row.incusId
    <3>1. Lifted(row).incusId = row.incusId
      BY <1>1 DEF Lifted, Rows
    <3>2. QED
      BY <1>1, <1>6, <3>1 DEF Extend, Suspend, Unsuspend, Lifted, Rows
  <2>4. QED
    BY <1>3, <1>4, <1>5, <2>1, <2>2, <2>3
<1>7. CASE Renew(p) \/ RenewRefused(p) \/ ClaimRefused(p) \/ (Result(p) /\ proc[p].kind = "power")
  <2>1. Finish(p) /\ container' = container
    BY <1>7 DEF Renew, RenewRefused, ClaimRefused, Result
  <2>2. ~HalfWay(p)
    BY <1>2, <1>7 DEF Renew, RenewRefused, ClaimRefused, HalfWay, At
  <2>3. row.status = "deleted" => row'.status = "deleted"
    BY <1>7 DEF Renew, Unchanged, RenewRefused, ClaimRefused, Result, Writable
  <2>4. row'.incusId = row.incusId
    <3>1. ~Recreated(p)
      BY <1>7 DEF Renew, RenewRefused, ClaimRefused, Result, Recreated, At
    <3>2. Lifted(row).incusId = row.incusId
      BY <1>1 DEF Lifted, Rows
    <3>3. QED
      BY <1>1, <1>7, <3>2 DEF Renew, RenewRefused, ClaimRefused, Result, Lifted, Rows
  <2>5. QED
    BY <1>3, <1>4, <1>5, <2>1, <2>2, <2>3, <2>4
<1>8. CASE GiveUp(p)
  <2>1. Finish(p) /\ UNCHANGED <<row, container>> /\ ~HalfWay(p)
    BY <1>8 DEF GiveUp
  <2>2. QED
    BY <1>3, <1>4, <1>5, <2>1
<1>9. CASE StopFirst(p)
  <2>1. Goto(p, "suspend") /\ Stopped /\ row' = row /\ ~HalfWay(p)
    BY <1>9 DEF StopFirst, HalfWay, At
  <2>2. Kept
    BY <1>1, <2>1 DEF Stopped, Kept
  <2>3. Others(p) /\ proc'[p].step = "suspend"
    BY <1>1, <2>1, Goes
  <2>4. QED
    BY <1>3, <2>1, <2>2, <2>3
<1>10. CASE Claim(p)
  <2>1. /\ row.status = Saw(p).status /\ container' = container /\ ~HalfWay(p)
        /\ row' = [row EXCEPT !.status = "deleted"]
        /\ reopened' = reopened + (IF Saw(p).status = "deleted" THEN 1 ELSE 0)
    BY <1>10 DEF Claim, StatusAsSeen, HalfWay, At
  <2>2. row.status # "deleted"
    BY <2>1
  <2>3. Others(p)
    BY <1>1, <1>10, Goes DEF Claim
  <2>4. row'.incusId = row.incusId
    BY <1>1, <2>1 DEF Rows
  <2>5. QED
    BY <1>5, <2>1, <2>2, <2>3, <2>4, QuietStep DEF Gone
<1>11. CASE DeleteFails(p) \/ SettleFails(p) \/ Undo(p)
  <2>1. ~Gone /\ ~HalfWay(p) /\ container' = container
    BY <1>11 DEF DeleteFails, SettleFails, Undo, Gone, HalfWay, At
  <2>2. Others(p)
    BY <1>1, <1>11, Goes DEF DeleteFails, SettleFails, Undo
  <2>3. row'.incusId = row.incusId
    BY <1>1, <1>11 DEF DeleteFails, SettleFails, Undo, Rows
  <2>4. QED
    BY <1>5, <2>1, <2>2, <2>3, QuietStep
<1>12. CASE QuoteRemoval(p)
  <2>1. ~HalfWay(p) /\ UNCHANGED <<row, container>> /\ proc[p].kind = "remove"
    BY <1>1, <1>12 DEF QuoteRemoval, HalfWay, At, KindOK
  <2>2. Others(p) /\ proc'[p].step = "settle" /\ proc'[p].kind = "remove"
    BY <1>12, <2>1, <1>1, Looks
  <2>3. QED
    BY <1>5, <2>1, <2>2, QuietStep DEF Gone
<1>13. CASE Settle(p)
  <2>1. ~HalfWay(p) /\ UNCHANGED <<row, container>> /\ (Goto(p, "release") \/ Finish(p))
    BY <1>13 DEF Settle, HalfWay, At
  <2>2. Others(p) /\ proc'[p].step \in {"release", "idle"}
    BY <1>1, <2>1, Goes
  <2>3. QED
    BY <1>5, <2>1, <2>2, QuietStep DEF Gone
<1>14. CASE DeleteOnHost(p) \/ Release(p)
  <2>1. Holds(p) /\ ~HalfWay(p) /\ row' = row
    BY <1>14 DEF DeleteOnHost, Release, Holds, Holding, Claiming, HalfWay, At
  <2>2. /\ row.status = "deleted"
        /\ \A q \in Procs : Holds(q) => q = p
    BY <2>1 DEF Alone
  <2>3. Others(p) /\ proc'[p].step \in {"settle", "quote", "idle"} /\ (proc'[p].step = "settle" => proc'[p].kind # "adminRemove")
    <3>1. CASE Finish(p)
      BY <1>4, <3>1
    <3>2. CASE ~Finish(p)
      <4>1. (Goto(p, "settle") /\ proc[p].kind = "destroy") \/ Goto(p, "quote")
        BY <1>14, <3>2 DEF DeleteOnHost, AfterDelete, Release
      <4>2. QED
        BY <1>1, <4>1, Goes
    <3>3. QED
      BY <3>1, <3>2
  <2>4. Gone'
    <3>1. ASSUME NEW q \in Procs, q # p PROVE proc'[q].step \notin {"delete", "undo", "settle"}
      BY <2>2, <2>3, <3>1 DEF Others, Holds, Holding, Claiming
    <3>2. QED
      BY <2>1, <2>2, <2>3, <3>1 DEF Gone, At
  <2>5. QED
    BY <2>4
<1>15. CASE AnswerLost(p) \/ MarkError(p)
  BY <1>15 DEF AnswerLost, MarkError
<1>16. CASE Work(p)
  <2>1. Present /\ row' = row /\ ~HalfWay(p)
    BY <1>16 DEF Work, HalfWay, At
  <2>2. container'.incusId = container.incusId /\ container'.status # "gone"
    BY <1>1, <1>16 DEF Work
  <2>3. QED
    BY <2>1, <2>2 DEF Present
<1>17. CASE Recreate(p)
  <2>1. UNCHANGED <<row, container>> /\ ~HalfWay(p)
    BY <1>17 DEF Recreate, HalfWay, At
  <2>2. Others(p) /\ proc'[p].step = "wipe"
    BY <1>1, <1>17, Looks
  <2>3. QED
    BY <1>5, <2>1, <2>2, QuietStep DEF Gone
<1>18. CASE Wipe(p) \/ Create(p) \/ CreateFails(p) \/ RecreateFails(p) \/ Cleanup(p)
  <2>1. PICK s \in {"create", "result", "fail", "cleanup"} : Goto(p, s)
    BY <1>18 DEF Wipe, Create, CreateFails, RecreateFails, Cleanup
  <2>2. proc[p].kind = "recreate"
    BY <1>1, <1>18 DEF KindOK, Wipe, Create, CreateFails, RecreateFails, Cleanup, At
  <2>3. proc'[p].kind = "recreate" /\ proc'[p].step = s
    BY <1>1, <2>1, <2>2, Goes
  <2>4. QED
    BY <2>2, <2>3, BuildStep
<1>19. CASE Recreated(p)
  <2>1. /\ At(p, "result") /\ proc[p].kind = "recreate" /\ container' = container
        /\ row'.incusId = container.incusId
    BY <1>1, <1>19 DEF Recreated, Rows
  <2>2. container.status # "gone"
    BY <2>1 DEF Names
  <2>3. QED
    BY <2>1, <2>2 DEF Present
<1>20. QED
  BY <1>1, <1>6, <1>7, <1>8, <1>9, <1>10, <1>11, <1>12, <1>13, <1>14, <1>15, <1>16, <1>17, <1>18, <1>19
     DEF Continue, Result

\* Every step.
LEMMA StepGone ==
  ASSUME IInv, Alone, Names, GoneInv, [Next]_vars
  PROVE  GoneInv'
<1>1. SUFFICES ASSUME ~torn', reopened' = 0
      PROVE  Present' \/ Building' \/ Gone'
  <2>1. reopened' \in Nat
    BY Types, HistoriesStep DEF HistoriesOK
  <2>2. QED
    BY <2>1 DEF GoneInv
<1>2. reopened = 0 /\ ~torn
  BY <1>1, Types, HistoriesStep DEF HistoriesOK, Grows
<1>3. Present \/ Building \/ Gone
  BY <1>2 DEF GoneInv
<1>4. /\ TypeOK /\ KindInv /\ row \in Rows /\ container \in [status : Containers, incusId : Nat]
      /\ container' = container => Kept
  BY Types DEF IInv, Kept
<1>5. CASE UNCHANGED vars \/ Tick
  <2>1. UNCHANGED <<row, container, proc>>
    BY <1>5 DEF vars, Tick
  <2>2. QED
    BY <1>3, <2>1 DEF Present, Building, HalfWay, Gone, At
<1>6. ASSUME NEW p \in Procs, Others(p), proc[p].step = "idle", UNCHANGED <<row, container>>,
             proc'[p].step \notin {"delete", "undo", "settle"}
      PROVE  Present' \/ Building' \/ Gone'
  <2>1. ~HalfWay(p)
    BY <1>6 DEF HalfWay, At
  <2>2. QED
    BY <1>3, <1>4, <1>6, <2>1, QuietStep DEF Gone
<1>7. ASSUME NEW h \in Handlers, Arrive(h) PROVE Present' \/ Building' \/ Gone'
  <2>1. PICK kind, step, g, quote :
           /\ kind \in Kinds /\ step \in {"renew", "extend", "stop", "suspend", "unsuspend", "claim", "work"}
           /\ Arrives(h, kind, step, g, quote)
    BY <1>7, ArriveBegins
  <2>2. h \in Procs /\ Others(h) /\ proc'[h].step = step
    BY <1>4, <2>1, Begins
  <2>3. proc[h].step = "idle" /\ UNCHANGED <<row, container>>
    BY <2>1 DEF Arrives, At
  <2>4. QED
    BY <1>6, <2>1, <2>2, <2>3
<1>8. CASE AutoRenew \/ ListExpired \/ StartSync
  <2>1. PICK j, step, g : j \in Jobs /\ step \in {"renew", "claim", "look"} /\ Fires(j, step, g)
    BY <1>8 DEF AutoRenew, ListExpired, StartSync, Jobs
  <2>2. j \in Procs /\ Others(j) /\ proc'[j].step = step
    BY <1>4, <2>1, Begins
  <2>3. proc[j].step = "idle" /\ UNCHANGED <<row, container>>
    BY <2>1 DEF Fires, At
  <2>4. QED
    BY <1>6, <2>1, <2>2, <2>3
<1>9. CASE SuspendExpired \/ JobStep
  <2>1. "suspender" \in Procs /\ "deleter" \in Procs /\ "sync" \in Procs
    BY DEF Procs, Jobs
  <2>2. CASE SuspendExpired
    <3>1. /\ At("suspender", "idle") /\ Goto("suspender", "stop") /\ container' = container
          /\ row.status # "deleted" /\ row' = Expired(row)
      BY <2>2 DEF SuspendExpired, Overdue, Goto
    <3>2. Others("suspender") /\ ~HalfWay("suspender") /\ row'.incusId = row.incusId
      BY <1>4, <2>1, <3>1, Goes DEF HalfWay, At, Expired, Rows
    <3>3. QED
      BY <1>3, <1>4, <2>1, <3>1, <3>2, QuietStep DEF Gone
  <2>3. CASE StopExpired
    <3>1. At("suspender", "stop") /\ Finish("suspender") /\ Stopped /\ row' = row
      BY <2>3 DEF StopExpired
    <3>2. Others("suspender") /\ ~HalfWay("suspender") /\ proc'["suspender"].step = "idle"
      BY <1>4, <2>1, <3>1, Goes DEF HalfWay, At
    <3>3. Kept
      BY <1>4, <3>1 DEF Stopped, Kept
    <3>4. QED
      BY <1>3, <2>1, <3>1, <3>2, <3>3, QuietStep DEF Gone
  <2>4. CASE ClaimExpired
    <3>1. /\ At("deleter", "claim") /\ Goto("deleter", "delete") /\ container' = container
          /\ row.status = "suspended" /\ row' = [row EXCEPT !.status = "deleted", !.version = @ + 1]
      BY <2>4 DEF ClaimExpired, Overripe, IsExpired
    <3>2. Others("deleter") /\ ~HalfWay("deleter") /\ row'.incusId = row.incusId
      BY <1>4, <2>1, <3>1, Goes DEF HalfWay, At, Rows
    <3>3. QED
      BY <1>3, <1>4, <2>1, <3>1, <3>2, QuietStep DEF Gone
  <2>5. CASE Look
    <3>1. At("sync", "look") /\ UNCHANGED <<row, container>>
      BY <2>5 DEF Look
    <3>2. Others("sync") /\ ~HalfWay("sync") /\ proc'["sync"].step \in {"apply", "idle"}
      BY <1>4, <2>1, <2>5, <3>1, Looks, Goes DEF HalfWay, At
    <3>3. QED
      BY <1>3, <1>4, <2>1, <3>1, <3>2, QuietStep DEF Gone
  <2>6. CASE Apply
    <3>1. At("sync", "apply") /\ Finish("sync") /\ container' = container
      BY <2>6 DEF Apply
    <3>2. Others("sync") /\ ~HalfWay("sync") /\ proc'["sync"].step = "idle"
      BY <1>4, <2>1, <3>1, Goes DEF HalfWay, At
    <3>3. row.status = "deleted" => row'.status = "deleted"
      <4>1. Saw("sync").status # "deleted"
        BY <1>4, <2>1, <3>1 DEF KindInv, KindOK, At, Saw
      <4>2. QED
        BY <1>4, <2>6, <4>1 DEF Apply, StillAsRead, Rows
    <3>4. row'.incusId = row.incusId
      BY <1>4, <2>6 DEF Apply, Rows
    <3>5. QED
      BY <1>3, <1>4, <2>1, <3>1, <3>2, <3>3, <3>4, QuietStep DEF Gone
  <2>7. QED
    BY <1>9, <2>2, <2>3, <2>4, <2>5, <2>6 DEF JobStep
<1>10. ASSUME NEW p \in Procs, Continue(p) \/ GiveUp(p) PROVE Present' \/ Building' \/ Gone'
  BY <1>1, <1>2, <1>3, <1>10, StepAlone, ContinueGone
<1>11. QED
  BY <1>5, <1>7, <1>8, <1>9, <1>10 DEF Next, Fire

-------------------------------------------------------------------------------
(* What is suspended on expiry has expired *)

\* A deletion that would give back a suspended row.
Revives(p) == Holds(p) /\ (p = "deleter" \/ Saw(p).status = "suspended")

CanBeExpired ==
    /\ row.reason = "expired"
    /\ \/ row.status = "suspended"
       \/ row.status = "deleted" /\ \E p \in Procs : Revives(p)

\* A renewal that would leave it suspended read an older version.
Unpaid ==
    /\ row.expiresAt < now
    /\ \A p \in Procs : At(p, "renew") /\ Saw(p).version = row.version => IsExpired(Saw(p))

ExpiredInv ==
    crossed \/ reopened > 0 \/ (PaidUntilExpiry /\ (CanBeExpired => Unpaid))

\* Everything that holds of every state.
DInv == IInv /\ Counted /\ Alone /\ Names /\ GoneInv /\ ExpiredInv

\* A step that grants nothing and starts no renewal.
LEMMA UnpaidKept ==
  ASSUME IInv, PaidUntilExpiry, CanBeExpired => Unpaid, CanBeExpired' => CanBeExpired,
         periods' = periods, row'.expiresAt = row.expiresAt, now' = now,
         row'.version = row.version \/ row'.version = row.version + 1,
         \A q \in Procs : proc'[q].step = "renew" => proc'[q] = proc[q]
  PROVE  PaidUntilExpiry' /\ (CanBeExpired' => Unpaid')
<1>1. row.version \in Nat /\ \A q \in Procs : Saw(q).version \in Nat
  BY Types DEF Rows
<1>2. PaidUntilExpiry'
  BY DEF PaidUntilExpiry
<1>3. ASSUME CanBeExpired' PROVE Unpaid'
  <2>1. Unpaid
    BY <1>3
  <2>2. row'.expiresAt < now'
    BY <2>1 DEF Unpaid
  <2>3. ASSUME NEW q \in Procs, proc'[q].step = "renew", Saw(q)'.version = row'.version
        PROVE  IsExpired(Saw(q))'
    <3>1. At(q, "renew") /\ Saw(q)' = Saw(q)
      BY <2>3 DEF At, Saw
    <3>2. Saw(q).version <= row.version
      BY <3>1 DEF IInv, GrantInv
    <3>3. Saw(q).version = row.version
      BY <1>1, <2>3, <3>1, <3>2
    <3>4. QED
      BY <2>1, <3>1, <3>3 DEF Unpaid, IsExpired
  <2>4. QED
    BY <2>2, <2>3 DEF Unpaid, At
<1>4. QED
  BY <1>2, <1>3

\* The processes but one stay, and that one neither renews nor claims.
LEMMA RevivesKept ==
  ASSUME NEW p \in Procs, Others(p), proc'[p].step # "renew",
         Holds(p)' => Holds(p) /\ proc'[p].saw = proc[p].saw
  PROVE  /\ \A q \in Procs : Revives(q)' => Revives(q)
         /\ \A q \in Procs : proc'[q].step = "renew" => proc'[q] = proc[q]
<1>1. \A q \in Procs : Revives(q)' => Revives(q)
  <2>1. ASSUME NEW q \in Procs, Revives(q)' PROVE Revives(q)
    <3>1. CASE q = p
      BY <2>1, <3>1 DEF Revives, Saw
    <3>2. CASE q # p
      BY <2>1, <3>2 DEF Revives, Saw, Others, Holds
    <3>3. QED
      BY <3>1, <3>2
  <2>2. QED
    BY <2>1
<1>2. \A q \in Procs : proc'[q].step = "renew" => proc'[q] = proc[q]
  BY DEF Others
<1>3. QED
  BY <1>1, <1>2

\* A step that leaves the row alone, or writes a status of its own.
LEMMA PlainStep ==
  ASSUME IInv, PaidUntilExpiry, CanBeExpired => Unpaid, NEW p \in Procs, Others(p),
         proc'[p].step # "renew", Holds(p)' => Holds(p) /\ proc'[p].saw = proc[p].saw,
         UNCHANGED <<now, periods>>, row'.expiresAt = row.expiresAt, row'.version = row.version,
         \/ row'.status = row.status /\ row'.reason = row.reason
         \/ row'.status \notin {"suspended", "deleted"}
         \/ row'.reason # "expired"
  PROVE  PaidUntilExpiry' /\ (CanBeExpired' => Unpaid')
<1>1. /\ \A q \in Procs : Revives(q)' => Revives(q)
      /\ \A q \in Procs : proc'[q].step = "renew" => proc'[q] = proc[q]
  BY RevivesKept
<1>2. CanBeExpired' => CanBeExpired
  BY <1>1 DEF CanBeExpired
<1>3. QED
  BY <1>1, <1>2, UnpaidKept

\* A request begins, or a timer fires: a renewal of a row suspended on expiry knows that.
LEMMA BeginUnpaid ==
  ASSUME IInv, PaidUntilExpiry, CanBeExpired => Unpaid, NEW p \in Procs, Others(p),
         proc'[p].step \notin Holding, proc'[p].saw = row, proc'[p].step = "renew" => row.status # "deleted",
         UNCHANGED <<now, periods, row>>
  PROVE  PaidUntilExpiry' /\ (CanBeExpired' => Unpaid')
<1>1. PaidUntilExpiry'
  BY DEF PaidUntilExpiry
<1>2. \A q \in Procs : Revives(q)' => Revives(q)
  <2>1. ASSUME NEW q \in Procs, Revives(q)' PROVE Revives(q)
    <3>1. q # p
      BY <2>1 DEF Revives, Holds
    <3>2. QED
      BY <2>1, <3>1 DEF Revives, Saw, Others, Holds
  <2>2. QED
    BY <2>1
<1>3. ASSUME CanBeExpired' PROVE Unpaid'
  <2>1. CanBeExpired
    BY <1>2, <1>3 DEF CanBeExpired
  <2>2. ASSUME NEW q \in Procs, proc'[q].step = "renew", Saw(q)'.version = row'.version
        PROVE  IsExpired(Saw(q))'
    <3>1. CASE q = p
      BY <2>1, <2>2, <3>1 DEF CanBeExpired, IsExpired, Saw
    <3>2. CASE q # p
      <4>1. proc'[q] = proc[q]
        BY <3>2 DEF Others
      <4>2. QED
        BY <2>1, <2>2, <4>1 DEF Unpaid, At, Saw, IsExpired
    <3>3. QED
      BY <3>1, <3>2
  <2>3. QED
    BY <2>1, <2>2 DEF Unpaid, At
<1>4. QED
  BY <1>1, <1>3

\* A period is added whose end is the row's new expiry.
LEMMA GrantUnpaid ==
  ASSUME IInv, PaidUntilExpiry, NEW p \in Procs, periods' = Append(periods, proc[p].grant),
         row'.expiresAt = proc[p].grant.end, row.expiresAt <= proc[p].grant.end
  PROVE  PaidUntilExpiry'
<1>1. proc[p].grant \in Grants /\ proc[p].grant.end \in Nat /\ row.expiresAt \in Nat
  BY Types DEF ProcType, Grants
<1>2. /\ Len(periods) \in Nat /\ DOMAIN periods = 1..Len(periods) /\ DOMAIN periods' = 1..(Len(periods) + 1)
      /\ \A i \in 1..Len(periods) : periods'[i] = periods[i]
      /\ periods'[Len(periods) + 1] = proc[p].grant
  BY <1>1, Granted DEF IInv
<1>3. ASSUME NEW i \in 1..(Len(periods) + 1) PROVE periods'[i].end <= row'.expiresAt
  <2>1. CASE i = Len(periods) + 1
    BY <1>1, <1>2, <2>1
  <2>2. CASE i \in 1..Len(periods)
    <3>1. periods[i].end <= row.expiresAt
      BY <1>2, <2>2 DEF PaidUntilExpiry
    <3>2. periods[i] \in Grants
      BY <1>2, <2>2 DEF IInv, TypeOK
    <3>3. periods[i].end \in Nat
      BY <3>2 DEF Grants
    <3>4. QED
      BY <1>1, <1>2, <2>2, <3>1, <3>3
  <2>3. QED
    BY <1>2, <2>1, <2>2
<1>4. QED
  BY <1>2, <1>3 DEF PaidUntilExpiry

\* Renewals and extensions that met nothing.
LEMMA GrantsExpired ==
  ASSUME IInv, PaidUntilExpiry, CanBeExpired => Unpaid, NEW p \in Procs, Renew(p) \/ Extend(p), ~crossed'
  PROVE  PaidUntilExpiry' /\ ~CanBeExpired'
<1>1. /\ row \in Rows /\ row.expiresAt = Saw(p).expiresAt
      /\ row.status # "deleted" /\ proc[p].step \in {"renew", "extend"}
  BY Types DEF Renew, Extend, Overtaken, ExpiryMoved, Unchanged, At
<1>2. PICK n \in Nat :
        /\ row' = [IF IsExpired(Saw(p)) THEN Lifted(row) ELSE row EXCEPT !.expiresAt = proc[p].grant.end, !.version = n]
        /\ periods' = Append(periods, proc[p].grant)
  <2>1. row.version \in Nat /\ row.version + 1 \in Nat /\ Lifted(row).version = row.version
        /\ DOMAIN Lifted(row) = DOMAIN row
    BY <1>1 DEF Rows, Lifted
  <2>2. CASE Renew(p)
    <3>1. (IF IsExpired(Saw(p)) THEN Lifted(row) ELSE row).version = row.version
      BY <2>1
    <3>2. row' = [IF IsExpired(Saw(p)) THEN Lifted(row) ELSE row
                     EXCEPT !.expiresAt = proc[p].grant.end, !.version = row.version + 1]
      BY <2>2, <3>1 DEF Renew
    <3>3. QED
      BY <2>1, <2>2, <3>2 DEF Renew
  <2>3. CASE Extend(p)
    <3>1. row' = [IF IsExpired(Saw(p)) THEN Lifted(row) ELSE row
                     EXCEPT !.expiresAt = proc[p].grant.end, !.version = row.version]
      BY <1>1, <2>3 DEF Extend, Lifted, Rows
    <3>2. QED
      BY <2>1, <2>3, <3>1 DEF Extend
  <2>4. QED
    BY <2>2, <2>3
<1>3. row'.expiresAt = proc[p].grant.end
  <2>1. proc[p].grant.end \in Nat
    BY Types DEF ProcType, Grants
  <2>2. QED
    BY <1>1, <1>2, <2>1 DEF Lifted, Rows
<1>4. row.expiresAt <= proc[p].grant.end
  BY <1>1 DEF IInv, GrantInv
<1>5. PaidUntilExpiry'
  BY <1>2, <1>3, <1>4, GrantUnpaid
<1>6. ~CanBeExpired'
  <2>1. CASE IsExpired(Saw(p))
    <3>1. row'.reason = "none"
      BY <1>1, <1>2, <2>1 DEF Lifted, Rows
    <3>2. QED
      BY <3>1 DEF CanBeExpired
  <2>2. CASE ~IsExpired(Saw(p))
    <3>1. row'.status = row.status /\ row'.reason = row.reason
      BY <1>1, <1>2, <2>2 DEF Rows
    <3>2. ~IsExpired(row)
      <4>1. CASE Renew(p)
        <5>1. ~CanBeExpired
          BY <2>2, <4>1 DEF Renew, Unchanged, Unpaid
        <5>2. QED
          BY <5>1 DEF CanBeExpired, IsExpired
      <4>2. CASE Extend(p)
        BY <2>2, <4>2 DEF Extend, Overtaken
      <4>3. QED
        BY <4>1, <4>2
    <3>3. QED
      BY <1>1, <3>1, <3>2 DEF CanBeExpired, IsExpired
  <2>3. QED
    BY <2>1, <2>2
<1>7. QED
  BY <1>5, <1>6

\* What a request or a task does.
LEMMA ContinueExpired ==
  ASSUME IInv, PaidUntilExpiry, CanBeExpired => Unpaid, Alone, [Next]_vars, reopened = 0, reopened' = 0,
         ~crossed', NEW p \in Procs, Continue(p) \/ GiveUp(p)
  PROVE  PaidUntilExpiry' /\ (CanBeExpired' => Unpaid')
<1>1. TypeOK /\ KindInv /\ GrantInv /\ row \in Rows /\ KindOK(proc[p], p)
  BY Types DEF IInv, KindInv
<1>2. Finish(p) => Others(p) /\ proc'[p].step = "idle" /\ ~Holds(p)'
  BY <1>1, Goes DEF Holds, Holding, Claiming
<1>3. CASE Renew(p) \/ Extend(p)
  BY <1>3, GrantsExpired
<1>4. CASE \/ RenewRefused(p) \/ ClaimRefused(p) \/ GiveUp(p) \/ Release(p)
  <2>1. Finish(p) /\ UNCHANGED <<now, row, periods>>
    BY <1>4 DEF RenewRefused, ClaimRefused, GiveUp, Release
  <2>2. QED
    BY <1>2, <2>1, PlainStep
<1>5. CASE \/ StopFirst(p) \/ Wipe(p) \/ Create(p) \/ CreateFails(p) \/ RecreateFails(p) \/ Cleanup(p)
  <2>1. PICK s \in {"suspend", "create", "result", "fail", "cleanup"} : Goto(p, s)
    BY <1>5 DEF StopFirst, Wipe, Create, CreateFails, RecreateFails, Cleanup
  <2>2. UNCHANGED <<now, row, periods>>
    BY <1>5 DEF StopFirst, Wipe, Create, CreateFails, RecreateFails, Cleanup
  <2>3. Others(p) /\ proc'[p].step = s /\ ~Holds(p)'
    BY <1>1, <2>1, Goes DEF Holds, Holding, Claiming
  <2>4. QED
    BY <2>2, <2>3, PlainStep
<1>6. CASE Work(p) \/ Recreate(p)
  <2>1. UNCHANGED <<now, row, periods>>
    BY <1>6 DEF Work, Recreate
  <2>2. Others(p) /\ proc'[p].step \in {"result", "wipe"}
    BY <1>1, <1>6, Looks
  <2>3. ~Holds(p)'
    BY <2>2 DEF Holds, Holding, Claiming
  <2>4. QED
    BY <2>1, <2>2, <2>3, PlainStep
<1>7. CASE DeleteOnHost(p) \/ DeleteFails(p) \/ AnswerLost(p) \/ Settle(p) \/ SettleFails(p) \/ QuoteRemoval(p)
  <2>1. UNCHANGED <<now, row, periods>> /\ Holds(p)
    BY <1>7 DEF DeleteOnHost, DeleteFails, AnswerLost, Settle, SettleFails, QuoteRemoval, Holds, Holding,
                Claiming, At
  <2>2. Finish(p) \/ QuoteRemoval(p) \/ \E s \in {"settle", "quote", "undo", "release"} : Goto(p, s)
    BY <1>7 DEF DeleteOnHost, AfterDelete, DeleteFails, AnswerLost, Settle, SettleFails
  <2>3. /\ Others(p) /\ proc'[p].step # "renew"
        /\ Holds(p)' => proc'[p].saw = proc[p].saw
    BY <1>1, <1>2, <2>2, Goes, Looks
  <2>4. QED
    BY <2>1, <2>3, PlainStep
<1>8. CASE Suspend(p) \/ Unsuspend(p)
  <2>1. Finish(p) /\ UNCHANGED <<now, periods>>
    BY <1>8 DEF Suspend, Unsuspend
  <2>2. row'.reason # "expired" /\ row'.expiresAt = row.expiresAt /\ row'.version = row.version
    BY <1>1, <1>8 DEF Suspend, Unsuspend, Lifted, Rows
  <2>3. QED
    BY <1>2, <2>1, <2>2, PlainStep
<1>9. CASE Recreated(p) \/ MarkError(p)
  <2>1. Finish(p) /\ UNCHANGED <<now, periods>>
    BY <1>9 DEF Recreated, MarkError
  <2>2. /\ row'.status \in {"running", "error"} /\ row'.expiresAt = row.expiresAt
        /\ row'.version = row.version
    BY <1>1, <1>9 DEF Recreated, MarkError, Rows
  <2>3. QED
    BY <1>2, <2>1, <2>2, PlainStep
<1>10. CASE Result(p)
  <2>1. Finish(p) /\ UNCHANGED <<now, periods>> /\ proc[p].seen # "gone"
    BY <1>1, <1>10 DEF Result, GrantInv, At
  <2>2. proc[p].seen \in {"running", "stopped"}
    BY <2>1, Types DEF ProcType, Containers
  <2>3. /\ row' = row \/ row'.status \in {"running", "stopped"}
        /\ row'.expiresAt = row.expiresAt /\ row'.version = row.version
    BY <1>1, <1>10, <2>2 DEF Result, Rows
  <2>4. QED
    BY <1>2, <2>1, <2>3, PlainStep
<1>11. CASE Claim(p)
  <2>1. /\ row.status = Saw(p).status /\ UNCHANGED <<now, periods>> /\ p # "deleter"
        /\ row' = [row EXCEPT !.status = "deleted"]
        /\ reopened' = reopened + (IF Saw(p).status = "deleted" THEN 1 ELSE 0)
    BY <1>11 DEF Claim, StatusAsSeen
  <2>2. row.status # "deleted"
    BY <2>1
  <2>3. PICK s \in {"settle", "delete"} : Goto(p, s)
    BY <1>11 DEF Claim
  <2>4. Others(p) /\ proc'[p].step = s /\ proc'[p].saw = proc[p].saw
    BY <1>1, <2>3, Goes
  <2>5. /\ row'.expiresAt = row.expiresAt /\ row'.version = row.version /\ row'.reason = row.reason
        /\ row'.status = "deleted"
    BY <1>1, <2>1 DEF Rows
  <2>6. CanBeExpired' => CanBeExpired
    <3>1. SUFFICES ASSUME CanBeExpired' PROVE CanBeExpired
      OBVIOUS
    <3>2. PICK q \in Procs : Revives(q)'
      BY <2>5, <3>1 DEF CanBeExpired
    <3>3. q = p
      BY <2>2, <2>4, <3>2 DEF Revives, Alone, Others, Holds
    <3>4. Saw(p).status = "suspended"
      BY <2>1, <2>4, <3>2, <3>3 DEF Revives, Saw
    <3>5. QED
      BY <2>1, <2>5, <3>1, <3>4 DEF CanBeExpired
  <2>7. \A q \in Procs : proc'[q].step = "renew" => proc'[q] = proc[q]
    BY <2>4 DEF Others
  <2>8. QED
    BY <2>1, <2>5, <2>6, <2>7, UnpaidKept
<1>12. CASE Undo(p)
  <2>1. At(p, "undo") /\ Finish(p) /\ UNCHANGED <<now, periods>>
    BY <1>12 DEF Undo
  <2>2. Holds(p)
    BY <2>1 DEF Holds, Holding, Claiming, At
  <2>3. row.status = "deleted" /\ \A q \in Procs : Holds(q) => q = p
    BY <2>2 DEF Alone
  <2>4. /\ row'.expiresAt = row.expiresAt /\ row'.reason = row.reason
        /\ row'.version = row.version \/ row'.version = row.version + 1
        /\ row'.status = IF p = "deleter" THEN "suspended" ELSE Saw(p).status
    <3>1. row.version \in Nat
      BY <1>1 DEF Rows
    <3>2. CASE p = "deleter"
      BY <1>1, <1>12, <2>3, <3>1, <3>2 DEF Undo, Restorable, Rows
    <3>3. CASE p # "deleter"
      BY <1>1, <1>12, <2>3, <3>1, <3>3 DEF Undo, Restorable, Rows
    <3>4. QED
      BY <3>2, <3>3
  <2>5. CanBeExpired' => CanBeExpired
    <3>1. SUFFICES ASSUME CanBeExpired' PROVE CanBeExpired
      OBVIOUS
    <3>2. \A q \in Procs : ~Revives(q)'
      BY <1>2, <2>1, <2>3 DEF Revives, Others, Holds
    <3>3. row'.status = "suspended" /\ row.reason = "expired"
      BY <2>4, <3>1, <3>2 DEF CanBeExpired
    <3>4. Revives(p)
      BY <2>2, <2>4, <3>3 DEF Revives
    <3>5. QED
      BY <2>3, <3>3, <3>4 DEF CanBeExpired
  <2>6. \A q \in Procs : proc'[q].step = "renew" => proc'[q] = proc[q]
    BY <1>2, <2>1 DEF Others
  <2>7. QED
    BY <2>1, <2>4, <2>5, <2>6, UnpaidKept
<1>13. QED
  BY <1>3, <1>4, <1>5, <1>6, <1>7, <1>8, <1>9, <1>10, <1>11, <1>12 DEF Continue

\* Every step.
LEMMA StepExpired ==
  ASSUME IInv, Alone, ExpiredInv, [Next]_vars
  PROVE  ExpiredInv'
<1>1. SUFFICES ASSUME ~crossed', reopened' = 0
      PROVE  PaidUntilExpiry' /\ (CanBeExpired' => Unpaid')
  <2>1. reopened' \in Nat
    BY Types, HistoriesStep DEF HistoriesOK
  <2>2. QED
    BY <2>1 DEF ExpiredInv
<1>2. reopened = 0 /\ ~crossed
  BY <1>1, Types, HistoriesStep DEF HistoriesOK, Grows
<1>3. PaidUntilExpiry /\ (CanBeExpired => Unpaid)
  BY <1>2 DEF ExpiredInv
<1>4. TypeOK /\ KindInv /\ row \in Rows /\ now \in Nat /\ row.expiresAt \in Nat /\ row.version \in Nat
  BY Types DEF IInv
<1>5. CASE UNCHANGED vars \/ Tick
  <2>1. UNCHANGED <<row, proc, periods>> /\ now <= now' /\ now' \in Nat
    BY <1>4, <1>5 DEF vars, Tick
  <2>2. PaidUntilExpiry' /\ (CanBeExpired' => CanBeExpired)
    BY <1>3, <2>1 DEF PaidUntilExpiry, CanBeExpired, Revives, Holds, Saw
  <2>3. Unpaid => Unpaid'
    BY <1>4, <2>1 DEF Unpaid, At, Saw
  <2>4. QED
    BY <1>3, <2>2, <2>3
<1>6. ASSUME NEW h \in Handlers, Arrive(h) PROVE PaidUntilExpiry' /\ (CanBeExpired' => Unpaid')
  <2>1. PICK kind, step, g, quote :
           /\ kind \in Kinds /\ step \in {"renew", "extend", "stop", "suspend", "unsuspend", "claim", "work"}
           /\ Arrives(h, kind, step, g, quote) /\ (step = "renew" => row.status # "deleted")
    BY <1>6, ArriveBegins
  <2>2. h \in Procs /\ Others(h) /\ proc'[h].step = step /\ proc'[h].saw = row
    BY <1>4, <2>1, Begins
  <2>3. proc'[h].step \notin Holding /\ UNCHANGED <<now, periods, row>>
    BY <2>1, <2>2 DEF Arrives, Holding, Claiming
  <2>4. QED
    BY <1>3, <2>1, <2>2, <2>3, BeginUnpaid
<1>7. CASE AutoRenew \/ ListExpired \/ StartSync
  <2>1. PICK j, step, g :
          /\ j \in Jobs /\ step \in {"renew", "claim", "look"}
          /\ Fires(j, step, g) /\ (step = "renew" => row.status # "deleted")
    BY <1>7 DEF AutoRenew, ListExpired, StartSync, Jobs
  <2>2. j \in Procs /\ Others(j) /\ proc'[j].step = step /\ proc'[j].saw = row
    BY <1>4, <2>1, Begins
  <2>3. proc'[j].step \notin Holding /\ UNCHANGED <<now, periods, row>>
    BY <2>1, <2>2 DEF Fires, Holding, Claiming
  <2>4. QED
    BY <1>3, <2>1, <2>2, <2>3, BeginUnpaid
<1>8. CASE SuspendExpired \/ JobStep
  <2>1. "suspender" \in Procs /\ "deleter" \in Procs /\ "sync" \in Procs
    BY DEF Procs, Jobs
  <2>2. CASE SuspendExpired
    <3>1. /\ row' = Expired(row) /\ row.expiresAt < now /\ UNCHANGED <<now, periods>>
          /\ Goto("suspender", "stop")
      BY <2>2 DEF SuspendExpired, Overdue, Goto
    <3>2. row'.expiresAt = row.expiresAt /\ row'.version = row.version + 1
      BY <1>4, <3>1 DEF Expired, Rows
    <3>3. PaidUntilExpiry'
      BY <1>3, <3>1, <3>2 DEF PaidUntilExpiry
    <3>4. ASSUME NEW q \in Procs, At(q, "renew")' PROVE Saw(q)'.version # row'.version
      <4>1. At(q, "renew") /\ Saw(q)' = Saw(q)
        BY <1>4, <2>1, <3>1, <3>4, Goes DEF Others, At, Saw
      <4>2. Saw(q).version <= row.version /\ Saw(q).version \in Nat
        BY <4>1, Types DEF IInv, GrantInv, Rows
      <4>3. QED
        BY <1>4, <3>2, <4>1, <4>2
    <3>5. Unpaid'
      BY <3>1, <3>2, <3>4 DEF Unpaid
    <3>6. QED
      BY <3>3, <3>5
  <2>3. CASE StopExpired
    <3>1. Finish("suspender") /\ UNCHANGED <<now, row, periods>>
      BY <2>3 DEF StopExpired
    <3>2. Others("suspender") /\ proc'["suspender"].step # "renew" /\ ~Holds("suspender")'
      BY <1>4, <2>1, <3>1, Goes DEF Holds, Holding, Claiming
    <3>3. QED
      BY <1>3, <2>1, <3>1, <3>2, PlainStep
  <2>4. CASE ClaimExpired
    <3>1. /\ Goto("deleter", "delete") /\ UNCHANGED <<now, periods>> /\ IsExpired(row)
          /\ row' = [row EXCEPT !.status = "deleted", !.version = @ + 1]
      BY <2>4 DEF ClaimExpired, Overripe
    <3>2. row'.expiresAt = row.expiresAt /\ row'.version = row.version + 1
      BY <1>4, <3>1 DEF Rows
    <3>3. CanBeExpired
      BY <3>1 DEF CanBeExpired, IsExpired
    <3>4. Others("deleter") /\ proc'["deleter"].step = "delete"
      BY <1>4, <2>1, <3>1, Goes
    <3>5. \A q \in Procs : proc'[q].step = "renew" => proc'[q] = proc[q]
      BY <3>4 DEF Others
    <3>6. QED
      BY <1>3, <3>1, <3>2, <3>3, <3>5, UnpaidKept
  <2>5. CASE Look
    <3>1. UNCHANGED <<now, row, periods>>
      BY <2>5 DEF Look
    <3>2. Others("sync") /\ proc'["sync"].step \in {"apply", "idle"}
      BY <1>4, <2>1, <2>5, Looks, Goes
    <3>3. ~Holds("sync")'
      BY <3>2 DEF Holds, Holding, Claiming
    <3>4. QED
      BY <1>3, <2>1, <3>1, <3>2, <3>3, PlainStep
  <2>6. CASE Apply
    <3>1. At("sync", "apply") /\ Finish("sync") /\ UNCHANGED <<now, periods>>
      BY <2>6 DEF Apply
    <3>2. Others("sync") /\ proc'["sync"].step = "idle" /\ ~Holds("sync")'
      BY <1>4, <2>1, <3>1, Goes DEF Holds, Holding, Claiming
    <3>3. row'.expiresAt = row.expiresAt /\ row'.version = row.version /\ row'.reason = row.reason
      BY <1>4, <2>6 DEF Apply, Rows
    <3>4. proc["sync"].seen \in Containers
      BY <2>1, Types DEF ProcType
    <3>5. row' = row \/ row'.status = "deleted" \/ row'.status \in {"running", "stopped"}
      BY <1>4, <2>6, <3>4 DEF Apply, Rows, Containers
    <3>6. CASE row.status # "deleted" /\ row'.status = "deleted"
      <4>1. \A q \in Procs : ~Revives(q)'
        BY <1>2, <3>2, <3>6 DEF Alone, Revives, Others, Holds
      <4>2. ~CanBeExpired'
        BY <3>6, <4>1 DEF CanBeExpired
      <4>3. PaidUntilExpiry'
        BY <1>3, <3>1, <3>3 DEF PaidUntilExpiry
      <4>4. QED
        BY <4>2, <4>3
    <3>7. CASE row.status = "deleted" \/ row'.status # "deleted"
      BY <1>3, <2>1, <3>1, <3>2, <3>3, <3>5, <3>7, PlainStep
    <3>8. QED
      BY <3>6, <3>7
  <2>7. QED
    BY <1>8, <2>2, <2>3, <2>4, <2>5, <2>6 DEF JobStep
<1>9. ASSUME NEW p \in Procs, Continue(p) \/ GiveUp(p) PROVE PaidUntilExpiry' /\ (CanBeExpired' => Unpaid')
  BY <1>1, <1>2, <1>3, <1>9, ContinueExpired
<1>10. QED
  BY <1>5, <1>6, <1>7, <1>8, <1>9 DEF Next, Fire

-------------------------------------------------------------------------------
\* At the purchase.
LEMMA InitDInv == Init => DInv
<1> SUFFICES ASSUME Init PROVE DInv
  OBVIOUS
<1>1. IInv
  BY InitInv
<1>2. PICK e \in 1..Period :
        /\ row = Fresh(e) /\ container = [status |-> "running", incusId |-> 0]
        /\ periods = <<[NoGrant EXCEPT !.end = e]>>
        /\ refunds = 0 /\ proc = [p \in Procs |-> NoProc]
        /\ reopened = 0 /\ torn = FALSE /\ crossed = FALSE
  BY DEF Init
<1>3. \A p \in Procs : proc[p].step = "idle" /\ Saw(p) = Fresh(0)
  BY <1>2 DEF NoProc, Saw
<1>4. Counted
  <2>1. Claimants = {}
    BY <1>3 DEF Claimants, Claiming
  <2>2. Cardinality(Claimants) = 0
    BY <2>1, FS_EmptySet
  <2>3. QED
    BY <1>2, <2>2 DEF Counted, Fresh
<1>5. Alone
  BY <1>3 DEF Alone, Holds, Holding, Claiming
<1>6. Names
  BY <1>2, <1>3 DEF Names, Fresh, At
<1>7. GoneInv
  BY <1>2 DEF GoneInv, Present, Fresh
<1>8. ExpiredInv
  <2>1. e \in Nat /\ NoGrant \in Grants
    BY LifecycleAssumption, Shapes
  <2>2. Len(periods) = 1 /\ periods[1].end = e /\ DOMAIN periods = 1..1
    BY <1>2, <2>1 DEF Grants
  <2>3. PaidUntilExpiry
    BY <1>2, <2>1, <2>2 DEF PaidUntilExpiry, Fresh
  <2>4. ~CanBeExpired
    BY <1>2 DEF CanBeExpired, Fresh
  <2>5. QED
    BY <2>3, <2>4 DEF ExpiredInv
<1>9. QED
  BY <1>1, <1>4, <1>5, <1>6, <1>7, <1>8 DEF DInv

\* Every step keeps all of it.
LEMMA NextDInv == DInv /\ [Next]_vars => DInv'
<1> SUFFICES ASSUME DInv, [Next]_vars PROVE DInv'
  OBVIOUS
<1>1. IInv /\ Counted /\ Alone /\ Names /\ GoneInv /\ ExpiredInv
  BY DEF DInv
<1>2. QED
  BY <1>1, NextInv, StepCounted, StepAlone, StepNames, StepGone, StepExpired DEF DInv

-------------------------------------------------------------------------------
\* However the deletions of the owner, of administrators and of the expiry job meet
\* tasks, recreations and the synchronisation, fail and are undone: an instance that is
\* not deleted has the container its row names, unless a recreation is half way or ended
\* there, the answer to a deletion was lost, or a deleted row was taken or written again.
THEOREM LiveKeepsContainer == Spec => []LiveHasContainer
<1>1. DInv => LiveHasContainer
  BY DEF DInv, GoneInv, Building, Gone, LiveHasContainer
<1>2. QED
  BY <1>1, InitDInv, NextDInv, PTL DEF Spec

\* The deletions that may still pay and the refunds paid.
LEMMA CountedRefunds == DInv => RefundedOnce /\ RefundedMeansGone
<1> SUFFICES ASSUME DInv PROVE RefundedOnce /\ RefundedMeansGone
  OBVIOUS
<1>1. refunds \in Nat /\ reopened \in Nat
  BY Types DEF DInv, HistoriesOK
<1>2. PICK c \in Nat : c + refunds <= (IF row.status = "deleted" THEN 1 ELSE 0) + reopened
  BY FiniteClaimants, FS_CardinalityType DEF DInv, Counted
<1>3. CASE row.status = "deleted"
  BY <1>1, <1>2, <1>3 DEF RefundedOnce, RefundedMeansGone
<1>4. CASE row.status # "deleted"
  BY <1>1, <1>2, <1>4 DEF RefundedOnce, RefundedMeansGone
<1>5. QED
  BY <1>3, <1>4

\* Deletions of one instance that race pay once, and once more at most for every time
\* one of them took a row it had read as deleted or somebody wrote over a deleted row.
THEOREM RefundsOnce == Spec => []RefundedOnce
BY CountedRefunds, InitDInv, NextDInv, PTL DEF Spec

\* A row that is not deleted was refunded at most as often as that.
THEOREM RefundedStaysGone == Spec => []RefundedMeansGone
BY CountedRefunds, InitDInv, NextDInv, PTL DEF Spec

\* The expiry job, which asks for the version and never for the expiry, deletes only
\* what has expired, unless an extension by hand or a renewal that met one was written
\* over another row than the one read, or a deleted row was taken or written again.
THEOREM ExpirySparesPaid == Spec => SparesPaid
<1>1. DInv /\ [Next]_vars =>
        [ClaimExpired => (\A i \in DOMAIN periods : periods[i].end < now) \/ crossed \/ reopened > 0]_vars
  <2>1. SUFFICES ASSUME DInv, ClaimExpired, ~crossed, ~(reopened > 0)
                 PROVE  \A i \in DOMAIN periods : periods[i].end < now
    OBVIOUS
  <2>2. IInv /\ PaidUntilExpiry /\ (CanBeExpired => Unpaid)
    BY <2>1 DEF DInv, ExpiredInv
  <2>3. row.expiresAt < now
    BY <2>1, <2>2 DEF ClaimExpired, Overripe, IsExpired, CanBeExpired, Unpaid
  <2>4. ASSUME NEW i \in DOMAIN periods PROVE periods[i].end < now
    <3>1. periods[i].end <= row.expiresAt
      BY <2>2 DEF PaidUntilExpiry
    <3>2. periods[i] \in Grants /\ row.expiresAt \in Nat /\ now \in Nat
      BY <2>2, Types DEF IInv, TypeOK
    <3>3. periods[i].end \in Nat
      BY <3>2 DEF Grants
    <3>4. QED
      BY <2>3, <3>1, <3>2, <3>3
  <2>5. QED
    BY <2>4
<1>2. QED
  BY <1>1, InitDInv, NextDInv, PTL DEF Spec, SparesPaid
===============================================================================
