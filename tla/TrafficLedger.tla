---------------------------- MODULE TrafficLedger ----------------------------
(***************************************************************************)
(* The traffic of one user's instances: the counters on the host, the two  *)
(* ways they come in (the collector asks the host, the agent reports), the *)
(* resets that start a new month, and the rows in distributed_locks that   *)
(* keep them apart.                                                        *)
(*                                                                         *)
(* Bytes received and sent are one counter.  A lock is a row with an owner *)
(* and an expiry; what matters of the expiry is whether the lock can be    *)
(* taken over, so that a holder that is dead or too slow loses it in a     *)
(* step of its own.  "now" numbers the moments at which samples are        *)
(* taken; the server stamps a sample with that moment, an agent with what  *)
(* its own clock says.                                                     *)
(***************************************************************************)
EXTENDS Integers, FiniteSets, FiniteSetsExt

CONSTANTS
    Instances,
    Procs,        \* requests and jobs at work, in every server process
    MaxTraffic,   \* bound: traffic of all instances
    MaxTime,      \* bound: samples taken
    MaxStops,     \* bound: stops of instances
    MaxSkew,      \* bound: how far the clock of an agent is ahead or behind
    User,         \* the key of the user's lock
    None

ASSUME TrafficAssumption ==
    /\ IsFiniteSet(Instances)
    /\ MaxTraffic \in Nat /\ MaxTime \in Nat /\ MaxStops \in Nat /\ MaxSkew \in Nat
    /\ User \notin Instances
    /\ None \notin Procs \cup {"lost"} /\ "lost" \notin Procs

VARIABLES
    now,
    running,    \* instances.status
    sent,       \* traffic of an instance since it exists
    origin,     \* of it, what was sent before the counter last started at zero
    stops,
    snapshot,   \* traffic_snapshots
    used,       \* instances.monthly_traffic_used
    userUsed,   \* user_quotas.monthly_traffic_used
    daily,      \* daily_traffic, summed over all days
    report,     \* the last sample of the agent: it may arrive late, twice or never
    lock,       \* distributed_locks: who holds a key; "lost" when he is dead
    crossed,    \* history: who is at work beside a reset that has lost its lock
    proc        \* the step of a process and what it has read

host == <<sent, origin, stops>>
ledger == <<snapshot, used, userUsed, daily>>
locks == <<lock, crossed>>
vars == <<now, running, host, ledger, report, locks, proc>>

Keys == Instances \cup {User}
Kinds == {"none", "collect", "report", "reset"}
Steps == {"idle", "lock", "read", "stamp", "lockUser", "quota", "commit"}

\* A sample: the counter, its stamp and, which only the properties see, when it was
\* really taken and how much traffic there had been.
Samples == [raw : Nat, at : Nat, taken : Nat, pos : Nat]
NoSample == [raw |-> 0, at |-> 0, taken |-> 0, pos |-> 0]
Job(kind, step, i, sample) ==
    [kind |-> kind, step |-> step, instance |-> i, sample |-> sample, quota |-> 0]
NoProc == Job("none", "idle", None, NoSample)

TypeOK ==
    /\ now \in 0..MaxTime
    /\ running \in [Instances -> BOOLEAN]
    /\ sent \in [Instances -> Nat]
    /\ origin \in [Instances -> Nat]
    /\ stops \in 0..MaxStops
    /\ snapshot \in [Instances -> Samples]
    /\ used \in [Instances -> Nat]
    /\ userUsed \in Nat
    /\ daily \in [Instances -> Nat]
    /\ report \in [Instances -> Samples]
    /\ lock \in [Keys -> Procs \cup {None, "lost"}]
    /\ crossed \subseteq Procs
    /\ proc \in [Procs -> [kind : Kinds, step : Steps, instance : Instances \cup {None},
                           sample : Samples, quota : Nat]]

Init ==
    /\ now = 0
    /\ running = [i \in Instances |-> TRUE]
    /\ sent = [i \in Instances |-> 0]
    /\ origin = [i \in Instances |-> 0]
    /\ stops = 0
    /\ snapshot = [i \in Instances |-> NoSample]
    /\ used = [i \in Instances |-> 0]
    /\ userUsed = 0
    /\ daily = [i \in Instances |-> 0]
    /\ report = [i \in Instances |-> NoSample]
    /\ lock = [k \in Keys |-> None]
    /\ crossed = {}
    /\ proc = [p \in Procs |-> NoProc]

Sum(f) == MapThenSumSet(LAMBDA i : f[i], Instances)

At(p, step) == proc[p].step = step
Goto(p, step) == proc' = [proc EXCEPT ![p].step = step]
Of(p) == proc[p].instance
Inside(p) == proc[p].step \in {"read", "stamp", "lockUser", "quota", "commit"}

-------------------------------------------------------------------------------
(* The host and the agent *)

Send(i) ==
    /\ running[i] /\ Sum(sent) < MaxTraffic
    /\ sent' = [sent EXCEPT ![i] = @ + 1]
    /\ UNCHANGED <<now, running, origin, stops, ledger, report, locks, proc>>

Stop(i) ==
    /\ running[i] /\ stops < MaxStops
    /\ running' = [running EXCEPT ![i] = FALSE]
    /\ stops' = stops + 1
    /\ UNCHANGED <<now, sent, origin, ledger, report, locks, proc>>

\* A container that starts again counts from zero.
Restart(i) ==
    /\ ~running[i]
    /\ running' = [running EXCEPT ![i] = TRUE]
    /\ origin' = [origin EXCEPT ![i] = sent[i]]
    /\ UNCHANGED <<now, sent, stops, ledger, report, locks, proc>>

Counter(i) == [raw |-> sent[i] - origin[i], at |-> 0, taken |-> 0, pos |-> sent[i]]

\* The agent reads and stamps, by a clock that may be wrong by another amount each
\* time: reportedAt is taken as it is.
AgentSample(i) ==
    /\ running[i] /\ now < MaxTime
    /\ now' = now + 1
    /\ \E stamp \in 0..(now + 1 + MaxSkew) :
          /\ stamp >= now + 1 - MaxSkew
          /\ report' = [report EXCEPT ![i] = [Counter(i) EXCEPT !.at = stamp, !.taken = now + 1]]
    /\ UNCHANGED <<running, host, ledger, locks, proc>>

-------------------------------------------------------------------------------
(* Locks *)

\* Mutant: the row is taken over whoever holds it.
Free_always(k) == TRUE

\* acquireLock: no row, or one that has expired.  Who waits has not begun.
Free(k) == lock[k] = None

\* The resets that went on after they lost the lock of instance i.
Overtaken(i) == {q \in Procs : Inside(q) /\ Of(q) = i /\ proc[q].kind = "reset"}

Enter(p, i, r) ==
    /\ Free(i)
    /\ lock' = [lock EXCEPT ![i] = p]
    /\ crossed' = IF Overtaken(i) = {} THEN crossed ELSE crossed \cup Overtaken(i) \cup {p}
    /\ proc' = [proc EXCEPT ![p] = r]
    /\ UNCHANGED <<now, running, host, ledger, report>>

Start(p, i, kind) ==
    /\ At(p, "idle")
    /\ Enter(p, i, Job(kind, "read", i, NoSample))

StartCollect(p) == \E i \in Instances : running[i] /\ Start(p, i, "collect")
StartReset(p) == \E i \in Instances : Start(p, i, "reset")

\* A report waits with its sample for the lock.
Deliver(p) ==
    \E i \in Instances :
        /\ At(p, "idle") /\ report[i] # NoSample /\ running[i]
        /\ proc' = [proc EXCEPT ![p] = Job("report", "lock", i, report[i])]
        /\ UNCHANGED <<now, running, host, ledger, report, locks>>

StartReport(p) == At(p, "lock") /\ Enter(p, Of(p), [proc[p] EXCEPT !.step = "lockUser"])

LockUser(p) ==
    /\ At(p, "lockUser") /\ Free(User)
    /\ lock' = [lock EXCEPT ![User] = p]
    /\ Goto(p, IF proc[p].kind = "reset" THEN "quota" ELSE "commit")
    /\ UNCHANGED <<now, running, host, ledger, report, crossed>>

\* releaseLock: only one's own row.
Released(p) == [k \in Keys |-> IF lock[k] = p THEN None ELSE lock[k]]
Finish(p) ==
    /\ lock' = Released(p)
    /\ crossed' = crossed \ {p}
    /\ proc' = [proc EXCEPT ![p] = NoProc]

\* A lock that is not free in time, a host that does not answer, an error.
Fail(p) ==
    /\ ~At(p, "idle")
    /\ Finish(p)
    /\ UNCHANGED <<now, running, host, ledger, report>>

\* The server process of p dies; its rows stay.
Die(p) ==
    /\ ~At(p, "idle")
    /\ lock' = [k \in Keys |-> IF lock[k] = p THEN "lost" ELSE lock[k]]
    /\ crossed' = crossed \ {p}
    /\ proc' = [proc EXCEPT ![p] = NoProc]
    /\ UNCHANGED <<now, running, host, ledger, report>>

\* Mutant: the collector does not renew its lock either.
Unrenewed_collectorToo(p) == proc[p].kind # "report"

\* Who lets the lock of an instance run out while he is at work: the lock lasts 30 s,
\* and a reset waits for the host and for the user's lock without renewing it.
Unrenewed(p) == proc[p].kind = "reset"

Expire(k) ==
    /\ lock[k] = "lost" \/ \E p \in Procs : lock[k] = p /\ k = Of(p) /\ Unrenewed(p)
    /\ lock' = [lock EXCEPT ![k] = None]
    /\ UNCHANGED <<now, running, host, ledger, report, crossed, proc>>

-------------------------------------------------------------------------------
(* Samples and the transactions *)

\* getTrafficCounters: the host reads its counter, the answer is stamped when it
\* arrives.
Read(p) ==
    /\ At(p, "read") /\ running[Of(p)]
    /\ proc' = [proc EXCEPT ![p].step = "stamp", ![p].sample = Counter(Of(p))]
    /\ UNCHANGED <<now, running, host, ledger, report, locks>>

Stamp(p) ==
    /\ At(p, "stamp") /\ now < MaxTime
    /\ now' = now + 1
    /\ proc' = [proc EXCEPT ![p].step = "lockUser",
                            ![p].sample.at = now + 1, ![p].sample.taken = now + 1]
    /\ UNCHANGED <<running, host, ledger, report, locks>>

\* getTrafficResetSample of an instance that does not run: the snapshot as it is.
ReadStopped(p) ==
    /\ At(p, "read") /\ proc[p].kind = "reset" /\ ~running[Of(p)]
    /\ proc' = [proc EXCEPT ![p].step = "stamp", ![p].sample = snapshot[Of(p)]]
    /\ UNCHANGED <<now, running, host, ledger, report, locks>>

\* Mutant: a late sample becomes the baseline again.
Accepted_late(p) == TRUE

\* advanceTrafficSnapshot
Accepted(p) == snapshot[Of(p)].at <= proc[p].sample.at
Advanced(p) ==
    IF Accepted(p) THEN [snapshot EXCEPT ![Of(p)] = proc[p].sample] ELSE snapshot

\* Mutant: a counter that went back is subtracted.
Increment_unchecked(last, current) == current.raw - last.raw

\* calculateIncrement
Increment(last, current) ==
    IF current.raw < last.raw THEN 0 ELSE current.raw - last.raw

\* applyTrafficCounters and applyReportedTrafficCounters, one transaction.
Apply(p) ==
    /\ At(p, "commit") /\ proc[p].kind \in {"collect", "report"}
    /\ LET i == Of(p)
           delta == IF running[i] /\ Accepted(p)
                    THEN Increment(snapshot[i], proc[p].sample) ELSE 0
       IN  /\ snapshot' = IF running[i] THEN Advanced(p) ELSE snapshot
           /\ used' = [used EXCEPT ![i] = @ + delta]
           /\ userUsed' = userUsed + delta
           /\ daily' = [daily EXCEPT ![i] = @ + delta]
    /\ Finish(p)
    /\ UNCHANGED <<now, running, host, report>>

\* The transaction of a reset reads the two rows...
ReadQuota(p) ==
    /\ At(p, "quota")
    /\ proc' = [proc EXCEPT ![p].step = "commit",
                            ![p].quota = IF userUsed > used[Of(p)]
                                         THEN userUsed - used[Of(p)] ELSE 0]
    /\ UNCHANGED <<now, running, host, ledger, report, locks>>

\* ...and writes what is left of the user's traffic without this instance's.
Reset(p) ==
    /\ At(p, "commit") /\ proc[p].kind = "reset"
    /\ snapshot' = Advanced(p)
    /\ used' = [used EXCEPT ![Of(p)] = 0]
    /\ userUsed' = proc[p].quota
    /\ Finish(p)
    /\ UNCHANGED <<now, running, host, daily, report>>

Next ==
    \/ \E i \in Instances : Send(i) \/ Stop(i) \/ Restart(i) \/ AgentSample(i)
    \/ \E k \in Keys : Expire(k)
    \/ \E p \in Procs :
          \/ StartCollect(p) \/ StartReset(p) \/ Deliver(p)
          \/ StartReport(p) \/ Read(p) \/ ReadStopped(p) \/ Stamp(p)
          \/ LockUser(p) \/ Apply(p) \/ ReadQuota(p) \/ Reset(p)
          \/ Fail(p) \/ Die(p)

Spec == Init /\ [][Next]_vars

-------------------------------------------------------------------------------
(* Properties *)

\* A sample that may be behind the one it replaces: it was stamped ahead of the time
\* it was taken, or the other one behind it, or a reset that had lost its lock was at
\* work beside the process that brings it.
Doubtful(p) ==
    \/ proc[p].sample.at > proc[p].sample.taken
    \/ snapshot[Of(p)].at < snapshot[Of(p)].taken
    \/ p \in crossed

\* However samples of the agent and of the collector, resets, restarts of the
\* counter and takeovers of locks meet, what is behind the snapshot was counted or
\* dropped and is never counted again, but for one instance at a time and by a sample
\* that is Doubtful, which counts at most what the instance has sent.
Meter == INSTANCE TrafficMeter
         WITH sent <- sent, passed <- [i \in Instances |-> snapshot[i].pos],
              counted <- daily, Instances <- Instances,
              doubtful <- {i \in Instances : \E p \in Procs :
                              At(p, "commit") /\ Of(p) = i /\ Doubtful(p)}
MeterSpec == Meter!Spec

\* The user's traffic is that of his instances, also when the reset of one of them
\* meets a sample of another.
UserIsSum == userUsed = Sum(used)

\* Two processes work on the counters of one instance at a time only when one of them
\* is a reset that has lost its lock, and even then their transactions do not overlap:
\* the collector and the reports never meet each other, also when a lock is taken over
\* from a dead holder.
OneAtATime ==
    \A p, q \in Procs : p # q /\ Inside(p) /\ Inside(q) /\ Of(p) = Of(q) =>
        /\ \E r \in {p, q} : proc[r].kind = "reset" /\ lock[Of(r)] # r
        /\ ~({proc[p].step, proc[q].step} \subseteq {"quota", "commit"})
===============================================================================
