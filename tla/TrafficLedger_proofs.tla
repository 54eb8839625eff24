------------------------- MODULE TrafficLedger_proofs -------------------------
(***************************************************************************)
(* For any number of instances and of processes, however wrong the clocks  *)
(* of the agents and however slow the resets: two processes work on one    *)
(* instance only when one is a reset that has lost its lock, no traffic is *)
(* counted twice but by a doubtful sample, and the user's traffic is the   *)
(* sum of his instances'.                                                  *)
(***************************************************************************)
EXTENDS TLAPS, FiniteSetTheorems, TrafficLedger

ProcType == [kind : Kinds, step : Steps, instance : Instances \cup {None},
             sample : Samples, quota : Nat]

\* The counter on the host never exceeds the traffic there has been.
Counted == \A i \in Instances : origin[i] <= sent[i]

\* A process at work has an instance, and a report is not read from the host.
WorkInv ==
    \A p \in Procs : ~At(p, "idle") =>
        /\ Of(p) \in Instances
        /\ proc[p].kind \in {"collect", "report", "reset"}
        /\ proc[p].kind = "report" => proc[p].step \in {"lock", "lockUser", "commit"}
        /\ At(p, "lock") => proc[p].kind = "report"

TInv == TypeOK /\ Counted /\ WorkInv

\* Who is inside holds the lock of the instance, unless he does not renew it.
HoldsLock == \A p \in Procs : Inside(p) => lock[Of(p)] = p \/ proc[p].kind = "reset"

\* Who is inside with another knows that a lock was lost.
Alone == \A p, q \in Procs : p # q /\ Inside(p) /\ Inside(q) /\ Of(p) = Of(q) => p \in crossed

-------------------------------------------------------------------------------
(* Types *)

\* An idle process, and a process that goes on.
LEMMA ProcTypes ==
  /\ NoSample \in Samples
  /\ NoProc \in ProcType
  /\ \A r \in ProcType, s \in Steps : [r EXCEPT !.step = s] \in ProcType
BY DEF NoSample, NoProc, Job, ProcType, Samples, Kinds, Steps

\* The type of the processes by its name.
LEMMA TypeByName == TypeOK => proc \in [Procs -> ProcType]
BY DEF TypeOK, ProcType

\* Nothing was sent yet.
LEMMA InitT == Init => TInv /\ HoldsLock /\ Alone
<1> SUFFICES ASSUME Init PROVE TInv /\ HoldsLock /\ Alone
  OBVIOUS
<1>1. now \in 0..MaxTime /\ stops \in 0..MaxStops
  BY TrafficAssumption DEF Init
<1>2. proc \in [Procs -> ProcType]
  BY ProcTypes DEF Init
<1>3. TypeOK
  BY <1>1, <1>2, ProcTypes DEF Init, TypeOK, ProcType
<1>4. \A p \in Procs : At(p, "idle")
  BY DEF Init, At, NoProc, Job
<1>5. Counted /\ WorkInv /\ HoldsLock /\ Alone
  BY <1>4 DEF Init, Counted, WorkInv, HoldsLock, Alone, Inside, At
<1>6. QED
  BY <1>3, <1>5 DEF TInv

\* The host, the agent and the locks of the dead.
LEMMA HostT ==
  ASSUME TInv,
         \/ \E i \in Instances : Send(i) \/ Stop(i) \/ Restart(i) \/ AgentSample(i)
         \/ \E k \in Keys : Expire(k)
  PROVE  TInv'
<1>1. UNCHANGED proc
  BY DEF Send, Stop, Restart, AgentSample, Expire
<1>2. WorkInv'
  BY <1>1 DEF TInv, WorkInv, At, Of
<1>3. CASE \E i \in Instances : Send(i)
  <2>1. PICK i \in Instances : Send(i)
    BY <1>3
  <2>2. sent' \in [Instances -> Nat] /\ (\A j \in Instances : sent[j] <= sent'[j])
    BY <2>1 DEF Send, TInv, TypeOK
  <2>3. TypeOK'
    BY <2>1, <2>2 DEF Send, TInv, TypeOK, ledger, locks
  <2>4. Counted'
    BY <2>1, <2>2 DEF Send, TInv, Counted, TypeOK
  <2>5. QED
    BY <1>2, <2>3, <2>4 DEF TInv
<1>4. CASE \E i \in Instances : Stop(i)
  BY <1>2, <1>4, TrafficAssumption DEF Stop, TInv, TypeOK, Counted, ledger, locks
<1>5. CASE \E i \in Instances : Restart(i)
  <2>1. PICK i \in Instances : Restart(i)
    BY <1>5
  <2>2. /\ origin' \in [Instances -> Nat]
        /\ running' \in [Instances -> BOOLEAN]
    BY <2>1, TrafficAssumption DEF Restart, TInv, TypeOK
  <2>3. TypeOK'
    BY <2>1, <2>2 DEF Restart, TInv, TypeOK, ledger, locks
  <2>4. Counted'
    BY <2>1 DEF Restart, TInv, TypeOK, Counted
  <2>5. QED
    BY <1>2, <2>3, <2>4 DEF TInv
<1>6. CASE \E i \in Instances : AgentSample(i)
  <2>1. PICK i \in Instances : AgentSample(i)
    BY <1>6
  <2>2. now' \in 0..MaxTime
    <3>1. now \in 0..MaxTime /\ now < MaxTime /\ now' = now + 1 /\ MaxTime \in Nat
      BY <2>1, TrafficAssumption DEF AgentSample, TInv, TypeOK
    <3>2. QED
      BY <3>1
  <2>3. PICK stamp \in 0..(now + 1 + MaxSkew) :
           report' = [report EXCEPT ![i] = [Counter(i) EXCEPT !.at = stamp, !.taken = now + 1]]
    BY <2>1 DEF AgentSample
  <2>4. [Counter(i) EXCEPT !.at = stamp, !.taken = now + 1] \in Samples
    <3>1. /\ sent[i] \in Nat /\ origin[i] \in Nat /\ origin[i] <= sent[i]
          /\ now \in Nat /\ MaxSkew \in Nat
      BY <2>1, TrafficAssumption DEF TInv, TypeOK, Counted
    <3>2. stamp \in Nat /\ now + 1 \in Nat /\ sent[i] - origin[i] \in Nat
      BY <3>1
    <3>3. QED
      BY <3>1, <3>2 DEF Counter, Samples
  <2>5. report' \in [Instances -> Samples]
    BY <2>3, <2>4 DEF TInv, TypeOK
  <2>6. TypeOK' /\ Counted'
    BY <2>1, <2>2, <2>5 DEF AgentSample, TInv, TypeOK, Counted, host, ledger, locks
  <2>7. QED
    BY <1>2, <2>6 DEF TInv
<1>7. CASE \E k \in Keys : Expire(k)
  BY <1>2, <1>7 DEF Expire, TInv, TypeOK, Counted, host, ledger
<1>8. QED
  BY <1>3, <1>4, <1>5, <1>6, <1>7

\* What a process changes: the counters only when it ends, and its own record.
Begins(p) == StartCollect(p) \/ StartReset(p) \/ Deliver(p)
Continues(p) ==
    \/ Begins(p) \/ StartReport(p) \/ Read(p) \/ ReadStopped(p) \/ Stamp(p) \/ LockUser(p)
    \/ ReadQuota(p)
Ends(p) == Apply(p) \/ Reset(p) \/ Fail(p) \/ Die(p)

\* The record of a process that goes on.
LEMMA ContinuesProc ==
  ASSUME TInv, NEW p \in Procs, Continues(p)
  PROVE  \E r \in ProcType :
            /\ proc' = [proc EXCEPT ![p] = r]
            /\ r.step # "idle" /\ r.instance \in Instances
            /\ r.kind \in {"collect", "report", "reset"}
            /\ r.kind = "report" => r.step \in {"lock", "lockUser", "commit"}
            /\ r.step = "lock" => r.kind = "report"
            /\ At(p, "idle") \/ (r.instance = Of(p) /\ r.kind = proc[p].kind)
<1>1. proc \in [Procs -> ProcType] /\ proc[p] \in ProcType
  BY TypeByName DEF TInv
<1>2. CASE Begins(p)
  <2>1. PICK i \in Instances, kind \in {"collect", "report", "reset"}, step \in {"lock", "read"}, s \in Samples :
          /\ proc' = [proc EXCEPT ![p] = Job(kind, step, i, s)]
          /\ kind = "report" <=> step = "lock"
          /\ At(p, "idle")
    <3>1. CASE StartCollect(p) \/ StartReset(p)
      <4>1. PICK i \in Instances, kind \in {"collect", "reset"} : Start(p, i, kind)
        BY <3>1 DEF StartCollect, StartReset
      <4>2. /\ At(p, "idle")
            /\ proc' = [proc EXCEPT ![p] = Job(kind, "read", i, NoSample)]
        BY <4>1 DEF Start, Enter
      <4>3. NoSample \in Samples
        BY ProcTypes
      <4>4. QED
        BY <4>2, <4>3
    <3>2. CASE Deliver(p)
      BY <3>2 DEF Deliver, TInv, TypeOK
    <3>3. QED
      BY <1>2, <3>1, <3>2 DEF Begins
  <2>2. Job(kind, step, i, s) \in ProcType
    BY DEF Job, ProcType, Kinds, Steps
  <2>3. QED
    BY <2>1, <2>2 DEF Job
<1>3. ~At(p, "idle") =>
        /\ proc[p].instance \in Instances
        /\ proc[p].kind \in {"collect", "report", "reset"}
        /\ proc[p].kind = "report" => proc[p].step \in {"lock", "lockUser", "commit"}
  BY DEF TInv, WorkInv, Of
<1>4. CASE StartReport(p) \/ LockUser(p)
  <2>1. PICK s \in {"lockUser", "quota", "commit"} :
          /\ proc' = [proc EXCEPT ![p] = [proc[p] EXCEPT !.step = s]]
          /\ proc[p].kind = "report" => s \in {"lockUser", "commit"}
    BY <1>4 DEF StartReport, Enter, LockUser, Goto
  <2>2. ~At(p, "idle")
    BY <1>4 DEF StartReport, LockUser, At
  <2>3. s \in Steps
    BY DEF Steps
  <2>4. [proc[p] EXCEPT !.step = s] \in ProcType
    BY <1>1, <2>3, ProcTypes
  <2>5. QED
    BY <1>1, <1>3, <2>1, <2>2, <2>4 DEF Of, ProcType
<1>5. CASE Read(p) \/ ReadStopped(p)
  <2>1. PICK s \in {Counter(Of(p)), snapshot[Of(p)]} :
          proc' = [proc EXCEPT ![p] = [proc[p] EXCEPT !.step = "stamp", !.sample = s]]
    BY <1>5 DEF Read, ReadStopped
  <2>2. At(p, "read") /\ proc[p].kind # "report" /\ proc[p].instance \in Instances
    BY <1>3, <1>5 DEF Read, ReadStopped, At
  <2>3. s \in Samples
    BY <2>2 DEF TInv, TypeOK, Counted, Counter, Of, Samples
  <2>4. [proc[p] EXCEPT !.step = "stamp", !.sample = s] \in ProcType
    BY <1>1, <2>3 DEF ProcType, Steps
  <2>5. QED
    BY <1>1, <1>3, <2>1, <2>2, <2>4 DEF Of, ProcType, At
<1>6. CASE Stamp(p)
  <2>1. proc' = [proc EXCEPT ![p] = [proc[p] EXCEPT !.step = "lockUser", !.sample.at = now + 1, !.sample.taken = now + 1]]
    BY <1>6 DEF Stamp
  <2>2. [proc[p].sample EXCEPT !.at = now + 1, !.taken = now + 1] \in Samples
    <3>1. now \in Nat /\ proc[p].sample \in Samples
      BY <1>1, TrafficAssumption DEF ProcType, TInv, TypeOK
    <3>2. [proc[p].sample EXCEPT !.at = now + 1] \in Samples
      BY <3>1 DEF Samples
    <3>3. QED
      BY <3>1, <3>2 DEF Samples
  <2>3. PICK s \in Samples : proc' = [proc EXCEPT ![p] = [proc[p] EXCEPT !.step = "lockUser", !.sample = s]]
    BY <1>1, <2>1, <2>2 DEF ProcType
  <2>4. [proc[p] EXCEPT !.step = "lockUser", !.sample = s] \in ProcType
    BY <1>1 DEF ProcType, Steps
  <2>5. QED
    BY <1>1, <1>3, <1>6, <2>3, <2>4 DEF Of, ProcType, At, Stamp
<1>7. CASE ReadQuota(p)
  <2>1. PICK n \in Nat : proc' = [proc EXCEPT ![p] = [proc[p] EXCEPT !.step = "commit", !.quota = n]]
    <3>1. At(p, "quota")
      BY <1>7 DEF ReadQuota
    <3>2. Of(p) \in Instances
      BY <1>3, <3>1 DEF At, Of
    <3>3. userUsed \in Nat /\ used[Of(p)] \in Nat
      BY <3>2 DEF TInv, TypeOK
    <3>4. (IF userUsed > used[Of(p)] THEN userUsed - used[Of(p)] ELSE 0) \in Nat
      BY <3>3
    <3>5. QED
      BY <1>7, <3>4 DEF ReadQuota
  <2>2. [proc[p] EXCEPT !.step = "commit", !.quota = n] \in ProcType
    BY <1>1 DEF ProcType, Steps
  <2>3. QED
    BY <1>1, <1>3, <1>7, <2>1, <2>2 DEF Of, ProcType, At, ReadQuota
<1>8. QED
  BY <1>2, <1>4, <1>5, <1>6, <1>7 DEF Continues

\* A process that goes on.
LEMMA ContinuesT ==
  ASSUME TInv, NEW p \in Procs, Continues(p)
  PROVE  TInv'
<1>1. PICK r \in ProcType :
            /\ proc' = [proc EXCEPT ![p] = r]
            /\ r.step # "idle" /\ r.instance \in Instances
            /\ r.kind \in {"collect", "report", "reset"}
            /\ r.kind = "report" => r.step \in {"lock", "lockUser", "commit"}
            /\ r.step = "lock" => r.kind = "report"
  BY ContinuesProc
<1>2. proc \in [Procs -> ProcType] /\ proc' \in [Procs -> ProcType]
  BY <1>1, TypeByName DEF TInv
<1>3. /\ now' \in 0..MaxTime /\ UNCHANGED <<running, host, ledger, report>>
      /\ lock' \in [Keys -> Procs \cup {None, "lost"}] /\ crossed' \subseteq Procs
  <2>1. UNCHANGED <<running, host, ledger, report>>
    BY DEF Continues, Begins, StartCollect, StartReset, Start, Enter, Deliver, StartReport, Read, ReadStopped,
           Stamp, LockUser, ReadQuota
  <2>2. now' \in 0..MaxTime
    <3>1. now \in 0..MaxTime /\ MaxTime \in Nat
      BY TrafficAssumption DEF TInv, TypeOK
    <3>2. now' = now \/ (now' = now + 1 /\ now < MaxTime)
      BY DEF Continues, Begins, StartCollect, StartReset, Start, Enter, Deliver, StartReport,
         Read, ReadStopped, Stamp, LockUser, ReadQuota
    <3>3. QED
      BY <3>1, <3>2
  <2>3. /\ lock' = lock \/ \E k \in Keys : lock' = [lock EXCEPT ![k] = p]
        /\ crossed' \subseteq Procs
    <3>1. StartReport(p) => Of(p) \in Keys
      BY DEF StartReport, At, TInv, WorkInv, Keys
    <3>2. User \in Keys /\ Instances \subseteq Keys
      BY DEF Keys
    <3>3. QED
      BY <3>1, <3>2 DEF Continues, Begins, StartCollect, StartReset, Start, Enter, Overtaken, Deliver,
         StartReport, Read, ReadStopped, Stamp, LockUser, ReadQuota, locks, TInv, TypeOK
  <2>4. lock' \in [Keys -> Procs \cup {None, "lost"}]
    BY <2>3 DEF TInv, TypeOK
  <2>5. QED
    BY <2>1, <2>2, <2>3, <2>4
<1>4. TypeOK'
  BY <1>2, <1>3 DEF TInv, TypeOK, ProcType, host, ledger
<1>5. Counted'
  BY <1>3 DEF TInv, Counted, host
<1>6. WorkInv'
  BY <1>1, <1>2 DEF TInv, WorkInv, At, Of
<1>7. QED
  BY <1>4, <1>5, <1>6 DEF TInv

\* What an increment is: a number.
LEMMA Increments ==
  ASSUME NEW s \in Samples, NEW t \in Samples
  PROVE  Increment(s, t) \in Nat
BY DEF Increment, Samples

\* A process that ends.
LEMMA EndsT ==
  ASSUME TInv, NEW p \in Procs, Ends(p)
  PROVE  TInv'
<1>1. proc' = [proc EXCEPT ![p] = NoProc]
  BY DEF Ends, Apply, Reset, Fail, Die, Finish
<1>2. UNCHANGED <<now, running, host, report>>
  BY DEF Ends, Apply, Reset, Fail, Die
<1>3. lock' \in [Keys -> Procs \cup {None, "lost"}] /\ crossed' \subseteq Procs
  BY DEF Ends, Apply, Reset, Fail, Die, Finish, Released, TInv, TypeOK
<1>4. ~At(p, "idle") /\ Of(p) \in Instances
  BY DEF Ends, Apply, Reset, Fail, Die, At, TInv, WorkInv
<1>5. proc[p].sample \in Samples /\ proc[p].quota \in Nat
  BY TypeByName DEF TInv, ProcType
<1>6. /\ snapshot' \in [Instances -> Samples] /\ used' \in [Instances -> Nat]
      /\ userUsed' \in Nat /\ daily' \in [Instances -> Nat]
  <2>1. CASE Apply(p)
    <3>1. PICK delta \in Nat :
            /\ used' = [used EXCEPT ![Of(p)] = @ + delta]
            /\ userUsed' = userUsed + delta
            /\ daily' = [daily EXCEPT ![Of(p)] = @ + delta]
      <4>1. snapshot[Of(p)] \in Samples
        BY <1>4 DEF TInv, TypeOK
      <4>2. Increment(snapshot[Of(p)], proc[p].sample) \in Nat
        BY <1>5, <4>1, Increments
      <4>3. QED
        BY <2>1, <4>2 DEF Apply
    <3>2. snapshot' \in [Instances -> Samples]
      BY <1>5, <2>1 DEF Apply, Advanced, TInv, TypeOK
    <3>3. /\ used \in [Instances -> Nat] /\ daily \in [Instances -> Nat] /\ userUsed \in Nat
          /\ used[Of(p)] + delta \in Nat /\ daily[Of(p)] + delta \in Nat
      BY <1>4 DEF TInv, TypeOK
    <3>4. used' \in [Instances -> Nat] /\ daily' \in [Instances -> Nat]
      BY <3>1, <3>3
    <3>5. userUsed' \in Nat
      BY <3>1, <3>3
    <3>6. QED
      BY <3>2, <3>4, <3>5
  <2>2. CASE Reset(p)
    BY <1>5, <2>2 DEF Reset, Advanced, TInv, TypeOK
  <2>3. CASE Fail(p) \/ Die(p)
    BY <2>3 DEF Fail, Die, ledger, TInv, TypeOK
  <2>4. QED
    BY <2>1, <2>2, <2>3 DEF Ends
<1>7. proc' \in [Procs -> ProcType]
  BY <1>1, ProcTypes, TypeByName DEF TInv
<1>8. TypeOK'
  BY <1>2, <1>3, <1>6, <1>7 DEF TInv, TypeOK, ProcType, host
<1>9. Counted'
  BY <1>2 DEF TInv, Counted, host
<1>10. WorkInv'
  <2>1. \A q \in Procs : ~At(q, "idle")' => q # p /\ proc'[q] = proc[q]
    BY <1>1, TypeByName DEF TInv, At, NoProc, Job
  <2>2. QED
    BY <2>1 DEF TInv, WorkInv, At, Of
<1>11. QED
  BY <1>8, <1>9, <1>10 DEF TInv

\* Every step keeps the types.
LEMMA NextT == TInv /\ [Next]_vars => TInv'
<1> SUFFICES ASSUME TInv, [Next]_vars PROVE TInv'
  OBVIOUS
<1>1. CASE UNCHANGED vars
  BY <1>1 DEF vars, host, ledger, locks, TInv, TypeOK, Counted, WorkInv, At, Of
<1>2. CASE \/ \E i \in Instances : Send(i) \/ Stop(i) \/ Restart(i) \/ AgentSample(i)
           \/ \E k \in Keys : Expire(k)
  BY <1>2, HostT
<1>3. ASSUME NEW p \in Procs, Continues(p) \/ Ends(p)
      PROVE  TInv'
  BY <1>3, ContinuesT, EndsT
<1>4. QED
  BY <1>1, <1>2, <1>3 DEF Next, Continues, Begins, Ends

\* The counters, the samples and the locks keep their types whatever the traffic,
\* the restarts and the order in which processes meet.
THEOREM TypeCorrect == Spec => []TypeOK
<1>1. Init => TInv
  BY InitT
<1>2. TInv /\ [Next]_vars => TInv'
  BY NextT
<1>3. TInv => TypeOK
  BY DEF TInv
<1>4. QED
  BY <1>1, <1>2, <1>3, PTL DEF Spec

-------------------------------------------------------------------------------
(* Locks *)

\* Who takes the lock of an instance finds there only resets that have lost it.
LEMMA EnterLocks ==
  ASSUME TInv, HoldsLock, Alone, NEW p \in Procs, NEW i \in Instances, NEW r \in ProcType,
         Enter(p, i, r), ~Inside(p), r.instance = i
  PROVE  (HoldsLock /\ Alone)'
<1>1. /\ lock[i] = None /\ lock' = [lock EXCEPT ![i] = p] /\ proc' = [proc EXCEPT ![p] = r]
      /\ i \in Keys
  BY DEF Enter, Free, Keys
<1>2. /\ \A q \in Procs \ {p} : proc'[q] = proc[q]
      /\ proc'[p] = r /\ lock'[i] = p
      /\ \A k \in Keys : k # i => lock'[k] = lock[k]
  BY <1>1, TypeByName DEF TInv, TypeOK
<1>3. \A q \in Procs : Inside(q) /\ Of(q) = i => q \in Overtaken(i)
  BY <1>1, TrafficAssumption DEF HoldsLock, Overtaken
<1>4. \A q \in Procs : Inside(q) => Of(q) \in Keys
  BY DEF Inside, TInv, WorkInv, At, Keys
<1>5. HoldsLock'
  <2>1. ASSUME NEW q \in Procs, Inside(q)'
        PROVE  lock'[proc'[q].instance] = q \/ proc'[q].kind = "reset"
    <3>1. CASE q = p
      BY <1>2, <3>1
    <3>2. CASE q # p
      <4>1. Inside(q) /\ proc'[q] = proc[q]
        BY <1>2, <2>1, <3>2 DEF Inside
      <4>2. Of(q) = i => proc[q].kind = "reset"
        BY <1>3, <4>1 DEF Overtaken
      <4>3. Of(q) # i => lock'[Of(q)] = lock[Of(q)]
        BY <1>2, <1>4, <4>1
      <4>4. QED
        BY <4>1, <4>2, <4>3 DEF HoldsLock, Of
    <3>3. QED
      BY <3>1, <3>2
  <2>2. QED
    BY <2>1 DEF HoldsLock, Of
<1>6. /\ crossed \subseteq crossed'
      /\ Overtaken(i) # {} => Overtaken(i) \cup {p} \subseteq crossed'
  BY DEF Enter
<1>7. Alone'
  <2>1. ASSUME NEW q \in Procs, NEW t \in Procs, q # t, Inside(q)', Inside(t)',
               proc'[q].instance = proc'[t].instance
        PROVE  q \in crossed'
    <3>1. CASE q # p /\ t # p
      <4>1. Inside(q) /\ Inside(t) /\ Of(q) = Of(t)
        BY <1>2, <2>1, <3>1 DEF Inside, Of
      <4>2. QED
        BY <1>6, <2>1, <4>1 DEF Alone
    <3>2. CASE q = p
      <4>1. Inside(t) /\ Of(t) = i
        BY <1>2, <2>1, <3>2 DEF Inside, Of
      <4>2. QED
        BY <1>3, <1>6, <3>2, <4>1
    <3>3. CASE t = p
      <4>1. Inside(q) /\ Of(q) = i
        BY <1>2, <2>1, <3>3 DEF Inside, Of
      <4>2. QED
        BY <1>3, <1>6, <4>1
    <3>4. QED
      BY <3>1, <3>2, <3>3
  <2>2. QED
    BY <2>1 DEF Alone, Of
<1>8. QED
  BY <1>5, <1>7

\* Only dead holders and resets lose their locks.
LEMMA NextLocks ==
  ASSUME TInv, HoldsLock, Alone, [Next]_vars
  PROVE  (HoldsLock /\ Alone)'
<1>1. CASE UNCHANGED vars
  BY <1>1 DEF vars, locks, HoldsLock, Alone, Inside, Of
<1>2. CASE \E i \in Instances : Send(i) \/ Stop(i) \/ Restart(i) \/ AgentSample(i)
  BY <1>2 DEF Send, Stop, Restart, AgentSample, locks, HoldsLock, Alone, Inside, Of
<1>3. CASE \E k \in Keys : Expire(k)
  <2>1. PICK k \in Keys : Expire(k)
    BY <1>3
  <2>2. /\ lock[k] = "lost" \/ \E p \in Procs : lock[k] = p /\ k = Of(p) /\ proc[p].kind = "reset"
        /\ lock' = [lock EXCEPT ![k] = None] /\ UNCHANGED <<proc, crossed>>
    BY <2>1 DEF Expire, Unrenewed
  <2>3. \A p \in Procs : proc[p].kind # "reset" /\ lock[Of(p)] = p => lock'[Of(p)] = p
    BY <2>2, TrafficAssumption DEF TInv, TypeOK
  <2>4. QED
    BY <2>2, <2>3 DEF HoldsLock, Alone, Inside, Of
<1>4. ASSUME NEW p \in Procs, Continues(p)
      PROVE  (HoldsLock /\ Alone)'
  <2>1. PICK r \in ProcType :
          /\ proc' = [proc EXCEPT ![p] = r]
          /\ r.instance \in Instances
          /\ At(p, "idle") \/ (r.instance = Of(p) /\ r.kind = proc[p].kind)
    BY <1>4, ContinuesProc
  <2>2. \A q \in Procs \ {p} : proc'[q] = proc[q]
    BY <2>1
  <2>3. proc'[p] = r
    BY <2>1, TypeByName DEF TInv
  <2>4. CASE StartCollect(p) \/ StartReset(p)
    <3>1. PICK i \in Instances, kind \in Kinds : Start(p, i, kind)
      BY <2>4 DEF StartCollect, StartReset, Kinds
    <3> DEFINE n == Job(kind, "read", i, NoSample)
    <3>2. n \in ProcType /\ n.instance = i
      BY ProcTypes DEF Job, ProcType, Steps
    <3>3. Enter(p, i, n) /\ ~Inside(p)
      BY <3>1 DEF Start, At, Inside
    <3> HIDE DEF n
    <3>4. QED
      BY <3>2, <3>3, EnterLocks
  <2>5. CASE StartReport(p)
    <3> DEFINE n == [proc[p] EXCEPT !.step = "lockUser"]
    <3>1. At(p, "lock") /\ Enter(p, Of(p), n)
      BY <2>5 DEF StartReport
    <3>2. n \in ProcType /\ n.instance = Of(p)
      <4>1. proc[p] \in ProcType /\ "lockUser" \in Steps
        BY TypeByName DEF TInv, Steps
      <4>2. n \in ProcType
        BY <4>1, ProcTypes
      <4>3. QED
        BY <4>1, <4>2 DEF Of, ProcType
    <3>3. ~Inside(p) /\ Of(p) \in Instances
      BY <3>1 DEF At, Inside, TInv, WorkInv
    <3> HIDE DEF n
    <3>4. QED
      BY <3>1, <3>2, <3>3, EnterLocks
  <2>6. CASE LockUser(p)
    <3>1. At(p, "lockUser") /\ lock' = [lock EXCEPT ![User] = p] /\ UNCHANGED crossed
      BY <2>6 DEF LockUser
    <3>2. \A k \in Instances : lock'[k] = lock[k]
      BY <3>1, TrafficAssumption DEF TInv, TypeOK, Keys
    <3>3. Inside(p) /\ Of(p)' = Of(p) /\ proc'[p].kind = proc[p].kind
      BY <2>1, <2>3, <3>1 DEF Inside, At, Of
    <3>4. \A q \in Procs : Inside(q) => Of(q) \in Instances
      BY DEF Inside, TInv, WorkInv, At
    <3>5. HoldsLock'
      BY <2>2, <3>2, <3>3, <3>4 DEF HoldsLock, Inside, Of
    <3>6. Alone'
      BY <2>2, <3>1, <3>3 DEF Alone, Inside, Of
    <3>7. QED
      BY <3>5, <3>6
  <2>7. CASE Read(p) \/ ReadStopped(p) \/ Stamp(p) \/ ReadQuota(p)
    <3>1. /\ UNCHANGED <<lock, crossed>> /\ Inside(p) /\ Of(p)' = Of(p)
          /\ proc'[p].kind = proc[p].kind
      BY <2>1, <2>3, <2>7 DEF Read, ReadStopped, Stamp, ReadQuota, locks, Inside, At, Of
    <3>2. HoldsLock'
      BY <2>2, <3>1 DEF HoldsLock, Inside, Of
    <3>3. Alone'
      BY <2>2, <3>1 DEF Alone, Inside, Of
    <3>4. QED
      BY <3>2, <3>3
  <2>8. CASE Deliver(p)
    <3>1. UNCHANGED <<lock, crossed>> /\ proc'[p].step = "lock"
      BY <2>8, TypeByName DEF Deliver, Job, locks, TInv
    <3>2. QED
      BY <2>2, <3>1 DEF HoldsLock, Alone, Inside, Of
  <2>9. QED
    BY <1>4, <2>4, <2>5, <2>6, <2>7, <2>8 DEF Continues, Begins
<1>5. ASSUME NEW p \in Procs, Ends(p)
      PROVE  (HoldsLock /\ Alone)'
  <2>1. proc' = [proc EXCEPT ![p] = NoProc] /\ crossed' = crossed \ {p}
    BY <1>5 DEF Ends, Apply, Reset, Fail, Die, Finish
  <2>2. \A q \in Procs : Inside(q)' => q # p /\ proc'[q] = proc[q]
    BY <2>1, TypeByName DEF TInv, Inside, NoProc, Job
  <2>3. \A k \in Keys : lock[k] # p => lock'[k] = lock[k]
    BY <1>5 DEF Ends, Apply, Reset, Fail, Die, Finish, Released
  <2>4. \A q \in Procs : Inside(q) => Of(q) \in Keys
    BY DEF Inside, TInv, WorkInv, At, Keys
  <2>5. HoldsLock'
    BY <2>2, <2>3, <2>4 DEF HoldsLock, Inside, Of
  <2>6. Alone'
    BY <2>1, <2>2 DEF Alone, Inside, Of
  <2>7. QED
    BY <2>5, <2>6
<1>6. QED
  BY <1>1, <1>2, <1>3, <1>4, <1>5 DEF Next, Continues, Begins, Ends

-------------------------------------------------------------------------------
(* Samples *)

\* Sample s was not taken after sample t.
Behind(s, t) == s.pos <= t.pos /\ s.pos - s.raw <= t.pos - t.raw

\* The times at which they were taken say so.
Before(s, t) == s.taken <= t.taken => Behind(s, t)

\* A sample that was once the counter of i.
Sound(s, i) == s.raw <= s.pos /\ s.pos <= sent[i] /\ s.pos - s.raw <= origin[i]

\* The samples of the agent of i that may still come in.
Reports(i) == {report[i]} \cup {proc[p].sample : p \in {q \in Procs : proc[q].kind = "report" /\ Of(q) = i}}

\* A process has read the counter of i itself.
Measures(p, i) ==
    /\ proc[p].kind \in {"collect", "reset"} /\ Of(p) = i
    /\ proc[p].step \in {"stamp", "lockUser", "quota", "commit"}

ReportsInOrder(i) ==
    \A r \in Reports(i) :
        /\ Sound(r, i) /\ r.taken <= now /\ Before(snapshot[i], r)
        /\ \A t \in Reports(i) : Before(r, t)
MeasuresInOrder(i) ==
    \A p \in Procs : Measures(p, i) =>
        /\ Sound(proc[p].sample, i)
        /\ p \notin crossed => Behind(snapshot[i], proc[p].sample)
        /\ ~At(p, "stamp") => \A r \in Reports(i) : Before(proc[p].sample, r)

\* Whatever can still become the baseline of an instance is in order with the one
\* it has.
InOrder(i) == Sound(snapshot[i], i) /\ ReportsInOrder(i) /\ MeasuresInOrder(i)

\* The types of what is compared.
LEMMA SampleTypes ==
  ASSUME TypeOK, NEW i \in Instances
  PROVE  /\ snapshot[i] \in Samples /\ (\A r \in Reports(i) : r \in Samples)
         /\ \A p \in Procs : proc[p].sample \in Samples
         /\ sent[i] \in Nat /\ origin[i] \in Nat /\ now \in Nat
BY TrafficAssumption DEF TypeOK, Reports

\* Reports that are not new come from reports.
LEMMA ReportsShrink ==
  ASSUME TypeOK, NEW i \in Instances, NEW p \in Procs, NEW r, proc' = [proc EXCEPT ![p] = r],
         UNCHANGED report,
         r.kind = "report" /\ r.instance = i => r.sample \in Reports(i)
  PROVE  Reports(i)' \subseteq Reports(i)
<1>1. proc'[p] = r /\ \A q \in Procs : q # p => proc'[q] = proc[q]
  BY DEF TypeOK
<1>2. ASSUME NEW q \in Procs, proc'[q].kind = "report", proc'[q].instance = i
      PROVE  proc'[q].sample \in Reports(i)
  BY <1>1, <1>2 DEF Reports, Of
<1>3. QED
  BY <1>2 DEF Reports, Of

\* What is in order stays so while nothing new is read.
LEMMA StillInOrder ==
  ASSUME TypeOK, TypeOK', NEW i \in Instances, InOrder(i),
         snapshot'[i] = snapshot[i], sent[i] <= sent'[i], origin[i] <= origin'[i], now <= now',
         Reports(i)' \subseteq Reports(i),
         \A p \in Procs : Measures(p, i)' =>
            /\ Measures(p, i) /\ proc'[p].sample = proc[p].sample
            /\ p \in crossed => p \in crossed'
            /\ At(p, "stamp") => At(p, "stamp")'
  PROVE  InOrder(i)'
<1>1. \A s \in Samples : Sound(s, i) => Sound(s, i)'
  <2>1. sent'[i] \in Nat /\ origin'[i] \in Nat
    BY DEF TypeOK
  <2>2. QED
    BY <2>1, SampleTypes DEF Sound, Samples
<1>2. Sound(snapshot[i], i)'
  BY <1>1, SampleTypes DEF InOrder, Sound
<1>3. ReportsInOrder(i)'
  <2>1. now' \in Nat
    BY TrafficAssumption DEF TypeOK
  <2>2. \A r \in Reports(i) : r \in Samples /\ Sound(r, i)' /\ r.taken <= now'
    BY <1>1, <2>1, SampleTypes DEF InOrder, ReportsInOrder, Samples
  <2>3. \A r \in Reports(i) : Before(snapshot'[i], r) /\ \A t \in Reports(i) : Before(r, t)
    BY DEF InOrder, ReportsInOrder
  <2>4. QED
    BY <2>2, <2>3 DEF ReportsInOrder, Before, Behind
<1>4. MeasuresInOrder(i)'
  BY <1>1, SampleTypes DEF InOrder, MeasuresInOrder, Before, Behind, Sound, At
<1>5. QED
  BY <1>2, <1>3, <1>4 DEF InOrder

\* Nothing was read yet.
LEMMA InitInOrder ==
  ASSUME Init, NEW i \in Instances
  PROVE  InOrder(i)
<1>1. \A p \in Procs : proc[p] = NoProc
  BY DEF Init
<1>2. Reports(i) = {NoSample} /\ snapshot[i] = NoSample /\ now = 0 /\ sent[i] = 0 /\ origin[i] = 0
  BY <1>1 DEF Init, Reports, NoProc, Job
<1>3. \A p \in Procs : ~Measures(p, i)
  BY <1>1 DEF Measures, NoProc, Job
<1>4. QED
  BY <1>2, <1>3 DEF InOrder, ReportsInOrder, MeasuresInOrder, Sound, Before, Behind, NoSample

\* The counter as it is now follows every sample there was.
LEMMA CounterIsLast ==
  ASSUME TypeOK, Counted, NEW i \in Instances
  PROVE  /\ Counter(i) \in Samples /\ Sound(Counter(i), i)
         /\ \A s \in Samples : Sound(s, i) => Behind(s, Counter(i))
BY SampleTypes DEF Counter, Samples, Sound, Behind, Counted

\* The host, the agent and the locks that expire.
LEMMA HostInOrder ==
  ASSUME TInv, TInv', NEW i \in Instances, InOrder(i),
         \/ \E j \in Instances : Send(j) \/ Stop(j) \/ Restart(j) \/ AgentSample(j)
         \/ \E k \in Keys : Expire(k)
  PROVE  InOrder(i)'
<1>1. UNCHANGED <<proc, crossed, snapshot>> /\ TypeOK /\ TypeOK'
  BY DEF Send, Stop, Restart, AgentSample, Expire, ledger, locks, TInv
<1>2. sent[i] <= sent'[i] /\ origin[i] <= origin'[i] /\ now <= now'
  <2>1. sent \in [Instances -> Nat] /\ origin \in [Instances -> Nat] /\ now \in Nat
    BY TrafficAssumption DEF TInv, TypeOK
  <2>2. \A j \in Instances : origin[j] <= sent[j]
    BY DEF TInv, Counted
  <2>3. now' = now \/ now' = now + 1
    BY DEF Send, Stop, Restart, AgentSample, Expire
  <2>4. /\ sent' = sent \/ \E j \in Instances : sent' = [sent EXCEPT ![j] = @ + 1]
        /\ origin' = origin \/ \E j \in Instances : origin' = [origin EXCEPT ![j] = sent[j]]
    BY DEF Send, Stop, Restart, AgentSample, Expire, host
  <2>5. QED
    BY <2>1, <2>2, <2>3, <2>4
<1>3. CASE report'[i] = report[i]
  <2>1. Reports(i)' = Reports(i)
    BY <1>1, <1>3 DEF Reports, Of
  <2>2. QED
    BY <1>1, <1>2, <2>1, StillInOrder DEF Measures, Of, At
<1>4. CASE report'[i] # report[i]
  <2>1. AgentSample(i)
    BY <1>4 DEF Send, Stop, Restart, AgentSample, Expire, TInv, TypeOK
  <2>2. UNCHANGED <<sent, origin>> /\ now' = now + 1
    BY <2>1 DEF AgentSample, host
  <2> DEFINE new == report'[i]
  <2>3. PICK stamp \in Int : new = [Counter(i) EXCEPT !.at = stamp, !.taken = now + 1]
    <3>1. \E stamp \in 0..(now + 1 + MaxSkew) :
            report' = [report EXCEPT ![i] = [Counter(i) EXCEPT !.at = stamp, !.taken = now + 1]]
      BY <2>1 DEF AgentSample
    <3>2. \E stamp \in Int :
            report' = [report EXCEPT ![i] = [Counter(i) EXCEPT !.at = stamp, !.taken = now + 1]]
      <4>1. now \in Nat /\ MaxSkew \in Nat
        BY <1>1, SampleTypes, TrafficAssumption
      <4>2. 0..(now + 1 + MaxSkew) \subseteq Int
        BY <4>1
      <4>3. QED
        BY <3>1, <4>2
    <3>3. report \in [Instances -> Samples]
      BY <1>1 DEF TypeOK
    <3>4. QED
      BY <3>2, <3>3
  <2>4. /\ new \in Samples /\ new.taken = now + 1 /\ new.raw = Counter(i).raw /\ new.pos = Counter(i).pos
    BY <1>1, <2>3 DEF TypeOK, Counter
  <2>5. Sound(new, i) /\ \A s \in Samples : Sound(s, i) => Behind(s, new)
    BY <2>4, CounterIsLast DEF TInv, Sound, Behind
  <2>6. Reports(i)' \subseteq Reports(i) \cup {new}
    BY <1>1 DEF Reports, Of
  <2> HIDE DEF new
  <2>7. \A r \in Reports(i) : ~(new.taken <= r.taken) /\ r \in Samples
    BY <1>1, <2>4, SampleTypes DEF InOrder, ReportsInOrder, Samples
  <2>8. Sound(snapshot[i], i)'
    BY <1>1, <2>2 DEF InOrder, Sound
  <2>9. ReportsInOrder(i)'
    <3>1. ASSUME NEW r \in Reports(i) \cup {new}
          PROVE  Sound(r, i)' /\ r.taken <= now' /\ Before(snapshot'[i], r)
      BY <1>1, <2>2, <2>4, <2>5, <3>1, SampleTypes
         DEF InOrder, ReportsInOrder, Sound, Before, Samples
    <3>2. ASSUME NEW r \in Reports(i) \cup {new}, NEW t \in Reports(i) \cup {new}
          PROVE  Before(r, t)
      BY <1>1, <2>4, <2>5, <2>7, <3>2, SampleTypes DEF InOrder, ReportsInOrder, Before
    <3>3. QED
      BY <2>6, <3>1, <3>2 DEF ReportsInOrder, Before, Behind, Sound
  <2>10. MeasuresInOrder(i)'
    <3>1. ASSUME NEW p \in Procs, Measures(p, i)'
          PROVE  /\ Sound(proc[p].sample, i)'
                 /\ p \notin crossed => Behind(snapshot[i], proc[p].sample)
                 /\ ~At(p, "stamp") => \A r \in Reports(i) \cup {new} : Before(proc[p].sample, r)
      <4>1. Measures(p, i)
        BY <1>1, <3>1 DEF Measures, Of
      <4>2. QED
        BY <1>1, <2>2, <2>5, <4>1, SampleTypes DEF InOrder, MeasuresInOrder, Sound, Before
    <3>2. QED
      BY <1>1, <2>6, <3>1 DEF MeasuresInOrder, Before, Behind, Sound, At
  <2>11. QED
    BY <2>8, <2>9, <2>10 DEF InOrder
<1>5. QED
  BY <1>3, <1>4

\* A process on its way.
LEMMA ProceedsInOrder ==
  ASSUME TInv, TInv', NEW i \in Instances, InOrder(i), NEW p \in Procs, Continues(p)
  PROVE  InOrder(i)'
<1>1. TypeOK /\ TypeOK' /\ Counted /\ UNCHANGED <<report, snapshot, sent, origin>>
  BY DEF TInv, Continues, Begins, StartCollect, StartReset, Start, Enter, Deliver, StartReport, LockUser,
         ReadQuota, Read, ReadStopped, Stamp, ledger, host
<1>2. now <= now' /\ snapshot'[i] = snapshot[i] /\ sent[i] <= sent'[i] /\ origin[i] <= origin'[i]
  <2>1. now \in Nat /\ sent[i] \in Nat /\ origin[i] \in Nat
    BY <1>1, SampleTypes
  <2>2. now' = now \/ now' = now + 1
    BY DEF Continues, Begins, StartCollect, StartReset, Start, Enter, Deliver, StartReport,
         LockUser, ReadQuota, Read, ReadStopped, Stamp
  <2>3. QED
    BY <1>1, <2>1, <2>2
<1>3. proc \in [Procs -> ProcType] /\ proc[p] \in ProcType
  BY <1>1, TypeByName
<1>4. ~At(p, "idle") => /\ Of(p) \in Instances /\ proc[p].kind \in {"collect", "report", "reset"}
                        /\ proc[p].kind = "report" => proc[p].step \in {"lock", "lockUser", "commit"}
                        /\ At(p, "lock") => proc[p].kind = "report"
  BY DEF TInv, WorkInv
<1>0. crossed \subseteq crossed'
  BY DEF Continues, Begins, StartCollect, StartReset, Start, Enter, Deliver, StartReport, LockUser,
         ReadQuota, Read, ReadStopped, Stamp, locks
<1>5. proc[p].kind = "report" /\ Of(p) = i => proc[p].sample \in Reports(i)
  BY DEF Reports
<1>6. CASE Begins(p)
  <2>1. PICK j \in Instances, kind \in {"collect", "report", "reset"}, step \in {"lock", "read"}, s \in Samples :
          /\ proc' = [proc EXCEPT ![p] = Job(kind, step, j, s)]
          /\ kind = "report" => s = report[j]
    <3>1. CASE StartCollect(p) \/ StartReset(p)
      <4>1. PICK j \in Instances, kind \in {"collect", "reset"} : Start(p, j, kind)
        BY <3>1 DEF StartCollect, StartReset
      <4>2. /\ At(p, "idle")
            /\ proc' = [proc EXCEPT ![p] = Job(kind, "read", j, NoSample)]
        BY <4>1 DEF Start, Enter
      <4>3. NoSample \in Samples
        BY ProcTypes
      <4>4. QED
        BY <4>2, <4>3
    <3>2. CASE Deliver(p)
      BY <1>1, <3>2 DEF Deliver, TypeOK
    <3>3. QED
      BY <1>6, <3>1, <3>2 DEF Begins
  <2> DEFINE r == Job(kind, step, j, s)
  <2>2. proc' = [proc EXCEPT ![p] = r]
    BY <2>1
  <2>3. r.kind = "report" /\ r.instance = i => r.sample \in Reports(i)
    BY <2>1 DEF Reports, Job
  <2>4. Reports(i)' \subseteq Reports(i)
    BY <1>1, <2>2, <2>3, ReportsShrink
  <2>5. \A q \in Procs : Measures(q, i)' => q # p /\ proc'[q] = proc[q]
    BY <1>3, <2>2 DEF Measures, Job
  <2>6. QED
    BY <1>0, <1>1, <1>2, <2>4, <2>5, StillInOrder DEF Measures, Of, At
<1>7. CASE StartReport(p) \/ LockUser(p) \/ ReadQuota(p)
  <2>1. PICK r \in ProcType :
          /\ proc' = [proc EXCEPT ![p] = r]
          /\ r.instance = Of(p) /\ r.kind = proc[p].kind /\ r.sample = proc[p].sample
          /\ r.kind \in {"collect", "reset"} /\ r.step \in {"stamp", "lockUser", "quota", "commit"}
             => proc[p].step \in {"lockUser", "quota"}
    <3>1. PICK step \in Steps, n \in Nat :
            /\ proc' = [proc EXCEPT ![p] = [proc[p] EXCEPT !.step = step, !.quota = n]]
            /\ proc[p].kind \in {"collect", "reset"} /\ step \in {"stamp", "lockUser", "quota", "commit"}
               => proc[p].step \in {"lockUser", "quota"}
      <4>1. CASE StartReport(p) \/ LockUser(p)
        <5>1. PICK step \in Steps :
                /\ proc' = [proc EXCEPT ![p] = [proc[p] EXCEPT !.step = step]]
                /\ proc[p].kind \in {"collect", "reset"} /\ step \in {"stamp", "lockUser", "quota", "commit"}
                   => proc[p].step \in {"lockUser", "quota"}
          <6>1. CASE StartReport(p)
            <7>1. proc' = [proc EXCEPT ![p] = [proc[p] EXCEPT !.step = "lockUser"]] /\ At(p, "lock")
              BY <6>1 DEF StartReport, Enter
            <7>2. proc[p].kind = "report"
              BY <7>1, <1>4 DEF At
            <7>3. QED
              BY <7>1, <7>2 DEF Steps
          <6>2. CASE LockUser(p)
            BY <6>2 DEF LockUser, Goto, Steps, At
          <6>3. QED
            BY <4>1, <6>1, <6>2
        <5>2. [proc[p] EXCEPT !.step = step] = [proc[p] EXCEPT !.step = step, !.quota = proc[p].quota]
          BY <1>3 DEF ProcType
        <5>3. proc[p].quota \in Nat
          BY <1>3 DEF ProcType
        <5>4. QED
          BY <5>1, <5>2, <5>3
      <4>2. CASE ReadQuota(p)
        <5>1. userUsed \in Nat /\ used[Of(p)] \in Nat /\ At(p, "quota")
          BY <1>1, <1>4, <4>2 DEF ReadQuota, At, TypeOK
        <5>2. (IF userUsed > used[Of(p)] THEN userUsed - used[Of(p)] ELSE 0) \in Nat
          BY <5>1
        <5>3. QED
          BY <4>2, <5>1, <5>2 DEF ReadQuota, Steps, At
      <4>3. QED
        BY <1>7, <4>1, <4>2
    <3>2. [proc[p] EXCEPT !.step = step, !.quota = n] \in ProcType
      BY <1>3 DEF ProcType
    <3>3. QED
      BY <1>3, <3>1, <3>2 DEF ProcType, Of
  <2>2. Reports(i)' \subseteq Reports(i)
    BY <1>1, <1>5, <2>1, ReportsShrink
  <2>3. proc'[p] = r /\ \A q \in Procs : q # p => proc'[q] = proc[q]
    BY <1>3, <2>1
  <2>4. ASSUME NEW q \in Procs, Measures(q, i)'
        PROVE  /\ Measures(q, i) /\ proc'[q].sample = proc[q].sample
               /\ At(q, "stamp") => At(q, "stamp")'
    BY <2>1, <2>3, <2>4 DEF Measures, Of, At
  <2>5. QED
    BY <1>0, <1>1, <1>2, <2>2, <2>4, StillInOrder
<1>8. CASE Read(p) \/ ReadStopped(p)
  <2>1. PICK s \in {Counter(Of(p)), snapshot[Of(p)]} :
          proc' = [proc EXCEPT ![p] = [proc[p] EXCEPT !.step = "stamp", !.sample = s]]
    BY <1>8 DEF Read, ReadStopped
  <2>2. At(p, "read") /\ proc[p].kind # "report" /\ Of(p) \in Instances
    BY <1>4, <1>8 DEF Read, ReadStopped, At
  <2> DEFINE r == [proc[p] EXCEPT !.step = "stamp", !.sample = s]
  <2>3. r.kind = proc[p].kind /\ r.instance = Of(p) /\ r.sample = s /\ r.step = "stamp"
    BY <1>3 DEF ProcType, Of
  <2>4. proc'[p] = r /\ \A q \in Procs : q # p => proc'[q] = proc[q]
    BY <1>3, <2>1
  <2>5. proc' = [proc EXCEPT ![p] = r]
    BY <2>1
  <2> HIDE DEF r
  <2>6. Reports(i)' \subseteq Reports(i)
    BY <1>1, <2>2, <2>3, <2>5, ReportsShrink
  <2>7. UNCHANGED now
    BY <1>8 DEF Read, ReadStopped
  <2>8. Sound(snapshot[i], i)' /\ ReportsInOrder(i)'
    BY <1>1, <2>6, <2>7 DEF InOrder, ReportsInOrder, Sound, Before, Behind
  <2>9. Of(p) = i => Sound(s, i) /\ Behind(snapshot[i], s)
    <3>1. snapshot[i] \in Samples /\ Sound(snapshot[i], i)
      BY <1>1, SampleTypes DEF InOrder
    <3>2. Behind(snapshot[i], snapshot[i])
      BY <3>1 DEF Behind, Samples
    <3>3. Sound(Counter(i), i) /\ Behind(snapshot[i], Counter(i))
      BY <1>1, <3>1, CounterIsLast
    <3>4. QED
      BY <3>1, <3>2, <3>3
  <2>10. MeasuresInOrder(i)'
    <3>1. ASSUME NEW q \in Procs, Measures(q, i)'
          PROVE  /\ Sound(proc'[q].sample, i)
                 /\ q \notin crossed => Behind(snapshot[i], proc'[q].sample)
                 /\ ~(proc'[q].step = "stamp") => \A t \in Reports(i) : Before(proc'[q].sample, t)
      <4>1. CASE q = p
        BY <2>3, <2>4, <2>9, <3>1, <4>1 DEF Measures, Of
      <4>2. CASE q # p
        BY <2>4, <3>1, <4>2 DEF Measures, Of, At, InOrder, MeasuresInOrder
      <4>3. QED
        BY <4>1, <4>2
    <3>2. QED
      BY <1>0, <1>1, <2>6, <3>1 DEF MeasuresInOrder, Sound, Before, Behind, At
  <2>11. QED
    BY <2>8, <2>10 DEF InOrder
<1>9. CASE Stamp(p)
  <2>1. PICK s \in Samples :
          /\ s.raw = proc[p].sample.raw /\ s.pos = proc[p].sample.pos /\ s.taken = now + 1
          /\ proc' = [proc EXCEPT ![p] = [proc[p] EXCEPT !.step = "lockUser", !.sample = s]]
    <3>1. proc[p].sample \in Samples /\ now + 1 \in Nat
      BY <1>1, SampleTypes, TrafficAssumption DEF TypeOK
    <3>2. [proc[p].sample EXCEPT !.at = now + 1, !.taken = now + 1] \in Samples
      BY <3>1 DEF Samples
    <3>3. proc' = [proc EXCEPT ![p] = [proc[p] EXCEPT !.step = "lockUser", !.sample.at = now + 1, !.sample.taken = now + 1]]
      BY <1>9 DEF Stamp
    <3>4. QED
      BY <1>3, <3>1, <3>2, <3>3 DEF ProcType, Samples
  <2>2. At(p, "stamp") /\ proc[p].kind # "report" /\ now' = now + 1
    BY <1>4, <1>9 DEF Stamp, At
  <2> DEFINE r == [proc[p] EXCEPT !.step = "lockUser", !.sample = s]
  <2>3. r.kind = proc[p].kind /\ r.instance = Of(p) /\ r.sample = s /\ r.step = "lockUser"
    BY <1>3 DEF ProcType, Of
  <2>4. proc'[p] = r /\ \A q \in Procs : q # p => proc'[q] = proc[q]
    BY <1>3, <2>1
  <2>5. proc' = [proc EXCEPT ![p] = r]
    BY <2>1
  <2> HIDE DEF r
  <2>6. Reports(i)' \subseteq Reports(i)
    BY <1>1, <2>2, <2>3, <2>5, ReportsShrink
  <2>7. ReportsInOrder(i)'
    <3>1. \A t \in Reports(i) : t.taken <= now'
      BY <1>1, <2>2, SampleTypes DEF InOrder, ReportsInOrder, Samples
    <3>2. QED
      BY <1>1, <2>6, <3>1 DEF InOrder, ReportsInOrder, Sound, Before, Behind
  <2>8. MeasuresInOrder(i)'
    <3>1. ASSUME NEW q \in Procs, Measures(q, i)'
          PROVE  /\ Sound(proc'[q].sample, i)
                 /\ q \notin crossed => Behind(snapshot[i], proc'[q].sample)
                 /\ ~(proc'[q].step = "stamp") => \A t \in Reports(i) : Before(proc'[q].sample, t)
      <4>1. CASE q = p
        <5>1. Measures(p, i)
          BY <2>2, <2>3, <2>4, <3>1, <4>1 DEF Measures, Of, At
        <5>2. Sound(s, i) /\ (p \notin crossed => Behind(snapshot[i], s))
          BY <2>1, <5>1 DEF InOrder, MeasuresInOrder, Sound, Behind
        <5>3. \A t \in Reports(i) : ~(s.taken <= t.taken)
          BY <1>1, <2>1, SampleTypes DEF InOrder, ReportsInOrder, Samples
        <5>4. QED
          BY <2>3, <2>4, <4>1, <5>2, <5>3 DEF Before
      <4>2. CASE q # p
        BY <2>4, <3>1, <4>2 DEF Measures, Of, At, InOrder, MeasuresInOrder
      <4>3. QED
        BY <4>1, <4>2
    <3>2. QED
      BY <1>0, <1>1, <2>6, <3>1 DEF MeasuresInOrder, Sound, Before, Behind, At
  <2>9. QED
    BY <1>1, <2>7, <2>8 DEF InOrder, Sound
<1>10. QED
  BY <1>6, <1>7, <1>8, <1>9 DEF Continues

\* The sample a process commits.
LEMMA Committed ==
  ASSUME TInv, NEW p \in Procs, At(p, "commit"), InOrder(Of(p))
  PROVE  /\ proc[p].sample \in Samples /\ Sound(proc[p].sample, Of(p))
         /\ \A r \in Reports(Of(p)) : Before(proc[p].sample, r)
         /\ Accepted(p) /\ ~Doubtful(p) => Behind(snapshot[Of(p)], proc[p].sample)
<1>1. proc[p].sample \in Samples /\ proc[p].kind \in {"collect", "report", "reset"}
  BY TypeByName DEF TInv, WorkInv, At, ProcType
<1>2. CASE proc[p].kind = "report"
  <2>1. proc[p].sample \in Reports(Of(p))
    BY <1>2 DEF Reports
  <2>2. Accepted(p) /\ ~Doubtful(p) => snapshot[Of(p)].taken <= proc[p].sample.taken
    <3>1. Of(p) \in Instances
      BY DEF At, TInv, WorkInv
    <3>2. snapshot[Of(p)] \in Samples
      BY <3>1 DEF TInv, TypeOK
    <3>3. QED
      BY <1>1, <3>2 DEF Accepted, Doubtful, Samples
  <2>3. QED
    BY <1>1, <2>1, <2>2 DEF InOrder, ReportsInOrder, Before
<1>3. CASE proc[p].kind \in {"collect", "reset"}
  <2>1. Measures(p, Of(p)) /\ ~At(p, "stamp")
    BY <1>3 DEF Measures, At
  <2>2. QED
    BY <1>1, <2>1 DEF InOrder, MeasuresInOrder, Doubtful
<1>4. QED
  BY <1>1, <1>2, <1>3

\* What a process leaves of the snapshots.
LEMMA Left ==
  ASSUME TInv, NEW p \in Procs, Ends(p)
  PROVE  \/ snapshot' = snapshot
         \/ At(p, "commit") /\ Accepted(p) /\ snapshot' = [snapshot EXCEPT ![Of(p)] = proc[p].sample]
BY DEF Ends, Apply, Reset, Fail, Die, Advanced, ledger

\* A process that ends.
LEMMA EndsInOrder ==
  ASSUME TInv, TInv', Alone, NEW i \in Instances, InOrder(i), NEW p \in Procs, Ends(p)
  PROVE  InOrder(i)'
<1>1. TypeOK /\ TypeOK' /\ proc' = [proc EXCEPT ![p] = NoProc]
  BY DEF Ends, Apply, Reset, Fail, Die, Finish, TInv
<1>2. UNCHANGED <<now, sent, origin, report>>
  BY DEF Ends, Apply, Reset, Fail, Die, host
<1>3. Reports(i)' \subseteq Reports(i)
  BY <1>1, <1>2, ReportsShrink DEF NoProc, Job
<1>4. \A q \in Procs : Measures(q, i)' => /\ q # p /\ proc'[q] = proc[q]
                                       /\ (q \in crossed => q \in crossed')
  BY <1>1 DEF Measures, NoProc, Job, TypeOK, Ends, Apply, Reset, Fail, Die, Finish
<1>5. CASE snapshot'[i] = snapshot[i]
  <2>1. sent[i] <= sent'[i] /\ origin[i] <= origin'[i] /\ now <= now'
    BY <1>1, <1>2, SampleTypes
  <2>2. QED
    BY <1>1, <1>3, <1>4, <1>5, <2>1, StillInOrder DEF Measures, Of, At
<1>6. CASE snapshot'[i] # snapshot[i]
  <2>1. At(p, "commit") /\ Accepted(p) /\ Of(p) = i /\ snapshot'[i] = proc[p].sample
    BY <1>1, <1>6, Left DEF TypeOK
  <2>2. /\ Sound(proc[p].sample, i)
        /\ \A r \in Reports(i) : Before(proc[p].sample, r)
    BY <2>1, Committed
  <2>3. Sound(snapshot[i], i)'
    BY <1>2, <2>1, <2>2 DEF Sound
  <2>4. ReportsInOrder(i)'
    BY <1>2, <1>3, <2>1, <2>2 DEF InOrder, ReportsInOrder, Sound, Before, Behind
  <2>5. ASSUME NEW q \in Procs, Measures(q, i)'
        PROVE  /\ Sound(proc'[q].sample, i) /\ q \in crossed'
               /\ ~(proc'[q].step = "stamp") => \A t \in Reports(i) : Before(proc'[q].sample, t)
    <3>1. Measures(q, i) /\ q # p /\ proc'[q] = proc[q] /\ Inside(q) /\ Inside(p) /\ Of(q) = i
      BY <1>4, <2>1, <2>5 DEF Measures, Of, At, Inside
    <3>2. q \in crossed'
      BY <1>4, <2>1, <2>5, <3>1 DEF Alone
    <3>3. QED
      BY <3>1, <3>2 DEF InOrder, MeasuresInOrder, At
  <2>6. MeasuresInOrder(i)'
    BY <1>2, <1>3, <2>5 DEF MeasuresInOrder, Sound, Before, Behind, At
  <2>7. QED
    BY <2>3, <2>4, <2>6 DEF InOrder
<1>7. QED
  BY <1>5, <1>6

\* Every step keeps what is in order.
LEMMA NextInOrder ==
  ASSUME TInv, TInv', Alone, \A i \in Instances : InOrder(i), [Next]_vars
  PROVE  \A i \in Instances : InOrder(i)'
<1> SUFFICES ASSUME NEW i \in Instances PROVE InOrder(i)'
  OBVIOUS
<1>1. CASE UNCHANGED vars
  BY <1>1 DEF vars, host, ledger, locks, InOrder, ReportsInOrder, MeasuresInOrder, Reports, Measures, Sound,
              Before, Behind, Of, At
<1>2. CASE \/ \E j \in Instances : Send(j) \/ Stop(j) \/ Restart(j) \/ AgentSample(j)
           \/ \E k \in Keys : Expire(k)
  BY <1>2, HostInOrder
<1>3. ASSUME NEW p \in Procs, Continues(p) PROVE InOrder(i)'
  BY <1>3, ProceedsInOrder
<1>4. ASSUME NEW p \in Procs, Ends(p) PROVE InOrder(i)'
  BY <1>4, EndsInOrder
<1>5. QED
  BY <1>1, <1>2, <1>3, <1>4 DEF Next, Continues, Begins, Ends

-------------------------------------------------------------------------------
(* The meter *)

\* What a process commits, in order or not.
LEMMA Counts ==
  ASSUME TInv, NEW p \in Procs, NEW i \in Instances, i = Of(p), InOrder(i), Apply(p) \/ Reset(p)
  PROVE  \E delta \in Nat :
            /\ daily' = [daily EXCEPT ![i] = @ + delta]
            /\ \/ /\ Accepted(p) /\ snapshot' = [snapshot EXCEPT ![i] = proc[p].sample]
                  /\ delta <= sent[i]
                  /\ ~Doubtful(p) => delta <= proc[p].sample.pos - snapshot[i].pos
               \/ snapshot' = snapshot /\ delta = 0
<1> DEFINE s == proc[p].sample
           last == snapshot[i]
<1>1. At(p, "commit")
  BY DEF Apply, Reset
<1>2. last \in Samples /\ sent[i] \in Nat /\ daily \in [Instances -> Nat]
  BY DEF TInv, TypeOK
<1>3. s \in Samples /\ Sound(s, i) /\ (Accepted(p) /\ ~Doubtful(p) => Behind(last, s))
  BY <1>1, Committed
<1>4. CASE Reset(p)
  <2>1. daily' = [daily EXCEPT ![i] = @ + 0]
    BY <1>2, <1>4 DEF Reset
  <2>2. Accepted(p) /\ ~Doubtful(p) => 0 <= s.pos - last.pos
    BY <1>2, <1>3 DEF Behind, Samples
  <2>3. 0 <= sent[i]
    BY <1>2
  <2>4. QED
    BY <1>4, <2>1, <2>2, <2>3 DEF Reset, Advanced
<1>5. CASE Apply(p) /\ running[i] /\ Accepted(p)
  <2>1. /\ Increment(last, s) \in Nat /\ Increment(last, s) <= sent[i]
        /\ ~Doubtful(p) => Increment(last, s) <= s.pos - last.pos
    BY <1>2, <1>3, <1>5 DEF Increment, Behind, Sound, Samples
  <2>2. QED
    BY <1>5, <2>1 DEF Apply, Advanced
<1>6. CASE Apply(p) /\ ~(running[i] /\ Accepted(p))
  BY <1>2, <1>6 DEF Apply, Advanced
<1>7. QED
  BY <1>4, <1>5, <1>6

\* A step of the program is a step of the meter.
LEMMA MeterStep ==
  ASSUME TInv, \A i \in Instances : InOrder(i), [Next]_vars
  PROVE  [Meter!Next]_(Meter!vars)
<1> DEFINE passed == [j \in Instances |-> snapshot[j].pos]
<1>1. CASE \E i \in Instances : Send(i)
  BY <1>1 DEF Send, ledger, Meter!Next, Meter!Send
<1>2. ASSUME UNCHANGED <<sent, snapshot, daily>>
      PROVE  Meter!Next
  BY <1>2 DEF Meter!Next, Meter!Doubt
<1>3. ASSUME NEW p \in Procs, Apply(p) \/ Reset(p)
      PROVE  Meter!Next
  <2>1. PICK i \in Instances : i = Of(p) /\ At(p, "commit") /\ UNCHANGED sent
    BY <1>3 DEF Apply, Reset, At, TInv, WorkInv, host
  <2> DEFINE s == proc[p].sample
             last == snapshot[i]
  <2>2. last \in Samples /\ sent[i] \in Nat /\ daily \in [Instances -> Nat] /\ snapshot \in [Instances -> Samples]
    BY <2>1 DEF TInv, TypeOK
  <2>3. s \in Samples /\ Sound(s, i) /\ (Accepted(p) /\ ~Doubtful(p) => Behind(last, s))
    BY <2>1, Committed
  <2>4. PICK delta \in Nat :
          /\ daily' = [daily EXCEPT ![i] = @ + delta]
          /\ \/ /\ Accepted(p) /\ snapshot' = [snapshot EXCEPT ![i] = s]
                /\ delta <= sent[i]
                /\ ~Doubtful(p) => delta <= s.pos - last.pos
             \/ snapshot' = snapshot /\ delta = 0
    BY <1>3, <2>1, Counts
  <2>5. CASE snapshot' = snapshot /\ delta = 0
    <3>1. daily' = daily
      BY <2>1, <2>2, <2>4, <2>5
    <3>2. QED
      BY <1>2, <2>1, <2>5, <3>1
  <2>6. CASE /\ Accepted(p) /\ snapshot' = [snapshot EXCEPT ![i] = s]
             /\ delta <= sent[i]
             /\ ~Doubtful(p) => delta <= s.pos - last.pos
    <3>1. CASE ~Doubtful(p)
      <4> DEFINE more == s.pos - last.pos
      <4>1. more \in 0..(sent[i] - last.pos) /\ delta \in 0..more
        BY <2>2, <2>3, <2>6, <3>1 DEF Behind, Sound, Samples
      <4>2. last.pos + more = s.pos
        BY <2>2, <2>3 DEF Samples
      <4>3. [j \in Instances |-> snapshot'[j].pos] = [passed EXCEPT ![i] = @ + more]
        BY <2>1, <2>2, <2>6, <4>2
      <4>4. more \in 0..(sent[i] - passed[i])
        BY <2>1, <4>1
      <4> HIDE DEF more
      <4>5. Meter!Account(i)
        BY <2>1, <2>4, <4>1, <4>3, <4>4 DEF Meter!Account
      <4>6. QED
        BY <2>1, <4>5 DEF Meter!Next
    <3>2. CASE Doubtful(p)
      <4>1. i \in {j \in Instances : \E q \in Procs : At(q, "commit") /\ Of(q) = j /\ Doubtful(q)}
        BY <2>1, <3>2
      <4>2. s.pos \in 0..sent[i] /\ delta \in 0..sent[i]
        BY <2>2, <2>3, <2>6 DEF Sound, Samples
      <4>3. [j \in Instances |-> snapshot'[j].pos] = [passed EXCEPT ![i] = s.pos]
        BY <2>1, <2>2, <2>6
      <4>4. Meter!Recount(i)
        BY <2>1, <2>4, <4>1, <4>2, <4>3 DEF Meter!Recount
      <4>5. QED
        BY <2>1, <4>4 DEF Meter!Next
    <3>3. QED
      BY <3>1, <3>2
  <2>7. QED
    BY <2>4, <2>5, <2>6
<1>4. CASE UNCHANGED vars
  BY <1>2, <1>4 DEF vars, host, ledger
<1>5. CASE \/ \E i \in Instances : Stop(i) \/ Restart(i) \/ AgentSample(i)
           \/ \E k \in Keys : Expire(k)
  BY <1>2, <1>5 DEF Stop, Restart, AgentSample, Expire, host, ledger
<1>6. ASSUME NEW p \in Procs, Continues(p) \/ Fail(p) \/ Die(p)
      PROVE  UNCHANGED <<sent, snapshot, daily>>
  BY <1>6 DEF Continues, Begins, StartCollect, StartReset, Start, Enter, Deliver, StartReport, LockUser,
     ReadQuota, Read, ReadStopped, Stamp, Fail, Die, host, ledger
<1>7. QED
  BY <1>1, <1>2, <1>3, <1>4, <1>5, <1>6 DEF Next, Continues, Begins

\* However wrong the clocks of the agents, however slow the resets and whichever
\* process dies: the accounting passes over the traffic of an instance once and in
\* order, but for a sample that was stamped ahead of its time or follows one stamped
\* behind it, or is committed beside a reset that has lost its lock; such a sample
\* counts at most what the instance has sent.
THEOREM CountedOnce == Spec => MeterSpec
<1> DEFINE Inv == TInv /\ HoldsLock /\ Alone /\ \A i \in Instances : InOrder(i)
<1>1. Init => Inv
  BY InitT, InitInOrder
<1>2. Inv /\ [Next]_vars => Inv'
  <2> SUFFICES ASSUME Inv, [Next]_vars PROVE Inv'
    OBVIOUS
  <2>1. TInv'
    BY NextT
  <2>2. (HoldsLock /\ Alone)'
    BY NextLocks
  <2>3. \A i \in Instances : InOrder(i)'
    BY <2>1, NextInOrder
  <2>4. QED
    BY <2>1, <2>2, <2>3
<1>3. Inv /\ [Next]_vars => [Meter!Next]_(Meter!vars)
  BY MeterStep
<1>4. Init => Meter!Init
  <2> SUFFICES ASSUME Init PROVE Meter!Init
    OBVIOUS
  <2>1. \A p \in Procs : ~At(p, "commit")
    BY DEF Init, At, NoProc, Job
  <2>2. QED
    BY <2>1 DEF Init, Meter!Init, NoSample
<1> HIDE DEF Inv
<1>5. QED
  BY <1>1, <1>2, <1>3, <1>4, PTL DEF Spec, MeterSpec, Meter!Spec

-------------------------------------------------------------------------------
(* Sums over a finite set.  The fold takes the elements out in the order       *)
(* CHOOSE gives them, which is the same for every function: two sums are       *)
(* compared element by element, and an exception has a smallest subset.        *)

\* The element the fold takes out of a set.
Chosen(s) == CHOOSE x \in s : TRUE

\* One round of the fold that adds up f, and the fold: the sums over all subsets.
Round(S, f, g) == [s \in SUBSET S |-> IF s = {} THEN 0 ELSE f[Chosen(s)] + g[s \ {Chosen(s)}]]
Parts(S, f) == CHOOSE g : g = Round(S, f, g)

LEMMA SumParts == ASSUME NEW f PROVE Sum(f) = Parts(Instances, f)[Instances]
BY DEF Sum, MapThenSumSet, MapThenFoldSet, Parts, Round, Chosen

LEMMA ChosenOne ==
  ASSUME NEW S, IsFiniteSet(S), NEW s \in SUBSET S
  PROVE  /\ Cardinality(s) \in Nat
         /\ s # {} => /\ Chosen(s) \in s
                      /\ s \ {Chosen(s)} \in SUBSET S
                      /\ Cardinality(s \ {Chosen(s)}) = Cardinality(s) - 1
         /\ Cardinality(s) = 0 <=> s = {}
         /\ Cardinality(s) <= Cardinality(S)
<1>1. IsFiniteSet(s)
  BY FS_Subset
<1>2. Cardinality(s) \in Nat /\ (Cardinality(s) = 0 <=> s = {})
  BY <1>1, FS_CardinalityType, FS_EmptySet
<1>3. ASSUME s # {} PROVE Chosen(s) \in s
  BY <1>3 DEF Chosen
<1>4. ASSUME s # {} PROVE Cardinality(s \ {Chosen(s)}) = Cardinality(s) - 1
  BY <1>1, <1>3, <1>4, FS_RemoveElement
<1>5. Cardinality(s) <= Cardinality(S)
  BY FS_Subset
<1>6. QED
  BY <1>2, <1>3, <1>4, <1>5

\* The natural numbers have no set without a least element.
LEMMA Least ==
  ASSUME NEW T \in SUBSET Nat, T # {}
  PROVE  \E n \in T : \A m \in Nat : m < n => m \notin T
<1>1. \E x \in T : \A y \in T : ~ (<<y, x>> \in OpToRel(<, Nat))
  BY NatLessThanWellFounded, WFMin
<1>2. PICK x \in T : \A y \in T : ~ (<<y, x>> \in OpToRel(<, Nat))
  BY <1>1
<1>3. ASSUME NEW m \in Nat, m < x, m \in T PROVE FALSE
  <2>1. <<m, x>> \in OpToRel(<, Nat)
    BY <1>3 DEF OpToRel
  <2>2. QED
    BY <1>2, <1>3, <2>1
<1>4. QED
  BY <1>3

\* A function that agrees with its own round on the sets of at most n elements.
Upto(S, f, n) ==
    \E g \in [SUBSET S -> Int] :
        \A s \in SUBSET S : Cardinality(s) <= n => g[s] = Round(S, f, g)[s]

LEMMA UptoStep ==
  ASSUME NEW S, IsFiniteSet(S), NEW f \in [S -> Int], NEW n \in Nat, Upto(S, f, n)
  PROVE  Upto(S, f, n + 1)
<1>1. PICK g \in [SUBSET S -> Int] :
        \A s \in SUBSET S : Cardinality(s) <= n => g[s] = Round(S, f, g)[s]
  BY DEF Upto
<1> DEFINE h == Round(S, f, g)
<1>2. \A s \in SUBSET S : s # {} => Chosen(s) \in S /\ s \ {Chosen(s)} \in SUBSET S
  BY ChosenOne
<1>3. h \in [SUBSET S -> Int]
  BY <1>2 DEF Round
<1>4. ASSUME NEW s \in SUBSET S, Cardinality(s) <= n + 1 PROVE h[s] = Round(S, f, h)[s]
  <2>1. CASE s = {}
    BY <2>1 DEF Round
  <2>2. CASE s # {}
    <3> DEFINE r == s \ {Chosen(s)}
    <3>1. r \in SUBSET S /\ Cardinality(r) <= n
      BY <2>2, <1>4, ChosenOne
    <3>2. g[r] = h[r]
      BY <3>1, <1>1
    <3>3. h[s] = f[Chosen(s)] + g[r] /\ Round(S, f, h)[s] = f[Chosen(s)] + h[r]
      BY <2>2 DEF Round
    <3>4. QED
      BY <3>2, <3>3
  <2>3. QED
    BY <2>1, <2>2
<1>5. QED
  BY <1>3, <1>4 DEF Upto

LEMMA UptoAll ==
  ASSUME NEW S, IsFiniteSet(S), NEW f \in [S -> Int], NEW n \in Nat
  PROVE  Upto(S, f, n)
<1> DEFINE T == {m \in Nat : ~Upto(S, f, m)}
<1>1. Upto(S, f, 0)
  <2> DEFINE z == [s \in SUBSET S |-> 0]
  <2>1. z \in [SUBSET S -> Int]
    OBVIOUS
  <2>2. ASSUME NEW s \in SUBSET S, Cardinality(s) <= 0 PROVE z[s] = Round(S, f, z)[s]
    <3>1. Cardinality(s) \in Nat /\ (Cardinality(s) = 0 <=> s = {})
      BY ChosenOne
    <3>2. s = {}
      BY <2>2, <3>1
    <3>3. QED
      BY <3>2 DEF Round
  <2>3. QED
    BY <2>1, <2>2 DEF Upto
<1>2. SUFFICES ASSUME T # {} PROVE FALSE
  OBVIOUS
<1>3. PICK m \in T : \A k \in Nat : k < m => k \notin T
  BY <1>2, Least
<1>4. m # 0 /\ m \in Nat /\ m - 1 \in Nat /\ m - 1 < m
  BY <1>1, <1>3
<1>5. Upto(S, f, m - 1)
  BY <1>3, <1>4
<1>6. Upto(S, f, (m - 1) + 1)
  BY <1>4, <1>5, UptoStep
<1>7. QED
  BY <1>3, <1>4, <1>6

\* The fold exists.
LEMMA PartsRound ==
  ASSUME NEW S, IsFiniteSet(S), NEW f \in [S -> Int]
  PROVE  Parts(S, f) = Round(S, f, Parts(S, f))
<1>1. Cardinality(S) \in Nat
  BY FS_CardinalityType
<1>2. PICK g \in [SUBSET S -> Int] :
        \A s \in SUBSET S : Cardinality(s) <= Cardinality(S) => g[s] = Round(S, f, g)[s]
  BY <1>1, UptoAll DEF Upto
<1>3. \A s \in SUBSET S : g[s] = Round(S, f, g)[s]
  BY <1>2, ChosenOne
<1>4. g = Round(S, f, g)
  BY <1>3 DEF Round
<1>5. QED
  BY <1>4 DEF Parts

\* It is computed as it is written, from the empty set on.
LEMMA PartsDef ==
  ASSUME NEW S, IsFiniteSet(S), NEW f \in [S -> Int], NEW s \in SUBSET S
  PROVE  Parts(S, f)[s] = IF s = {} THEN 0 ELSE f[Chosen(s)] + Parts(S, f)[s \ {Chosen(s)}]
<1>1. Parts(S, f) = Round(S, f, Parts(S, f))
  BY PartsRound
<1>2. Parts(S, f)[s] = Round(S, f, Parts(S, f))[s]
  BY <1>1
<1>3. QED
  BY <1>2 DEF Round

\* Among some subsets of a finite set, one is empty or is left by taking one
\* element out of it.
LEMMA FirstSubset ==
  ASSUME NEW S, IsFiniteSet(S), NEW T \in SUBSET (SUBSET S), T # {}
  PROVE  \E s \in T : s = {} \/ (/\ Chosen(s) \in s
                                 /\ s \ {Chosen(s)} \in SUBSET S
                                 /\ s \ {Chosen(s)} \notin T)
<1> DEFINE N == {n \in Nat : \E s \in T : Cardinality(s) = n}
<1>1. N # {} /\ N \in SUBSET Nat
  <2>1. PICK s \in T : TRUE
    OBVIOUS
  <2>2. Cardinality(s) \in Nat
    BY <2>1, ChosenOne
  <2>3. QED
    BY <2>1, <2>2
<1>2. PICK n \in N : \A m \in Nat : m < n => m \notin N
  BY <1>1, Least
<1>3. PICK s \in T : Cardinality(s) = n
  BY <1>2
<1>4. s \in SUBSET S
  OBVIOUS
<1>5. CASE s # {}
  <2> DEFINE r == s \ {Chosen(s)}
  <2>1. Chosen(s) \in s /\ r \in SUBSET S /\ Cardinality(r) = n - 1
    BY <1>3, <1>4, <1>5, ChosenOne
  <2>2. Cardinality(r) \in Nat
    BY <2>1, ChosenOne
  <2>3. n \in Nat /\ n - 1 \in Nat /\ n - 1 < n
    BY <2>1, <2>2
  <2>4. n - 1 \notin N
    BY <1>2, <2>3
  <2>5. r \notin T
    BY <2>1, <2>3, <2>4
  <2>6. QED
    BY <2>1, <2>5
<1>6. QED
  BY <1>5

\* Sums are integers.
LEMMA PartsType ==
  ASSUME NEW S, IsFiniteSet(S), NEW f \in [S -> Int], NEW s \in SUBSET S
  PROVE  Parts(S, f)[s] \in Int
<1> DEFINE T == {r \in SUBSET S : Parts(S, f)[r] \notin Int}
<1>1. ASSUME T # {} PROVE FALSE
  <2>1. PICK r \in T : r = {} \/ (/\ Chosen(r) \in r
                                  /\ r \ {Chosen(r)} \in SUBSET S
                                  /\ r \ {Chosen(r)} \notin T)
    BY <1>1, FirstSubset
  <2>2. Parts(S, f)[r] = IF r = {} THEN 0 ELSE f[Chosen(r)] + Parts(S, f)[r \ {Chosen(r)}]
    BY PartsDef
  <2>3. QED
    BY <2>1, <2>2
<1>2. QED
  BY <1>1

\* A function changed at one point changes the sum by as much.
LEMMA PartsChange ==
  ASSUME NEW S, IsFiniteSet(S), NEW f \in [S -> Int], NEW g \in [S -> Int],
         NEW i \in S, \A j \in S : j # i => g[j] = f[j], NEW s \in SUBSET S
  PROVE  Parts(S, g)[s] = Parts(S, f)[s] + (IF i \in s THEN g[i] - f[i] ELSE 0)
<1> DEFINE d == g[i] - f[i]
           T == {r \in SUBSET S : Parts(S, g)[r] # Parts(S, f)[r] + (IF i \in r THEN d ELSE 0)}
<1>1. g \in [S -> Int] /\ d \in Int
  OBVIOUS
<1>2. ASSUME T # {} PROVE FALSE
  <2>1. PICK r \in T : r = {} \/ (/\ Chosen(r) \in r
                                  /\ r \ {Chosen(r)} \in SUBSET S
                                  /\ r \ {Chosen(r)} \notin T)
    BY <1>2, FirstSubset
  <2>2. /\ Parts(S, f)[r] = IF r = {} THEN 0 ELSE f[Chosen(r)] + Parts(S, f)[r \ {Chosen(r)}]
        /\ Parts(S, g)[r] = IF r = {} THEN 0 ELSE g[Chosen(r)] + Parts(S, g)[r \ {Chosen(r)}]
    <3>1. r \in SUBSET S
      OBVIOUS
    <3>2. \A h \in [S -> Int] :
             Parts(S, h)[r] = IF r = {} THEN 0 ELSE h[Chosen(r)] + Parts(S, h)[r \ {Chosen(r)}]
      BY <3>1, PartsDef
    <3>3. QED
      BY <1>1, <3>2
  <2>3. CASE r = {}
    BY <2>1, <2>2, <2>3
  <2>4. CASE r # {}
    <3> DEFINE x == Chosen(r)  q == r \ {x}
    <3>1. x \in r /\ x \in S /\ q \in SUBSET S /\ q \notin T
      BY <2>1, <2>4
    <3>2. Parts(S, f)[q] \in Int
      BY <3>1, PartsType
    <3>3. Parts(S, g)[q] = Parts(S, f)[q] + (IF i \in q THEN d ELSE 0)
      BY <3>1
    <3>4. /\ g[x] = f[x] + (IF x = i THEN d ELSE 0)
          /\ f[x] \in Int /\ d \in Int
      BY <3>1
    <3>5. Parts(S, g)[r] = g[x] + Parts(S, g)[q] /\ Parts(S, f)[r] = f[x] + Parts(S, f)[q]
      BY <2>2, <2>4
    <3>6. i \in r <=> (i \in q \/ x = i)
      BY <3>1
    <3>7. ~(i \in q /\ x = i)
      OBVIOUS
    <3> HIDE DEF x, q, d
    <3>8. Parts(S, g)[r] = Parts(S, f)[r] + (IF i \in r THEN d ELSE 0)
      BY <3>2, <3>3, <3>4, <3>5, <3>6, <3>7
    <3>9. QED
      BY <2>1, <3>8
  <2>5. QED
    BY <2>3, <2>4
<1>3. QED
  BY <1>2

\* A sum of natural numbers is at least each of them.
LEMMA PartsBound ==
  ASSUME NEW S, IsFiniteSet(S), NEW f \in [S -> Nat], NEW s \in SUBSET S
  PROVE  /\ Parts(S, f)[s] \in Nat
         /\ \A i \in s : f[i] <= Parts(S, f)[s]
         /\ (\A i \in s : f[i] = 0) => Parts(S, f)[s] = 0
<1> DEFINE Good(r) == /\ Parts(S, f)[r] \in Nat
                      /\ \A i \in r : f[i] <= Parts(S, f)[r]
                      /\ (\A i \in r : f[i] = 0) => Parts(S, f)[r] = 0
           T == {r \in SUBSET S : ~Good(r)}
<1>1. f \in [S -> Int]
  OBVIOUS
<1>2. ASSUME T # {} PROVE FALSE
  <2>1. PICK r \in T : r = {} \/ (/\ Chosen(r) \in r
                                  /\ r \ {Chosen(r)} \in SUBSET S
                                  /\ r \ {Chosen(r)} \notin T)
    BY <1>2, FirstSubset
  <2>2. Parts(S, f)[r] = IF r = {} THEN 0 ELSE f[Chosen(r)] + Parts(S, f)[r \ {Chosen(r)}]
    BY <1>1, PartsDef
  <2>3. CASE r = {}
    BY <2>1, <2>2, <2>3
  <2>4. CASE r # {}
    <3> DEFINE x == Chosen(r)  q == r \ {x}
    <3>1. x \in r /\ x \in S /\ q \in SUBSET S /\ Good(q) /\ f[x] \in Nat
      BY <2>1, <2>4
    <3>2. Parts(S, f)[r] = f[x] + Parts(S, f)[q]
      BY <2>2, <2>4
    <3>3. \A i \in r : i = x \/ i \in q
      OBVIOUS
    <3>4. \A i \in q : i \in r /\ f[i] \in Nat
      BY <3>1
    <3> HIDE DEF x, q
    <3>5. Good(r)
      BY <3>1, <3>2, <3>3, <3>4
    <3>6. QED
      BY <2>1, <3>5
  <2>5. QED
    BY <2>3, <2>4
<1>3. QED
  BY <1>2

\* What the model needs of them: the sum of a function over the instances.
LEMMA SumFacts ==
  ASSUME IsFiniteSet(Instances), NEW f \in [Instances -> Nat]
  PROVE  /\ Sum(f) \in Nat
         /\ \A i \in Instances : f[i] <= Sum(f)
         /\ (\A i \in Instances : f[i] = 0) => Sum(f) = 0
         /\ \A i \in Instances, n \in Nat : Sum([f EXCEPT ![i] = n]) = Sum(f) + n - f[i]
<1>1. Sum(f) = Parts(Instances, f)[Instances]
  BY SumParts
<1>2. /\ Sum(f) \in Nat
      /\ \A i \in Instances : f[i] <= Sum(f)
      /\ (\A i \in Instances : f[i] = 0) => Sum(f) = 0
  BY <1>1, PartsBound
<1>3. ASSUME NEW i \in Instances, NEW n \in Nat PROVE Sum([f EXCEPT ![i] = n]) = Sum(f) + n - f[i]
  <2> DEFINE g == [f EXCEPT ![i] = n]
  <2>1. Sum(g) = Parts(Instances, g)[Instances]
    BY SumParts
  <2>2. f \in [Instances -> Int] /\ g \in [Instances -> Int] /\ g[i] = n
    OBVIOUS
  <2>3. \A j \in Instances : j # i => g[j] = f[j]
    OBVIOUS
  <2> HIDE DEF g
  <2>4. \A s \in SUBSET Instances :
           Parts(Instances, g)[s] = Parts(Instances, f)[s] + (IF i \in s THEN g[i] - f[i] ELSE 0)
    BY <2>2, <2>3, PartsChange
  <2>5. Sum(g) = Sum(f) + n - f[i]
    BY <1>1, <1>2, <2>1, <2>2, <2>4
  <2>6. QED
    BY <2>5 DEF g
<1>4. QED
  BY <1>2, <1>3

-------------------------------------------------------------------------------
(* The user's traffic *)

\* Who holds the user's lock is about to read or to write the user's row.
UserHolder == \A p \in Procs : lock[User] = p <=> proc[p].step \in {"quota", "commit"}

\* What a reset is about to write is what the other instances used.
Remainder ==
    \A p \in Procs : At(p, "commit") /\ proc[p].kind = "reset" =>
        proc[p].quota = userUsed - used[Of(p)]

SInv == TInv /\ UserIsSum /\ UserHolder /\ Remainder

\* The sum of the new counters.
LEMMA SumPrime == Sum(used)' = Sum(used')
<1>1. Sum(used)' = Parts(Instances, used')[Instances]
  BY DEF Sum, MapThenSumSet, MapThenFoldSet, Parts, Round, Chosen
<1>2. Sum(used') = Parts(Instances, used')[Instances]
  BY SumParts
<1>3. QED
  BY <1>1, <1>2

LEMMA InitSum == Init => SInv
<1> SUFFICES ASSUME Init PROVE SInv
  OBVIOUS
<1>1. TInv
  BY InitT
<1>2. used \in [Instances -> Nat] /\ (\A i \in Instances : used[i] = 0)
  BY DEF Init
<1>3. UserIsSum
  BY <1>2, SumFacts, TrafficAssumption DEF UserIsSum, Init
<1>4. UserHolder /\ Remainder
  BY TrafficAssumption DEF UserHolder, Remainder, Init, NoProc, Job, At, Keys
<1>5. QED
  BY <1>1, <1>3, <1>4 DEF SInv

\* The host, the agent and the rows that expire leave the user's row alone.
LEMMA HostSum ==
  ASSUME SInv,
         \/ \E i \in Instances : Send(i) \/ Stop(i) \/ Restart(i) \/ AgentSample(i)
         \/ \E k \in Keys : Expire(k)
  PROVE  (UserIsSum /\ UserHolder /\ Remainder)'
<1>1. UNCHANGED <<used, userUsed, proc>>
  BY DEF Send, Stop, Restart, AgentSample, Expire, ledger
<1>2. UserIsSum' /\ Remainder'
  BY <1>1, SumPrime DEF SInv, UserIsSum, Remainder, At, Of
<1>3. CASE \E i \in Instances : Send(i) \/ Stop(i) \/ Restart(i) \/ AgentSample(i)
  BY <1>1, <1>2, <1>3 DEF Send, Stop, Restart, AgentSample, locks, SInv, UserHolder
<1>4. CASE \E k \in Keys : Expire(k)
  <2>1. PICK k \in Keys : Expire(k)
    BY <1>4
  <2>2. \A p \in Procs : lock[User] = p => lock'[User] = p
    BY <2>1, TrafficAssumption DEF Expire, SInv, UserHolder, TInv, TypeOK, WorkInv, At, Keys
  <2>3. \A p \in Procs : lock'[User] = p => lock[User] = p
    BY <2>1, TrafficAssumption DEF Expire, SInv, TInv, TypeOK, Keys
  <2>4. UserHolder'
    BY <1>1, <2>2, <2>3 DEF SInv, UserHolder
  <2>5. QED
    BY <1>2, <2>4
<1>5. QED
  BY <1>3, <1>4

\* A process that goes on takes the user's lock when it is free, and reads what is
\* left while it holds it.
LEMMA ContinuesSum ==
  ASSUME SInv, NEW p \in Procs, Continues(p)
  PROVE  (UserIsSum /\ UserHolder /\ Remainder)'
<1>1. PICK r \in ProcType :
        /\ proc' = [proc EXCEPT ![p] = r]
        /\ r.step # "idle" /\ r.instance \in Instances
        /\ At(p, "idle") \/ (r.instance = Of(p) /\ r.kind = proc[p].kind)
  BY ContinuesProc DEF SInv
<1>2. UNCHANGED <<used, userUsed>>
  BY DEF Continues, Begins, StartCollect, StartReset, Start, Enter, Deliver, StartReport, Read, ReadStopped,
         Stamp, LockUser, ReadQuota, ledger
<1>3. UserIsSum'
  BY <1>2, SumPrime DEF SInv, UserIsSum
<1>4. /\ \A q \in Procs \ {p} : proc'[q] = proc[q]
      /\ proc'[p] = r
  BY <1>1, TypeByName DEF SInv, TInv
<1>5. ASSUME UNCHANGED lock, proc[p].step \notin {"quota", "commit"}, r.step \notin {"quota", "commit"}
      PROVE  (UserHolder /\ Remainder)'
  <2>1. UserHolder'
    BY <1>4, <1>5 DEF SInv, UserHolder
  <2>2. Remainder'
    BY <1>2, <1>4, <1>5 DEF SInv, Remainder, At, Of
  <2>3. QED
    BY <2>1, <2>2
<1>6. CASE StartCollect(p) \/ StartReset(p) \/ StartReport(p)
  <2>1. /\ proc[p].step \in {"idle", "lock"} /\ r.step \in {"lockUser", "read"}
        /\ \E i \in Instances : lock' = [lock EXCEPT ![i] = p]
    <3>1. CASE StartCollect(p) \/ StartReset(p)
      <4>1. PICK i \in Instances, kind \in {"collect", "reset"} : Start(p, i, kind)
        BY <3>1 DEF StartCollect, StartReset
      <4>2. proc' = [proc EXCEPT ![p] = Job(kind, "read", i, NoSample)]
        BY <4>1 DEF Start, Enter
      <4>3. r.step = "read"
        BY <1>4, <4>2, TypeByName DEF Job, SInv, TInv
      <4>4. QED
        BY <4>1, <4>3 DEF Start, Enter, At
    <3>2. CASE StartReport(p)
      <4>1. /\ At(p, "lock") /\ proc' = [proc EXCEPT ![p] = [proc[p] EXCEPT !.step = "lockUser"]]
            /\ lock' = [lock EXCEPT ![Of(p)] = p]
        BY <3>2 DEF StartReport, Enter
      <4>2. r = [proc[p] EXCEPT !.step = "lockUser"] /\ proc[p] \in ProcType
        BY <1>4, <4>1, TypeByName DEF SInv, TInv
      <4>3. r.step = "lockUser" /\ Of(p) \in Instances
        BY <4>1, <4>2 DEF ProcType, At, SInv, TInv, WorkInv
      <4>4. QED
        BY <4>1, <4>3 DEF At
    <3>3. QED
      BY <1>6, <3>1, <3>2
  <2>2. lock'[User] = lock[User]
    BY <2>1, TrafficAssumption
  <2>3. UserHolder'
    BY <1>4, <2>1, <2>2 DEF SInv, UserHolder, At
  <2>4. r.step # "commit"
    BY <2>1
  <2>5. Remainder'
    BY <1>2, <1>4, <2>4 DEF SInv, Remainder, At, Of
  <2>6. QED
    BY <1>3, <2>3, <2>5
<1>7. CASE LockUser(p)
  <2>1. /\ At(p, "lockUser") /\ lock[User] = None /\ lock' = [lock EXCEPT ![User] = p]
        /\ r.step = IF r.kind = "reset" THEN "quota" ELSE "commit"
    BY <1>1, <1>4, <1>7, TypeByName DEF LockUser, Free, At, Goto, SInv, TInv, ProcType
  <2>2. lock'[User] = p
    BY <2>1 DEF SInv, TInv, TypeOK, Keys
  <2>3. \A q \in Procs : proc[q].step \notin {"quota", "commit"}
    BY <2>1, TrafficAssumption DEF SInv, UserHolder
  <2>4. UserHolder'
    BY <1>4, <2>1, <2>2, <2>3 DEF UserHolder
  <2>5. Remainder'
    <3>1. \A q \in Procs : At(q, "commit")' => q = p /\ proc'[q].kind # "reset"
      BY <1>4, <2>1, <2>3 DEF At
    <3>2. QED
      BY <3>1 DEF Remainder
  <2>6. QED
    BY <1>3, <2>4, <2>5
<1>8. CASE ReadQuota(p)
  <2>1. /\ At(p, "quota") /\ UNCHANGED lock /\ r.step = "commit" /\ Of(p) \in Instances
        /\ r.quota = IF userUsed > used[Of(p)] THEN userUsed - used[Of(p)] ELSE 0
    BY <1>4, <1>8, TypeByName DEF ReadQuota, locks, At, SInv, TInv, WorkInv, ProcType
  <2>2. used[Of(p)] <= userUsed /\ used[Of(p)] \in Nat /\ userUsed \in Nat
    BY <2>1, SumFacts, TrafficAssumption DEF SInv, UserIsSum, TInv, TypeOK
  <2>3. r.quota = userUsed - used[Of(p)]
    BY <2>1, <2>2
  <2>4. r.instance = Of(p)
    BY <1>1, <2>1 DEF At
  <2>5. Remainder'
    BY <1>2, <1>4, <2>3, <2>4 DEF SInv, Remainder, At, Of
  <2>6. UserHolder'
    <3>1. UNCHANGED lock /\ proc[p].step = "quota" /\ r.step = "commit"
      BY <2>1 DEF At
    <3>2. QED
      BY <1>4, <3>1 DEF SInv, UserHolder
  <2>7. QED
    BY <1>3, <2>5, <2>6
<1>9. CASE Read(p) \/ ReadStopped(p) \/ Stamp(p)
  <2>1. UNCHANGED lock /\ proc[p].step \in {"read", "stamp"} /\ r.step \in {"stamp", "lockUser"}
    BY <1>4, <1>9, TypeByName DEF Read, ReadStopped, Stamp, locks, At, SInv, TInv, ProcType
  <2>2. QED
    BY <1>3, <1>5, <2>1
<1>10. CASE Deliver(p)
  <2>1. UNCHANGED lock /\ proc[p].step = "idle" /\ r.step = "lock"
    BY <1>4, <1>10, TypeByName DEF Deliver, Job, locks, At, SInv, TInv
  <2>2. QED
    BY <1>3, <1>5, <2>1
<1>11. QED
  BY <1>6, <1>7, <1>8, <1>9, <1>10 DEF Continues, Begins

\* A process that ends writes the user's row only under the user's lock.
LEMMA EndsSum ==
  ASSUME SInv, NEW p \in Procs, Ends(p)
  PROVE  (UserIsSum /\ UserHolder /\ Remainder)'
<1>1. proc' = [proc EXCEPT ![p] = NoProc]
  BY DEF Ends, Apply, Reset, Fail, Die, Finish
<1>2. /\ \A q \in Procs \ {p} : proc'[q] = proc[q]
      /\ proc'[p] = NoProc
  BY <1>1, TypeByName DEF SInv, TInv
<1>3. lock'[User] # p /\ \A q \in Procs \ {p} : lock'[User] = q <=> lock[User] = q
  BY TrafficAssumption DEF Ends, Apply, Reset, Fail, Die, Finish, Released, Keys
<1>4. UserHolder'
  BY <1>2, <1>3 DEF SInv, UserHolder, NoProc, Job
<1>5. Of(p) \in Instances
  BY DEF Ends, Apply, Reset, Fail, Die, At, SInv, TInv, WorkInv
<1>6. used \in [Instances -> Nat] /\ userUsed \in Nat
  BY DEF SInv, TInv, TypeOK
<1>7. CASE Fail(p) \/ Die(p)
  <2>1. UNCHANGED ledger
    BY <1>7 DEF Fail, Die
  <2>2. QED
    BY <1>2, <1>4, <2>1, SumPrime DEF SInv, UserIsSum, Remainder, At, Of, NoProc, Job, ledger
<1>8. ASSUME Apply(p) \/ Reset(p) PROVE Remainder'
  <2>1. At(p, "commit")
    BY <1>8 DEF Apply, Reset
  <2>2. \A q \in Procs \ {p} : ~At(q, "commit")
    BY <2>1 DEF SInv, UserHolder, At
  <2>3. QED
    BY <1>2, <2>2 DEF Remainder, At, NoProc, Job
<1>9. CASE Apply(p)
  <2>1. PICK delta \in Nat :
          /\ used' = [used EXCEPT ![Of(p)] = @ + delta]
          /\ userUsed' = userUsed + delta
    <3>1. snapshot[Of(p)] \in Samples /\ proc[p].sample \in Samples
      BY <1>5, TypeByName DEF SInv, TInv, TypeOK, ProcType
    <3>2. Increment(snapshot[Of(p)], proc[p].sample) \in Nat
      BY <3>1, Increments
    <3>3. QED
      BY <1>9, <3>2 DEF Apply
  <2>2. used[Of(p)] \in Nat /\ used[Of(p)] + delta \in Nat
    BY <1>5, <1>6
  <2>3. used' = [used EXCEPT ![Of(p)] = used[Of(p)] + delta]
    BY <2>1
  <2>4. Sum(used') = Sum(used) + (used[Of(p)] + delta) - used[Of(p)] /\ Sum(used) \in Nat
    BY <1>5, <1>6, <2>2, <2>3, SumFacts, TrafficAssumption
  <2>5. UserIsSum'
    BY <1>6, <2>1, <2>2, <2>4, SumPrime DEF SInv, UserIsSum
  <2>6. QED
    BY <1>4, <1>8, <1>9, <2>5
<1>10. CASE Reset(p)
  <2>1. used' = [used EXCEPT ![Of(p)] = 0] /\ userUsed' = userUsed - used[Of(p)]
    BY <1>10 DEF Reset, SInv, Remainder
  <2>2. Sum(used') = Sum(used) + 0 - used[Of(p)] /\ Sum(used) \in Nat
    BY <1>5, <1>6, <2>1, SumFacts, TrafficAssumption
  <2>3. UserIsSum'
    BY <1>5, <1>6, <2>1, <2>2, SumPrime DEF SInv, UserIsSum
  <2>4. QED
    BY <1>4, <1>8, <1>10, <2>3
<1>11. QED
  BY <1>7, <1>9, <1>10 DEF Ends

\* Every step keeps them.
LEMMA NextSum == SInv /\ [Next]_vars => SInv'
<1> SUFFICES ASSUME SInv, [Next]_vars PROVE SInv'
  OBVIOUS
<1>1. TInv'
  BY NextT DEF SInv
<1>2. CASE UNCHANGED vars
  BY <1>1, <1>2, SumPrime DEF vars, ledger, locks, SInv, UserIsSum, UserHolder, Remainder, At, Of
<1>3. CASE \/ \E i \in Instances : Send(i) \/ Stop(i) \/ Restart(i) \/ AgentSample(i)
           \/ \E k \in Keys : Expire(k)
  BY <1>1, <1>3, HostSum DEF SInv
<1>4. ASSUME NEW p \in Procs, Continues(p) \/ Ends(p)
      PROVE  SInv'
  BY <1>1, <1>4, ContinuesSum, EndsSum DEF SInv
<1>5. QED
  BY <1>2, <1>3, <1>4 DEF Next, Continues, Begins, Ends

\* However resets and samples of several instances meet, and whichever process
\* dies or is too slow, the user's traffic is the sum of his instances' traffic.
THEOREM UserTrafficIsSum == Spec => []UserIsSum
<1>1. Init => SInv
  BY InitSum
<1>2. SInv /\ [Next]_vars => SInv'
  BY NextSum
<1>3. SInv => UserIsSum
  BY DEF SInv
<1>4. QED
  BY <1>1, <1>2, <1>3, PTL DEF Spec

\* Whoever dies or is too slow: two processes are at work on the counters of one
\* instance only when one of them is a reset that has lost its lock, and the
\* transactions of two processes never overlap.
THEOREM OneProcess == Spec => []OneAtATime
<1> DEFINE Inv == SInv /\ HoldsLock /\ Alone
<1>1. Init => Inv
  BY InitT, InitSum
<1>2. Inv /\ [Next]_vars => Inv'
  BY NextSum, NextLocks DEF SInv
<1>3. Inv => OneAtATime
  <2> SUFFICES ASSUME Inv, NEW p \in Procs, NEW q \in Procs,
                      p # q, Inside(p), Inside(q), Of(p) = Of(q)
               PROVE  /\ \E r \in {p, q} : proc[r].kind = "reset" /\ lock[Of(r)] # r
                      /\ ~({proc[p].step, proc[q].step} \subseteq {"quota", "commit"})
    BY DEF OneAtATime
  <2>1. \E r \in {p, q} : proc[r].kind = "reset" /\ lock[Of(r)] # r
    BY DEF HoldsLock
  <2>2. proc[p].step \in {"quota", "commit"} /\ proc[q].step \in {"quota", "commit"} => FALSE
    BY DEF SInv, UserHolder
  <2>3. QED
    BY <2>1, <2>2
<1> HIDE DEF Inv
<1>4. QED
  BY <1>1, <1>2, <1>3, PTL DEF Spec
===============================================================================
