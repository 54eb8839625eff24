------------------------ MODULE InstanceTransfer_proofs ------------------------
(***************************************************************************)
(* For any number of users, requests, transfers, names and crashes, and    *)
(* wherever the clean-ups take a row from a request at work: one request   *)
(* at a time hands the instance over, the recorded name is the container's,*)
(* a request to destroy the instance only deletes what is its user's own,  *)
(* and a fee is settled once more at most for every row so taken.          *)
(***************************************************************************)
EXTENDS TLAPS, FiniteSetTheorems, InstanceTransfer

Transfers == [status : Statuses, from : Users, to : Users]
Requests == [step : Steps, transfer : Ids \cup {0}, user : Users \cup {None}, old : Names, new : Names]

Renaming == {"execute", "unrename"}
Naming == Renaming \cup {"rename"}
Destroying == {"claimDestroy", "delete", "undelete", "cancelOpen"}
Engaged == Working \cup {"refund"}

\* Who creates a transfer or destroys is a user.
UserInv == \A h \in Handlers : req[h].step \in {"create", "claimDestroy"} => req[h].user \in Users

\* The requests that work on a transfer or owe its sender the refund.
On(r, i) == r.step \in Engaged /\ r.transfer = i
Busy(i) == {h \in Handlers : On(req[h], i)}

\* Each of them settles the fee once at most; so may the next claim of a row that
\* is pending or left in processing.
Settling(i) == refunds[i] + Cardinality(Busy(i))
FeeInv ==
    /\ \A h \in Handlers : req[h].step \in Engaged => req[h].transfer \in Ids
    /\ \A i \in Ids : Settling(i) + Count(transfers[i].status \in {"pending", "accepted"})
                          <= 1 + overtaken[i]
    /\ \A i \in Ids : transfers[i].status = "processing" /\ Workers(i) = {}
                          => Settling(i) <= overtaken[i]
    /\ \A i \in 1..MaxTransfers : i \notin Ids => refunds[i] = 0 /\ overtaken[i] = 0

\* A new name is used by nobody but who generated it, and a container that was
\* renamed has it.
NameInv ==
    /\ incusId <= names /\ (hostName # None => hostName <= names)
    /\ \A h \in Handlers : req[h].step \in Naming \cup Destroying => req[h].old <= names
    /\ \A h \in Handlers : req[h].step \in Naming =>
          /\ req[h].new <= names /\ incusId # req[h].new
          /\ \A k \in Handlers : req[k].step \in Naming \cup Destroying => req[k].old # req[h].new
          /\ \A k \in Handlers : req[k].step \in Naming /\ req[k].new = req[h].new => k = h
    /\ \A h \in Handlers : req[h].step \in Renaming => hostName = req[h].new

\* Nothing has or gets this name again.
Retired(name) ==
    /\ hostName # name /\ incusId # name
    /\ \A h \in Handlers : req[h].step \in Renaming => req[h].old # name

\* One request at most is deleting, of its own user or what is no longer there.
DestroyInv ==
    /\ \A h \in Handlers : req[h].step \in {"delete", "undelete"} => ~alive
    /\ \A h, k \in Handlers : req[h].step \in {"delete", "undelete"} /\ req[k].step \in {"delete", "undelete"}
                                  => h = k
    /\ \A h \in Handlers : At(h, "delete") => owner = req[h].user \/ Retired(req[h].old)

EnvInv == UserInv /\ NameInv /\ DestroyInv
IInv == TypeOK /\ FeeInv /\ EnvInv

-------------------------------------------------------------------------------
(* Types *)

\* The types by name, and the shapes of a request.
LEMMA Shapes ==
  ASSUME TypeOK
  PROVE  /\ req \in [Handlers -> Requests] /\ transfers \in Seq(Transfers)
         /\ Len(transfers) \in Nat /\ Ids = 1..Len(transfers) /\ Ids \subseteq 1..MaxTransfers
         /\ \A i \in Ids : transfers[i] \in Transfers
         /\ NoRequest \in Requests /\ names \in Nat /\ incusId \in Nat /\ (hostName # None => hostName \in Nat)
         /\ None \notin Nat /\ None \notin Users
         /\ \A h \in Handlers : req[h].old \in Nat /\ req[h].new \in Nat
<1>1. req \in [Handlers -> Requests] /\ transfers \in Seq(Transfers)
  BY DEF TypeOK, Requests, Transfers
<1>2. Len(transfers) \in Nat /\ Ids = 1..Len(transfers) /\ \A i \in Ids : transfers[i] \in Transfers
  BY <1>1 DEF Ids
<1>3. Ids \subseteq 1..MaxTransfers
  BY <1>2, InstanceTransferAssumption DEF TypeOK
<1>4. NoRequest \in Requests
  BY InstanceTransferAssumption DEF NoRequest, Requests, Steps, Names
<1>5. names \in Nat /\ incusId \in Nat /\ (hostName # None => hostName \in Nat)
  BY InstanceTransferAssumption DEF TypeOK, Names
<1>6. \A h \in Handlers : req[h].old \in Nat /\ req[h].new \in Nat
  BY <1>1, InstanceTransferAssumption DEF Requests, Names
<1>7. QED
  BY <1>1, <1>2, <1>3, <1>4, <1>5, <1>6, InstanceTransferAssumption

\* A status is written.
LEMMA Statused ==
  ASSUME TypeOK, NEW i \in Ids, NEW s \in Statuses, SetStatus(i, s)
  PROVE  /\ transfers' \in Seq(Transfers) /\ Len(transfers') = Len(transfers) /\ Ids' = Ids
         /\ transfers'[i].status = s /\ \A j \in Ids : j # i => transfers'[j] = transfers[j]
<1>1. transfers \in Seq(Transfers) /\ transfers[i] \in Transfers
  BY Shapes
<1>2. [transfers[i] EXCEPT !.status = s] \in Transfers /\ [transfers[i] EXCEPT !.status = s].status = s
  BY <1>1 DEF Transfers
<1>3. transfers' = [transfers EXCEPT ![i] = [transfers[i] EXCEPT !.status = s]]
  BY DEF SetStatus
<1>4. Ids = 1..Len(transfers) /\ Len(transfers) \in Nat /\ transfers \in [1..Len(transfers) -> Transfers]
  BY <1>1, Shapes
<1>5. transfers' \in [1..Len(transfers) -> Transfers]
  BY <1>2, <1>3, <1>4
<1>6. transfers' \in Seq(Transfers) /\ Len(transfers') = Len(transfers) /\ Ids' = Ids
  BY <1>4, <1>5 DEF Ids
<1>7. QED
  BY <1>2, <1>3, <1>4, <1>6

\* Statuses are written in passing, as by the clean-ups.
LEMMA Mapped ==
  ASSUME TypeOK, NEW s \in Statuses, NEW P,
         transfers' = [i \in Ids |-> IF transfers[i].status = P
                                     THEN [transfers[i] EXCEPT !.status = s] ELSE transfers[i]]
  PROVE  /\ transfers' \in Seq(Transfers) /\ Len(transfers') = Len(transfers) /\ Ids' = Ids
         /\ \A i \in Ids : transfers'[i] = IF transfers[i].status = P
                                          THEN [transfers[i] EXCEPT !.status = s] ELSE transfers[i]
         /\ \A i \in Ids : transfers'[i].status = IF transfers[i].status = P THEN s ELSE transfers[i].status
<1>1. Ids = 1..Len(transfers) /\ Len(transfers) \in Nat /\ \A i \in Ids : transfers[i] \in Transfers
  BY Shapes
<1>2. \A i \in Ids : [transfers[i] EXCEPT !.status = s] \in Transfers /\ [transfers[i] EXCEPT !.status = s].status = s
  BY <1>1 DEF Transfers
<1>3. transfers' \in [1..Len(transfers) -> Transfers]
  BY <1>1, <1>2
<1>4. transfers' \in Seq(Transfers) /\ Len(transfers') = Len(transfers)
  BY <1>1, <1>3
<1>5. QED
  BY <1>1, <1>2, <1>4 DEF Ids

\* The request of h becomes r.
Moves(h, r) == req' = [req EXCEPT ![h] = r]

\* A request goes on...
LEMMA Going ==
  ASSUME TypeOK, NEW h \in Handlers, NEW s \in Steps, Goto(h, s)
  PROVE  \E r \in Requests :
            /\ Moves(h, r) /\ r.step = s
            /\ r.transfer = req[h].transfer /\ r.user = req[h].user /\ r.old = req[h].old /\ r.new = req[h].new
<1>1. req[h] \in Requests
  BY Shapes
<1>2. [req[h] EXCEPT !.step = s] \in Requests
  BY <1>1 DEF Requests
<1>3. Moves(h, [req[h] EXCEPT !.step = s])
  BY DEF Goto, Moves
<1>4. QED
  BY <1>1, <1>2, <1>3 DEF Requests

\* ...or is done.
LEMMA Finishing ==
  ASSUME TypeOK, NEW h \in Handlers, Finish(h)
  PROVE  Moves(h, NoRequest) /\ NoRequest \in Requests /\ NoRequest.step = "idle"
BY Shapes DEF Finish, Moves, NoRequest

\* What the others were doing stays.
LEMMA Others ==
  ASSUME TypeOK, NEW h \in Handlers, NEW r, Moves(h, r)
  PROVE  req'[h] = r /\ \A k \in Handlers : k # h => req'[k] = req[k]
BY Shapes DEF Moves

\* The types after a step of h.
LEMMA StepType ==
  ASSUME TypeOK, NEW h \in Handlers, NEW r \in Requests, Moves(h, r),
         owner' \in Users, alive' \in BOOLEAN, incusId' \in Names, hostName' \in Names \cup {None},
         transfers' \in Seq(Transfers), Len(transfers') <= MaxTransfers, Ids \subseteq Ids',
         refunds' \in [1..MaxTransfers -> Nat], names' \in Names, UNCHANGED <<overtaken, booting, restarts>>
  PROVE  TypeOK'
<1>1. Requests \subseteq Requests'
  BY DEF Requests
<1>2. req' \in [Handlers -> Requests']
  BY <1>1, Shapes DEF Moves
<1>3. QED
  BY <1>2 DEF TypeOK, Requests, Transfers

-------------------------------------------------------------------------------
(* Counting the requests that settle a fee *)

\* They are finitely many, and who works is one of them.
LEMMA BusyFacts ==
  ASSUME NEW i
  PROVE  /\ IsFiniteSet(Busy(i)) /\ Cardinality(Busy(i)) \in Nat
         /\ Workers(i) # {} => Cardinality(Busy(i)) >= 1
<1>1. Busy(i) \subseteq Handlers /\ IsFiniteSet(Handlers)
  BY InstanceTransferAssumption DEF Busy
<1>2. IsFiniteSet(Busy(i)) /\ Cardinality(Busy(i)) \in Nat
  BY <1>1, FS_Subset, FS_CardinalityType
<1>3. Workers(i) \subseteq Busy(i)
  BY DEF Workers, Busy, On, Engaged
<1>4. Busy(i) # {} => Cardinality(Busy(i)) # 0
  BY <1>2, FS_EmptySet
<1>5. QED
  BY <1>2, <1>3, <1>4

\* The number after a step of h.
LEMMA BusyMoves ==
  ASSUME TypeOK, NEW h \in Handlers, NEW r, Moves(h, r), NEW i
  PROVE  /\ Cardinality(Busy(i)') \in Nat
         /\ Cardinality(Busy(i)') + Count(On(req[h], i)) = Cardinality(Busy(i)) + Count(On(r, i))
<1> DEFINE B == Busy(i) \ {h}
<1>1. req'[h] = r /\ \A k \in Handlers : k # h => req'[k] = req[k]
  BY Others
<1>2. Busy(i) = IF On(req[h], i) THEN B \cup {h} ELSE B
  BY DEF Busy
<1>3. Busy(i)' = IF On(r, i) THEN B \cup {h} ELSE B
  BY <1>1 DEF Busy, On
<1>4. IsFiniteSet(B) /\ Cardinality(B) \in Nat
  BY BusyFacts, FS_RemoveElement, FS_CardinalityType, FS_Subset
<1>5. Cardinality(B \cup {h}) = Cardinality(B) + 1
  BY <1>4, FS_AddElement
<1> HIDE DEF B
<1>6. QED
  BY <1>2, <1>3, <1>4, <1>5 DEF Count

\* The requests at work after a step of h.
LEMMA WorkersMove ==
  ASSUME TypeOK, NEW h \in Handlers, NEW r, Moves(h, r), NEW i, Workers(i)' = {}
  PROVE  Workers(i) = {} \/ (On(req[h], i) /\ req[h].step \in Working /\ ~(r.step \in Working /\ r.transfer = i))
<1>1. req'[h] = r /\ \A k \in Handlers : k # h => req'[k] = req[k]
  BY Others
<1>2. QED
  BY <1>1 DEF Workers, On, Engaged

\* Numbers of a transfer.
LEMMA Numbers ==
  ASSUME TypeOK, NEW i \in Ids
  PROVE  /\ i \in 1..MaxTransfers /\ refunds[i] \in Nat /\ overtaken[i] \in Nat /\ Settling(i) \in Nat
         /\ \A c \in BOOLEAN : Count(c) \in {0, 1}
<1>1. i \in 1..MaxTransfers
  BY Shapes
<1>2. refunds[i] \in Nat /\ overtaken[i] \in Nat
  BY <1>1 DEF TypeOK
<1>3. QED
  BY <1>1, <1>2, BusyFacts DEF Settling, Count

\* Nothing but the request changes, and it did not become one that settles.
LEMMA FeeMoves ==
  ASSUME TypeOK, FeeInv, NEW h \in Handlers, NEW r \in Requests, Moves(h, r),
         UNCHANGED <<transfers, refunds, overtaken>>,
         r.step \in Working => req[h].step \in Working /\ r.transfer = req[h].transfer,
         r.step # "refund"
  PROVE  FeeInv'
<1>1. req'[h] = r /\ \A k \in Handlers : k # h => req'[k] = req[k]
  BY Others
<1>2. Ids' = Ids
  BY DEF Ids
<1>3. \A k \in Handlers : req'[k].step \in Engaged => req'[k].transfer \in Ids'
  BY <1>1, <1>2 DEF FeeInv, Engaged
<1>4. ASSUME NEW i \in Ids
      PROVE  /\ Settling(i)' <= Settling(i) /\ Settling(i)' \in Nat
             /\ Workers(i)' = {} /\ Workers(i) # {} => Settling(i)' <= Settling(i) - 1
  <2>1. On(r, i) => On(req[h], i)
    BY DEF On, Engaged
  <2>2. Cardinality(Busy(i)) \in Nat /\ refunds[i] \in Nat
    BY BusyFacts, Numbers
  <2>3. /\ Cardinality(Busy(i)') \in Nat
        /\ Cardinality(Busy(i)') + Count(On(req[h], i)) = Cardinality(Busy(i)) + Count(On(r, i))
    BY BusyMoves
  <2>4. Workers(i)' = {} /\ Workers(i) # {} => On(req[h], i) /\ ~On(r, i)
    BY WorkersMove DEF On, Engaged
  <2>5. QED
    BY <2>1, <2>2, <2>3, <2>4 DEF Settling, Count
<1>5. ASSUME NEW i \in Ids
      PROVE  /\ Settling(i)' + Count(transfers'[i].status \in {"pending", "accepted"}) <= 1 + overtaken'[i]
             /\ transfers'[i].status = "processing" /\ Workers(i)' = {} => Settling(i)' <= overtaken'[i]
  BY <1>4, Numbers DEF FeeInv, Count
<1>6. QED
  BY <1>2, <1>3, <1>5 DEF FeeInv

\* Who settled as one of the busy is no longer busy with it, or nobody was.
LEMMA FeeOthers ==
  ASSUME TypeOK, FeeInv, NEW h \in Handlers, NEW r \in Requests, Moves(h, r), NEW j \in Ids,
         ~On(req[h], j), ~On(r, j), UNCHANGED <<transfers[j], refunds[j], overtaken[j]>>
  PROVE  /\ Settling(j)' + Count(transfers'[j].status \in {"pending", "accepted"}) <= 1 + overtaken'[j]
         /\ transfers'[j].status = "processing" /\ Workers(j)' = {} => Settling(j)' <= overtaken'[j]
<1>1. Cardinality(Busy(j)) \in Nat /\ Cardinality(Busy(j)') = Cardinality(Busy(j))
  BY BusyMoves, BusyFacts DEF Count
<1>2. Workers(j)' = {} => Workers(j) = {}
  BY WorkersMove
<1>3. QED
  BY <1>1, <1>2 DEF FeeInv, Settling

\* The instance, the container and its names stay as they are.
LEMMA QuietMoves ==
  ASSUME TypeOK, EnvInv, NEW h \in Handlers, NEW r \in Requests, Moves(h, r),
         UNCHANGED <<instance, names>>,
         r.step \in {"create", "claimDestroy"} => r.user \in Users,
         r.step \in Naming => /\ req[h].step \in Naming /\ r.old = req[h].old /\ r.new = req[h].new
                              /\ r.step \in Renaming => req[h].step \in Renaming,
         r.step \in Destroying => r.old = incusId \/ (req[h].step \in Destroying /\ r.old = req[h].old),
         r.step \notin {"delete", "undelete"}
  PROVE  EnvInv'
<1>1. req'[h] = r /\ \A k \in Handlers : k # h => req'[k] = req[k]
  BY Others
<1>2. UNCHANGED <<owner, alive, incusId, hostName, names>>
  BY DEF instance
<1>3. UserInv'
  BY <1>1 DEF EnvInv, UserInv
<1>4. NameInv'
  BY <1>1, <1>2 DEF EnvInv, NameInv, Naming, Renaming, Destroying
<1>5. \A name : Retired(name) => Retired(name)'
  BY <1>1, <1>2 DEF Retired, Naming, Renaming
<1>6. DestroyInv'
  BY <1>1, <1>2, <1>5 DEF EnvInv, DestroyInv, At
<1>7. QED
  BY <1>3, <1>4, <1>6 DEF EnvInv

-------------------------------------------------------------------------------
(* Steps that change neither transfers nor fees *)

\* A request arrives or goes on, and names and locks are not its business.
Plain(h, r) ==
    /\ Moves(h, r)
    /\ r.step \in {"create", "claimDestroy", "release", "unrename", "idle"}
    /\ r.step \in {"create", "claimDestroy"} => r.user \in Users
    /\ r.step = "claimDestroy" => r.old = incusId
    /\ r.step = "release" => req[h].step \in Working
    /\ r.step = "unrename" => At(h, "execute") /\ r.old = req[h].old /\ r.new = req[h].new
    /\ r.step \in {"release", "unrename"} => r.transfer = req[h].transfer

\* Requests that arrive and that leave everything as it is.
LEMMA PlainSteps ==
  ASSUME IInv, NEW h \in Handlers,
         \/ \E u \in Users : StartCreate(h, u) \/ StartDestroy(h, u)
         \/ CheckRefused(h) \/ ExecuteFails(h) \/ GiveUp(h)
  PROVE  IInv'
<1>1. TypeOK /\ FeeInv /\ EnvInv
  BY DEF IInv
<1>4. UNCHANGED <<instance, transfers, refunds, server>>
  BY DEF StartCreate, StartDestroy, CheckRefused, ExecuteFails, GiveUp
<1>5. \E r \in Requests : Plain(h, r)
  <2>0. req[h] \in Requests
    BY <1>1, Shapes
  <2>1. CASE \E u \in Users : StartCreate(h, u)
    <3>1. PICK u \in Users : StartCreate(h, u)
      BY <2>1
    <3>2. [req[h] EXCEPT !.step = "create", !.user = u] \in Requests
      BY <2>0 DEF Requests, Steps
    <3>3. Plain(h, [req[h] EXCEPT !.step = "create", !.user = u])
      BY <2>0, <3>1 DEF StartCreate, Plain, Moves, Requests
    <3>4. QED
      BY <3>2, <3>3
  <2>2. CASE \E u \in Users : StartDestroy(h, u)
    <3>1. PICK u \in Users : StartDestroy(h, u)
      BY <2>2
    <3>2. [req[h] EXCEPT !.step = "claimDestroy", !.user = u, !.old = incusId] \in Requests
      BY <2>0, <1>1 DEF Requests, Steps, TypeOK
    <3>3. Plain(h, [req[h] EXCEPT !.step = "claimDestroy", !.user = u, !.old = incusId])
      BY <2>0, <3>1 DEF StartDestroy, Plain, Moves, Requests
    <3>4. QED
      BY <3>2, <3>3
  <2>3. CASE CheckRefused(h)
    BY <1>1, <2>3, Going DEF CheckRefused, Plain, Steps, Working, At
  <2>4. CASE ExecuteFails(h)
    BY <1>1, <2>4, Going DEF ExecuteFails, Plain, Steps, At
  <2>5. CASE GiveUp(h)
    BY <1>1, <2>5, Finishing DEF GiveUp, Plain
  <2>6. QED
    BY <2>1, <2>2, <2>3, <2>4, <2>5
<1>6. PICK r \in Requests : Plain(h, r)
  BY <1>5
<1>7. TypeOK'
  <2>1. Moves(h, r)
    BY <1>6 DEF Plain
  <2>2. Ids' = Ids /\ UNCHANGED <<owner, alive, incusId, hostName, transfers, refunds, overtaken, names, booting, restarts>>
    BY <1>4 DEF Ids, instance, server
  <2>3. QED
    BY <1>1, <2>1, <2>2, StepType DEF TypeOK, Transfers
<1>8. FeeInv'
  BY <1>1, <1>4, <1>6, FeeMoves DEF Plain, server, Working, At
<1>9. EnvInv'
  BY <1>1, <1>4, <1>6, QuietMoves DEF Plain, server, Naming, Renaming, Destroying, At
<1>10. QED
  BY <1>7, <1>8, <1>9 DEF IInv

-------------------------------------------------------------------------------
(* Steps that change the container, its names or whether the instance lives *)

\* What such a step leaves of the invariant to be shown.
LEMMA HostStep ==
  ASSUME IInv, NEW h \in Handlers, NEW r \in Requests, Moves(h, r),
         UNCHANGED <<owner, incusId, transfers, refunds, overtaken, booting, restarts>>,
         alive' \in BOOLEAN, hostName' \in Names \cup {None}, names' \in Names,
         r.step \in Working => req[h].step \in Working /\ r.transfer = req[h].transfer,
         r.step # "refund",
         EnvInv'
  PROVE  IInv'
<1>1. TypeOK /\ FeeInv /\ EnvInv
  BY DEF IInv
<1>3. FeeInv'
  BY <1>1, FeeMoves
<1>4. Ids' = Ids
  BY DEF Ids
<1>5. TypeOK'
  BY <1>1, <1>4, StepType DEF TypeOK, Transfers
<1>6. QED
  BY <1>3, <1>5 DEF IInv

\* A new name is generated: nothing else in use or about to be is as new.
LEMMA CheckPassedKeeps ==
  ASSUME IInv, NEW h \in Handlers, CheckPassed(h)
  PROVE  IInv'
<1> DEFINE r == [req[h] EXCEPT !.step = "rename", !.old = incusId, !.new = names + 1]
<1>1. TypeOK /\ FeeInv /\ EnvInv
  BY DEF IInv
<1>2. req[h] \in Requests /\ names \in Nat /\ incusId \in Names /\ names + 1 \in Names
  BY <1>1, Shapes, InstanceTransferAssumption DEF CheckPassed, TypeOK, Names
<1>3. r \in Requests /\ Moves(h, r) /\ r.step = "rename" /\ r.old = incusId /\ r.new = names'
        /\ r.transfer = req[h].transfer
  BY <1>2 DEF Requests, Steps, Moves, CheckPassed
<1> HIDE DEF r
<1>4. req'[h] = r /\ \A k \in Handlers : k # h => req'[k] = req[k]
  BY <1>1, <1>3, Others
<1>5. UNCHANGED <<owner, alive, incusId, hostName, transfers, refunds, overtaken, booting, restarts>> /\ names' = names + 1
  BY DEF CheckPassed, instance
<1>6. req[h].step = "check"
  BY DEF CheckPassed, At
<1>7. EnvInv'
  <2>1. UserInv'
    BY <1>1, <1>3, <1>4 DEF EnvInv, UserInv
  <2>2. NameInv'
    BY <1>1, <1>2, <1>3, <1>4, <1>5, <1>6, Shapes DEF EnvInv, NameInv, Naming, Renaming, Destroying
  <2>3. \A name : Retired(name) => Retired(name)'
    BY <1>3, <1>4, <1>5 DEF Retired, Renaming
  <2>4. DestroyInv'
    BY <1>1, <1>3, <1>4, <1>5, <2>3 DEF EnvInv, DestroyInv, At
  <2>5. QED
    BY <2>1, <2>2, <2>4 DEF EnvInv
<1>8. QED
  BY <1>1, <1>2, <1>3, <1>5, <1>6, <1>7, HostStep DEF TypeOK, Working, At

\* The host renames, or does not, or renames back: the name that comes is the
\* request's own, or one it alone can give back.
LEMMA NamingSteps ==
  ASSUME IInv, NEW h \in Handlers, Renamed(h) \/ RenameFails(h) \/ Unrename(h)
  PROVE  IInv'
<1>1. TypeOK /\ FeeInv /\ EnvInv
  BY DEF IInv
<1>2. /\ UNCHANGED <<owner, alive, incusId, transfers, refunds, overtaken, names, booting, restarts>>
      /\ req[h].step \in {"rename", "unrename"}
  BY DEF Renamed, RenameFails, Unrename, server, At
<1>3. \/ hostName' = hostName
      \/ req[h].step = "rename" /\ hostName = req[h].old /\ hostName' = req[h].new
      \/ req[h].step = "unrename" /\ hostName = req[h].new /\ hostName' = req[h].old
  BY DEF Renamed, RenameFails, Unrename, At
<1>4. PICK r \in Requests :
         /\ Moves(h, r) /\ r.step \in {"execute", "release"}
         /\ r.transfer = req[h].transfer /\ r.old = req[h].old /\ r.new = req[h].new
         /\ r.step = "execute" => hostName = req[h].old /\ hostName' = req[h].new
  <2>1. CASE Renamed(h)
    BY <1>1, <2>1, Going DEF Renamed, Steps
  <2>2. CASE RenameFails(h)
    BY <1>1, <2>2, Going DEF RenameFails, AfterFailedRename, Steps
  <2>3. CASE Unrename(h)
    BY <1>1, <2>3, Going DEF Unrename, Steps
  <2>4. QED
    BY <2>1, <2>2, <2>3
<1>5. req'[h] = r /\ \A k \in Handlers : k # h => req'[k] = req[k]
  BY <1>1, <1>4, Others
<1>6. req[h].step \in Naming
  BY <1>2 DEF Naming, Renaming
<1>7. /\ req[h].new <= names /\ req[h].old <= names /\ incusId # req[h].new
      /\ \A k \in Handlers : req[k].step \in Naming \cup Destroying => req[k].old # req[h].new
  BY <1>1, <1>6 DEF EnvInv, NameInv
<1>8. \A k \in Handlers : k # h /\ req[k].step \in Renaming => hostName' = req[k].new
  <2>1. SUFFICES ASSUME NEW k \in Handlers, k # h, req[k].step \in Renaming PROVE hostName' = req[k].new
    OBVIOUS
  <2>2. hostName = req[k].new /\ req[h].old # req[k].new /\ req[h].new # req[k].new
    BY <1>1, <1>6, <2>1 DEF EnvInv, NameInv, Naming
  <2>3. QED
    BY <1>3, <2>2
<1>9. EnvInv'
  <2>1. UserInv'
    BY <1>1, <1>4, <1>5 DEF EnvInv, UserInv
  <2>2. NameInv'
    <3>1. \A k \in Handlers : /\ req'[k].old = req[k].old /\ req'[k].new = req[k].new
                              /\ req'[k].step \in Naming => req[k].step \in Naming
                              /\ req'[k].step \in Destroying => req[k].step \in Destroying
      BY <1>4, <1>5, <1>6 DEF Naming, Renaming, Destroying
    <3>2. hostName' # None => hostName' <= names
      BY <1>1, <1>3, <1>7 DEF EnvInv, NameInv
    <3>3. \A k \in Handlers : req'[k].step \in Renaming => hostName' = req'[k].new
      BY <1>4, <1>5, <1>8 DEF Renaming
    <3>4. QED
      BY <1>1, <1>2, <3>1, <3>2, <3>3 DEF EnvInv, NameInv
  <2>3. \A k \in Handlers : At(k, "delete") /\ Retired(req[k].old) => Retired(req[k].old)'
    <3>1. SUFFICES ASSUME NEW k \in Handlers, At(k, "delete"), Retired(req[k].old)
                   PROVE  Retired(req[k].old)'
      OBVIOUS
    <3>2. k # h /\ req[k].step \in Destroying /\ req'[k].old = req[k].old
      BY <1>2, <1>5, <3>1 DEF At, Destroying
    <3>3. req[k].old # req[h].new
      BY <1>7, <3>2
    <3>4. hostName' # req[k].old
      BY <1>3, <3>1, <3>3 DEF Retired, Renaming
    <3>5. r.step = "execute" => req[h].old # req[k].old
      BY <1>4, <3>1 DEF Retired
    <3>6. QED
      BY <1>2, <1>4, <1>5, <3>1, <3>2, <3>4, <3>5 DEF Retired, Renaming
  <2>4. DestroyInv'
    BY <1>1, <1>2, <1>4, <1>5, <2>3 DEF EnvInv, DestroyInv, At
  <2>5. QED
    BY <2>1, <2>2, <2>4 DEF EnvInv
<1>10. hostName' \in Names \cup {None}
  BY <1>1, <1>3, Shapes DEF TypeOK, Requests
<1>11. QED
  BY <1>1, <1>2, <1>4, <1>9, <1>10, HostStep DEF TypeOK, Working

\* The claim of a destruction, its deletion and its undoing: only who claimed the
\* living instance goes on, and nobody else claims it until that is over.
LEMMA DestroyingSteps ==
  ASSUME IInv, NEW h \in Handlers,
         ClaimDestroy(h) \/ DeleteContainer(h) \/ DeleteFails(h) \/ Undelete(h)
  PROVE  IInv'
<1>1. TypeOK /\ FeeInv /\ EnvInv
  BY DEF IInv
<1>2. /\ UNCHANGED <<owner, incusId, transfers, refunds, overtaken, names, booting, restarts>>
      /\ req[h].step \in {"claimDestroy", "delete", "undelete"}
      /\ hostName' # hostName => At(h, "delete") /\ hostName = req[h].old /\ hostName' = None
      /\ alive' \in BOOLEAN
  BY <1>1 DEF ClaimDestroy, DeleteContainer, DeleteFails, Undelete, DestroyTarget, server, At, TypeOK
<1>3. PICK r \in Requests :
         /\ Moves(h, r) /\ r.step \in {"delete", "cancelOpen", "undelete", "idle"}
         /\ r.step # "idle" => r.old = req[h].old /\ r.user = req[h].user
         /\ r.step = "delete" => At(h, "claimDestroy") /\ alive /\ ~alive' /\ owner = r.user
         /\ r.step = "undelete" => At(h, "delete") /\ alive' = alive
         /\ r.step = "cancelOpen" => At(h, "delete") /\ alive' = alive
         /\ alive' => alive \/ (At(h, "undelete") /\ r.step = "idle")
  <2>1. CASE ClaimDestroy(h) /\ owner = req[h].user /\ alive
    BY <1>1, <2>1, Going DEF ClaimDestroy, Steps
  <2>2. CASE ClaimDestroy(h) /\ ~(owner = req[h].user /\ alive)
    BY <1>1, <2>2, Finishing DEF ClaimDestroy
  <2>3. CASE DeleteContainer(h)
    BY <1>1, <2>3, Going DEF DeleteContainer, Steps
  <2>4. CASE DeleteFails(h)
    BY <1>1, <2>4, Going DEF DeleteFails, Steps
  <2>5. CASE Undelete(h)
    BY <1>1, <2>5, Finishing DEF Undelete
  <2>6. QED
    BY <2>1, <2>2, <2>3, <2>4, <2>5
<1>4. req'[h] = r /\ \A k \in Handlers : k # h => req'[k] = req[k]
  BY <1>1, <1>3, Others
<1>5. req[h].step \notin Naming
  BY <1>2 DEF Naming, Renaming
<1>6. EnvInv'
  <2>1. UserInv'
    BY <1>1, <1>3, <1>4 DEF EnvInv, UserInv
  <2>2. NameInv'
    <3>1. \A k \in Handlers : req[k].step \in Renaming => hostName' = req[k].new
      BY <1>1, <1>2 DEF EnvInv, NameInv, At, Naming, Destroying
    <3>2. \A k \in Handlers :
             /\ req'[k].step \in Naming => k # h /\ req'[k] = req[k]
             /\ req'[k].step \in Destroying => req[k].step \in Destroying /\ req'[k].old = req[k].old
      BY <1>2, <1>3, <1>4 DEF Naming, Renaming, Destroying
    <3>3. \A k \in Handlers : req'[k].step \in Renaming => hostName' = req'[k].new
      BY <3>1, <3>2 DEF Naming
    <3>4. hostName' # None => hostName' <= names
      BY <1>1, <1>2 DEF EnvInv, NameInv
    <3>5. QED
      BY <1>1, <1>2, <3>2, <3>3, <3>4 DEF EnvInv, NameInv
  <2>3. \A name \in Nat : Retired(name) => Retired(name)'
    BY <1>1, <1>2, <1>3, <1>4, <1>5, Shapes DEF Retired, Naming, Renaming
  <2>4. DestroyInv'
    BY <1>1, <1>2, <1>3, <1>4, <2>3, Shapes DEF EnvInv, DestroyInv, At
  <2>5. QED
    BY <2>1, <2>2, <2>4 DEF EnvInv
<1>7. hostName' \in Names \cup {None}
  BY <1>1, <1>2 DEF TypeOK
<1>8. QED
  BY <1>1, <1>2, <1>3, <1>6, <1>7, HostStep DEF TypeOK, Working, At

-------------------------------------------------------------------------------
(* Steps that write transfers or refunds *)

\* A transfer is added: nobody works on it yet.
LEMMA FinishCreateKeeps ==
  ASSUME IInv, NEW h \in Handlers, NEW v \in Users, FinishCreate(h, v)
  PROVE  IInv'
<1> DEFINE row == [status |-> "pending", from |-> req[h].user, to |-> v]
<1>0. PICK n : n = Len(transfers) + 1
  OBVIOUS
<1>1. TypeOK /\ FeeInv /\ EnvInv
  BY DEF IInv
<1>2. Moves(h, NoRequest) /\ NoRequest \in Requests /\ NoRequest.step = "idle"
  BY <1>1, Finishing DEF FinishCreate
<1>3. req'[h] = NoRequest /\ \A k \in Handlers : k # h => req'[k] = req[k]
  BY <1>1, <1>2, Others
<1>4. UNCHANGED <<instance, refunds, overtaken, names, booting, restarts>>
  BY DEF FinishCreate, server
<1>5. row \in Transfers /\ transfers' = Append(transfers, row) /\ n <= MaxTransfers
  BY <1>0, <1>1, Shapes, InstanceTransferAssumption
     DEF FinishCreate, Sender, Transfers, Statuses, EnvInv, UserInv, At, TypeOK
<1>6. /\ transfers' \in Seq(Transfers) /\ Len(transfers') = n /\ Ids' = Ids \cup {n}
      /\ \A i \in Ids : transfers'[i] = transfers[i]
  <2> HIDE DEF row
  <2>1. transfers \in Seq(Transfers) /\ Len(transfers) \in Nat /\ Ids = 1..Len(transfers)
    BY <1>1, Shapes
  <2>2. transfers' \in Seq(Transfers) /\ Len(transfers') = n
    BY <1>0, <1>5, <2>1
  <2>3. \A i \in 1..Len(transfers) : transfers'[i] = transfers[i]
    BY <1>5, <2>1
  <2>4. Ids' = 1..n
    BY <2>2 DEF Ids
  <2>5. QED
    BY <1>0, <2>1, <2>2, <2>3, <2>4
<1>7. TypeOK'
  <2>1. UNCHANGED <<owner, alive, incusId, hostName>> /\ Ids \subseteq Ids' /\ Len(transfers') <= MaxTransfers
    BY <1>4, <1>5, <1>6 DEF instance
  <2>2. QED
    BY <1>1, <1>2, <1>4, <1>6, <2>1, StepType DEF TypeOK
<1>8. FeeInv'
  <2>1. \A k \in Handlers : req'[k].step \in Engaged => req'[k].transfer \in Ids'
    BY <1>1, <1>2, <1>3, <1>6 DEF FeeInv, Engaged, Working
  <2>2. \A i : ~On(req[h], i) /\ ~On(NoRequest, i)
    BY <1>2 DEF On, Engaged, Working, FinishCreate, At
  <2>3. ASSUME NEW i \in Ids
        PROVE  /\ Settling(i)' + Count(transfers'[i].status \in {"pending", "accepted"}) <= 1 + overtaken'[i]
               /\ transfers'[i].status = "processing" /\ Workers(i)' = {} => Settling(i)' <= overtaken'[i]
    <3>1. UNCHANGED <<transfers[i], refunds[i], overtaken[i]>>
      BY <1>4, <1>6
    <3>2. QED
      BY <1>1, <1>2, <2>2, <3>1, FeeOthers
  <2>4. n \in 1..MaxTransfers /\ n \notin Ids
    BY <1>0, <1>1, <1>5, Shapes
  <2>5. refunds'[n] = 0 /\ overtaken'[n] = 0
    BY <1>1, <1>4, <2>4 DEF FeeInv
  <2>6. Busy(n)' = {}
    <3>1. Busy(n) = {} /\ Busy(n)' = {k \in Handlers : On(req'[k], n)}
      BY <1>1, <2>4 DEF Busy, FeeInv, On
    <3>2. QED
      BY <1>3, <2>2, <3>1 DEF Busy
  <2>7. Settling(n)' = 0
    <3>1. Cardinality(Busy(n)') = 0
      BY <2>6, FS_EmptySet
    <3>2. QED
      BY <2>5, <3>1 DEF Settling
  <2>8. transfers'[n].status = "pending"
    <3>1. transfers \in Seq(Transfers)
      BY <1>1, Shapes
    <3>2. transfers'[n] = row
      BY <1>0, <1>5, <3>1
    <3>3. QED
      BY <3>2
  <2>9. \A i \in 1..MaxTransfers : i \notin Ids' => refunds'[i] = 0 /\ overtaken'[i] = 0
    BY <1>1, <1>4, <1>6 DEF FeeInv
  <2>10. \A i \in Ids' :
             /\ Settling(i)' + Count(transfers'[i].status \in {"pending", "accepted"}) <= 1 + overtaken'[i]
             /\ transfers'[i].status = "processing" /\ Workers(i)' = {} => Settling(i)' <= overtaken'[i]
    BY <1>6, <2>3, <2>5, <2>7, <2>8 DEF Count
  <2>11. QED
    BY <2>1, <2>9, <2>10 DEF FeeInv
<1>9. EnvInv'
  BY <1>1, <1>2, <1>4, QuietMoves DEF Naming, Renaming, Destroying
<1>10. QED
  BY <1>7, <1>8, <1>9 DEF IInv

\* A request takes a pending transfer, to work on it or to end it.
LEMMA TakingSteps ==
  ASSUME IInv, NEW h \in Handlers, NEW i \in Ids,
         Claim(h, i) \/ (\E s \in {"rejected", "cancelled"} : End(h, i, s))
  PROVE  IInv'
<1>1. TypeOK /\ FeeInv /\ EnvInv
  BY DEF IInv
<1>2. /\ At(h, "idle") /\ transfers[i].status = "pending"
      /\ UNCHANGED <<instance, refunds, overtaken, names, booting, restarts>>
  BY DEF Claim, End, Serving, Pending, server
<1>4. req[h] \in Requests /\ i \in 1..MaxTransfers
  BY <1>1, Shapes
<1>5. PICK s \in {"processing", "rejected", "cancelled"}, r \in Requests :
        /\ Moves(h, r) /\ SetStatus(i, s) /\ r.transfer = i
        /\ r.step = IF s = "processing" THEN "check" ELSE "refund"
  <2>1. CASE Claim(h, i)
    <3>1. [req[h] EXCEPT !.step = "check", !.transfer = i] \in Requests
      BY <1>4 DEF Requests, Steps
    <3>2. QED
      BY <1>4, <2>1, <3>1 DEF Claim, Moves, Requests
  <2>2. CASE \E s \in {"rejected", "cancelled"} : End(h, i, s)
    <3>1. [req[h] EXCEPT !.step = "refund", !.transfer = i] \in Requests
      BY <1>4 DEF Requests, Steps
    <3>2. PICK s \in {"rejected", "cancelled"} : End(h, i, s)
      BY <2>2
    <3>3. SetStatus(i, s) /\ Moves(h, [req[h] EXCEPT !.step = "refund", !.transfer = i])
      BY <3>2 DEF End, Moves
    <3>4. /\ [req[h] EXCEPT !.step = "refund", !.transfer = i].transfer = i
          /\ [req[h] EXCEPT !.step = "refund", !.transfer = i].step = "refund"
      BY <1>4 DEF Requests
    <3>5. QED
      BY <3>1, <3>3, <3>4
  <2>3. QED
    BY <2>1, <2>2
<1>6. req'[h] = r /\ \A k \in Handlers : k # h => req'[k] = req[k]
  BY <1>1, <1>5, Others
<1>7. /\ transfers' \in Seq(Transfers) /\ Len(transfers') = Len(transfers) /\ Ids' = Ids
      /\ transfers'[i].status = s /\ \A j \in Ids : j # i => transfers'[j] = transfers[j]
  BY <1>1, <1>5, Statused DEF Statuses
<1>8. TypeOK'
  <2>1. UNCHANGED <<owner, alive, incusId, hostName>> /\ Ids \subseteq Ids' /\ Len(transfers') <= MaxTransfers
    BY <1>1, <1>2, <1>7 DEF instance, TypeOK
  <2>2. QED
    BY <1>1, <1>2, <1>5, <1>7, <2>1, StepType DEF TypeOK
<1>9. FeeInv'
  <2>1. \A j : ~On(req[h], j) /\ (On(r, j) <=> j = i)
    BY <1>2, <1>5 DEF On, Engaged, Working, At
  <2>2. \A k \in Handlers : req'[k].step \in Engaged => req'[k].transfer \in Ids'
    BY <1>1, <1>5, <1>6, <1>7 DEF FeeInv
  <2>3. ASSUME NEW j \in Ids, j # i
        PROVE  /\ Settling(j)' + Count(transfers'[j].status \in {"pending", "accepted"}) <= 1 + overtaken'[j]
               /\ transfers'[j].status = "processing" /\ Workers(j)' = {} => Settling(j)' <= overtaken'[j]
    <3>1. UNCHANGED <<transfers[j], refunds[j], overtaken[j]>>
      BY <1>2, <1>7, <2>3
    <3>2. QED
      BY <1>1, <1>5, <2>1, <2>3, <3>1, FeeOthers
  <2>4. /\ Settling(i)' + Count(transfers'[i].status \in {"pending", "accepted"}) <= 1 + overtaken'[i]
        /\ transfers'[i].status = "processing" /\ Workers(i)' = {} => Settling(i)' <= overtaken'[i]
    <3>1. Cardinality(Busy(i)) \in Nat /\ Cardinality(Busy(i)') = Cardinality(Busy(i)) + 1
      BY <1>1, <1>5, <2>1, BusyMoves, BusyFacts DEF Count
    <3>2. Settling(i)' = Settling(i) + 1 /\ Settling(i) \in Nat /\ overtaken[i] \in Nat
      BY <1>1, <1>2, <3>1, Numbers DEF Settling
    <3>3. Settling(i) + 1 <= 1 + overtaken[i]
      BY <1>1, <1>2 DEF FeeInv, Count
    <3>4. transfers'[i].status \notin {"pending", "accepted"}
      BY <1>5, <1>7
    <3>5. transfers'[i].status = "processing" => h \in Workers(i)'
      BY <1>5, <1>6, <1>7 DEF Workers, Working
    <3>6. QED
      BY <1>2, <3>2, <3>3, <3>4, <3>5 DEF Count
  <2>5. QED
    BY <1>1, <1>2, <1>7, <2>2, <2>3, <2>4 DEF FeeInv
<1>10. EnvInv'
  BY <1>1, <1>2, <1>5, QuietMoves DEF Naming, Renaming, Destroying
<1>11. QED
  BY <1>8, <1>9, <1>10 DEF IInv

\* A worker writes the row a last time, whatever the row has become.
LEMMA WorkerEnds ==
  ASSUME IInv, NEW h \in Handlers, req[h].step \in Working,
         NEW s \in {"cancelled", "pending", "accepted"}, SetStatus(req[h].transfer, s), Finish(h),
         owner' \in Users, incusId' \in Names, UNCHANGED <<alive, hostName, refunds, server>>
  PROVE  TypeOK' /\ FeeInv'
<1>0. PICK i : i = req[h].transfer
  OBVIOUS
<1>1. TypeOK /\ FeeInv
  BY DEF IInv
<1>2. i \in Ids
  BY <1>0, <1>1 DEF FeeInv, Engaged
<1>3. Moves(h, NoRequest) /\ NoRequest \in Requests /\ NoRequest.step = "idle"
  BY <1>1, Finishing
<1>4. req'[h] = NoRequest /\ \A k \in Handlers : k # h => req'[k] = req[k]
  BY <1>1, <1>3, Others
<1>5. /\ transfers' \in Seq(Transfers) /\ Len(transfers') = Len(transfers) /\ Ids' = Ids
      /\ transfers'[i].status = s /\ \A j \in Ids : j # i => transfers'[j] = transfers[j]
  BY <1>0, <1>1, <1>2, Statused DEF Statuses
<1>6. UNCHANGED <<overtaken, names, booting, restarts>>
  BY DEF server
<1>7. TypeOK'
  <2>1. Ids \subseteq Ids' /\ Len(transfers') <= MaxTransfers
    BY <1>1, <1>5 DEF TypeOK
  <2>2. QED
    BY <1>1, <1>3, <1>5, <1>6, <2>1, StepType DEF TypeOK
<1>8. \A j : (On(req[h], j) <=> j = i) /\ ~On(NoRequest, j)
  BY <1>0, <1>3 DEF On, Engaged, Working
<1>9. ASSUME NEW j \in Ids, j # i
      PROVE  /\ Settling(j)' + Count(transfers'[j].status \in {"pending", "accepted"}) <= 1 + overtaken'[j]
             /\ transfers'[j].status = "processing" /\ Workers(j)' = {} => Settling(j)' <= overtaken'[j]
  <2>1. UNCHANGED <<transfers[j], refunds[j], overtaken[j]>>
    BY <1>5, <1>6, <1>9
  <2>2. QED
    BY <1>1, <1>3, <1>8, <1>9, <2>1, FeeOthers
<1>10. /\ Settling(i)' + Count(transfers'[i].status \in {"pending", "accepted"}) <= 1 + overtaken'[i]
       /\ transfers'[i].status # "processing"
  <2>1. Cardinality(Busy(i)) \in Nat /\ Cardinality(Busy(i)') = Cardinality(Busy(i)) - 1
    BY <1>1, <1>3, <1>8, BusyMoves, BusyFacts DEF Count
  <2>2. Settling(i)' = Settling(i) - 1 /\ Settling(i) \in Nat /\ overtaken[i] \in Nat
    BY <1>1, <1>2, <2>1, Numbers DEF Settling
  <2>3. Settling(i) <= 1 + overtaken[i]
    BY <1>1, <1>2, <2>2 DEF FeeInv, Count
  <2>4. QED
    BY <1>5, <1>6, <2>2, <2>3 DEF Count
<1>11. FeeInv'
  <2>1. \A k \in Handlers : req'[k].step \in Engaged => req'[k].transfer \in Ids'
    BY <1>1, <1>3, <1>4, <1>5 DEF FeeInv, Engaged, Working
  <2>2. QED
    BY <1>1, <1>5, <1>6, <1>9, <1>10, <2>1 DEF FeeInv
<1>12. QED
  BY <1>7, <1>11

\* The instance is gone, or the attempt is over: owner and names stay.
LEMMA ReleasingSteps ==
  ASSUME IInv, NEW h \in Handlers, CheckGone(h) \/ Release(h)
  PROVE  IInv'
<1>1. /\ req[h].step \in Working /\ Finish(h) /\ UNCHANGED <<instance, refunds, server>>
      /\ \E s \in {"cancelled", "pending", "accepted"} : SetStatus(req[h].transfer, s)
  BY DEF CheckGone, Release, Working, At
<1>2. TypeOK /\ EnvInv /\ UNCHANGED <<owner, alive, incusId, hostName, names>>
  BY <1>1 DEF IInv, instance, server
<1>3. TypeOK' /\ FeeInv'
  BY <1>1, <1>2, WorkerEnds DEF TypeOK
<1>4. Moves(h, NoRequest) /\ NoRequest \in Requests /\ NoRequest.step = "idle"
  BY <1>1, <1>2, Finishing
<1>5. EnvInv'
  BY <1>1, <1>2, <1>4, QuietMoves DEF Naming, Renaming, Destroying
<1>6. QED
  BY <1>3, <1>5 DEF IInv

\* The instance changes hands: nobody else has renamed the container, and the name
\* a deletion under way has read is one the instance no longer has.
LEMMA ExecuteKeeps ==
  ASSUME IInv, NEW h \in Handlers, Execute(h)
  PROVE  IInv'
<1>1. TypeOK /\ FeeInv /\ EnvInv
  BY DEF IInv
<1>2. /\ req[h].step \in Working /\ req[h].step \in Renaming /\ req[h].step \in Naming
      /\ \A k \in Handlers : k # h => req[k].step \notin Renaming
  <2>1. /\ req[h].step \in Working /\ req[h].step \in Renaming /\ req[h].step \in Naming
    BY DEF Execute, Working, Naming, Renaming, At
  <2>2. QED
    BY <1>1, <2>1 DEF EnvInv, NameInv, Naming
<1>3. /\ UNCHANGED <<alive, hostName, refunds, server, names>> /\ Finish(h)
      /\ owner' \in Users /\ incusId' = req[h].new /\ incusId' \in Names
      /\ SetStatus(req[h].transfer, "accepted")
  <2>1. req[h].transfer \in Ids /\ req[h] \in Requests
    BY <1>1, <1>2, Shapes DEF FeeInv, Engaged
  <2>2. transfers[req[h].transfer] \in Transfers
    BY <1>1, <2>1, Shapes
  <2>3. QED
    BY <2>1, <2>2 DEF Execute, Requests, Transfers, server
<1>4. TypeOK' /\ FeeInv'
  BY <1>2, <1>3, WorkerEnds
<1>5. Moves(h, NoRequest) /\ NoRequest.step = "idle"
  BY <1>1, <1>3, Finishing
<1>6. req'[h] = NoRequest /\ \A k \in Handlers : k # h => req'[k] = req[k]
  BY <1>1, <1>5, Others
<1>7. /\ incusId' = req[h].new /\ hostName = req[h].new /\ req[h].new <= names
      /\ \A k \in Handlers : req[k].step \in Naming \cup Destroying => req[k].old # req[h].new
      /\ \A k \in Handlers : req[k].step \in Naming /\ req[k].new = req[h].new => k = h
  BY <1>1, <1>2, <1>3 DEF EnvInv, NameInv
<1>8. EnvInv'
  <2>1. UserInv'
    BY <1>1, <1>5, <1>6 DEF EnvInv, UserInv
  <2>2. \A k \in Handlers : /\ req'[k].step \notin Renaming
                            /\ req'[k].step \in Naming \cup Destroying => k # h /\ req'[k] = req[k]
    BY <1>2, <1>5, <1>6 DEF Naming, Renaming, Destroying
  <2>3. NameInv'
    <3>1. \A k \in Handlers : req'[k].step \in Naming => incusId' # req'[k].new
      BY <1>7, <2>2
    <3>2. UNCHANGED <<hostName, names>>
      BY <1>3
    <3>3. QED
      BY <1>1, <1>7, <2>2, <3>1, <3>2 DEF NameInv, EnvInv
  <2>4. \A k \in Handlers : At(k, "delete")' => Retired(req[k].old)'
    <3>1. SUFFICES ASSUME NEW k \in Handlers, At(k, "delete")' PROVE Retired(req[k].old)'
      OBVIOUS
    <3>2. k # h /\ req'[k] = req[k] /\ req[k].step \in Destroying
      BY <1>5, <1>6, <3>1 DEF At, Destroying
    <3>3. req[k].old # req[h].new
      BY <1>7, <3>2
    <3>4. QED
      BY <1>3, <1>7, <2>2, <3>2, <3>3 DEF Retired
  <2>5. DestroyInv'
    BY <1>1, <1>3, <1>5, <1>6, <2>4 DEF EnvInv, DestroyInv, At
  <2>6. QED
    BY <2>1, <2>3, <2>5 DEF EnvInv
<1>9. QED
  BY <1>4, <1>8 DEF IInv

\* A fee goes back: one request less that owes it.
LEMMA RefundKeeps ==
  ASSUME IInv, NEW h \in Handlers, Refund(h)
  PROVE  IInv'
<1>0. PICK i : i = req[h].transfer
  OBVIOUS
<1>1. TypeOK /\ FeeInv /\ EnvInv
  BY DEF IInv
<1>2. /\ UNCHANGED <<instance, transfers, overtaken, names, booting, restarts>> /\ Ids' = Ids
      /\ UNCHANGED <<owner, alive, incusId, hostName>>
  BY DEF Refund, server, instance, Ids
<1>3. Moves(h, NoRequest) /\ NoRequest \in Requests /\ NoRequest.step = "idle"
  BY <1>1, Finishing DEF Refund
<1>4. req'[h] = NoRequest /\ \A k \in Handlers : k # h => req'[k] = req[k]
  BY <1>1, <1>3, Others
<1>5. i \in Ids /\ i \in 1..MaxTransfers /\ \A j : (On(req[h], j) <=> j = i) /\ ~On(NoRequest, j)
  BY <1>0, <1>1, <1>3, Shapes DEF Refund, FeeInv, On, Engaged, Working, At
<1>6. /\ refunds' \in [1..MaxTransfers -> Nat] /\ refunds'[i] = refunds[i] + 1
      /\ \A j \in 1..MaxTransfers : j # i => refunds'[j] = refunds[j]
  BY <1>0, <1>1, <1>5 DEF Refund, TypeOK
<1>7. TypeOK'
  BY <1>1, <1>2, <1>3, <1>6, StepType DEF TypeOK, Transfers
<1>8. FeeInv'
  <2>1. \A k \in Handlers : req'[k].step \in Engaged => req'[k].transfer \in Ids'
    BY <1>1, <1>2, <1>3, <1>4 DEF FeeInv, Engaged, Working
  <2>2. ASSUME NEW j \in Ids, j # i
        PROVE  /\ Settling(j)' + Count(transfers'[j].status \in {"pending", "accepted"}) <= 1 + overtaken'[j]
               /\ transfers'[j].status = "processing" /\ Workers(j)' = {} => Settling(j)' <= overtaken'[j]
    <3>1. UNCHANGED <<transfers[j], refunds[j], overtaken[j]>>
      BY <1>1, <1>2, <1>6, <2>2, Shapes
    <3>2. QED
      BY <1>1, <1>3, <1>5, <2>2, <3>1, FeeOthers
  <2>3. Settling(i)' = Settling(i)
    <3>1. Cardinality(Busy(i)) \in Nat /\ Cardinality(Busy(i)') = Cardinality(Busy(i)) - 1
      BY <1>1, <1>3, <1>5, BusyMoves, BusyFacts DEF Count
    <3>2. QED
      BY <1>1, <1>5, <1>6, <3>1, Numbers DEF Settling
  <2>4. Workers(i)' = {} => Workers(i) = {}
    BY <1>1, <1>3, WorkersMove DEF Refund, At, Working
  <2>5. QED
    BY <1>1, <1>2, <1>5, <1>6, <2>1, <2>2, <2>3, <2>4 DEF FeeInv
<1>9. EnvInv'
  BY <1>1, <1>2, <1>3, QuietMoves DEF Naming, Renaming, Destroying
<1>10. QED
  BY <1>7, <1>8, <1>9 DEF IInv

\* The pending transfers of a destroyed instance are cancelled; whose work goes on
\* keeps its row.
LEMMA CancelOpenKeeps ==
  ASSUME IInv, NEW h \in Handlers, CancelOpen(h)
  PROVE  IInv'
<1>1. TypeOK /\ FeeInv /\ EnvInv
  BY DEF IInv
<1>2. /\ UNCHANGED <<instance, refunds, overtaken, names, booting, restarts>>
      /\ UNCHANGED <<owner, alive, incusId, hostName>>
  BY DEF CancelOpen, server, instance
<1>3. Moves(h, NoRequest) /\ NoRequest \in Requests /\ NoRequest.step = "idle"
  BY <1>1, Finishing DEF CancelOpen
<1>4. req'[h] = NoRequest /\ \A k \in Handlers : k # h => req'[k] = req[k]
  BY <1>1, <1>3, Others
<1>6. /\ transfers' \in Seq(Transfers) /\ Len(transfers') = Len(transfers) /\ Ids' = Ids
      /\ \A i \in Ids : transfers'[i].status = IF transfers[i].status = "pending"
                                              THEN "cancelled" ELSE transfers[i].status
  BY <1>1, Mapped DEF CancelOpen, Pending, Statuses
<1>7. TypeOK'
  BY <1>1, <1>2, <1>3, <1>6, StepType DEF TypeOK
<1>8. FeeInv'
  <2>1. \A k \in Handlers : req'[k].step \in Engaged => req'[k].transfer \in Ids'
    BY <1>1, <1>3, <1>4, <1>6 DEF FeeInv, Engaged, Working
  <2>2. \A i : ~On(req[h], i) /\ ~On(NoRequest, i)
    BY <1>3 DEF On, Engaged, Working, CancelOpen, At
  <2>3. ASSUME NEW i \in Ids
        PROVE  /\ Settling(i)' + Count(transfers'[i].status \in {"pending", "accepted"}) <= 1 + overtaken'[i]
               /\ transfers'[i].status = "processing" /\ Workers(i)' = {} => Settling(i)' <= overtaken'[i]
    <3>1. Cardinality(Busy(i)') = Cardinality(Busy(i)) /\ (Workers(i)' = {} => Workers(i) = {})
      BY <1>1, <1>3, <2>2, BusyMoves, BusyFacts, WorkersMove DEF Count
    <3>2. Settling(i)' = Settling(i) /\ Settling(i) \in Nat /\ overtaken'[i] = overtaken[i]
      BY <1>1, <1>2, <3>1, Numbers DEF Settling
    <3>3. QED
      BY <1>1, <1>6, <3>1, <3>2, Numbers DEF FeeInv, Count
  <2>4. QED
    BY <1>1, <1>2, <1>6, <2>1, <2>3 DEF FeeInv
<1>9. EnvInv'
  BY <1>1, <1>2, <1>3, QuietMoves DEF Naming, Renaming, Destroying
<1>10. QED
  BY <1>7, <1>8, <1>9 DEF IInv

-------------------------------------------------------------------------------
(* Maintenance *)

\* What a clean-up does to the row of one transfer.
LEMMA RowTaken ==
  ASSUME TypeOK, FeeInv, NEW i \in Ids, transfers[i].status = "processing",
         transfers'[i].status = "pending", UNCHANGED <<req, refunds>>, overtaken'[i] = overtaken[i] + Loss(i)
  PROVE  /\ Settling(i)' + Count(transfers'[i].status \in {"pending", "accepted"}) <= 1 + overtaken'[i]
         /\ transfers'[i].status # "processing"
<1>1. Settling(i)' = Settling(i) /\ Settling(i) \in Nat /\ overtaken[i] \in Nat
  BY Numbers DEF Settling, Busy, On
<1>2. IF Workers(i) = {} THEN Settling(i) <= overtaken[i] ELSE Settling(i) <= 1 + overtaken[i]
  BY <1>1 DEF FeeInv, Count
<1>3. QED
  BY <1>1, <1>2 DEF Loss, Count

\* And to those it leaves alone.
LEMMA RowLeft ==
  ASSUME TypeOK, FeeInv, NEW i \in Ids, UNCHANGED <<req, refunds, transfers[i], overtaken[i]>>
  PROVE  /\ Settling(i)' + Count(transfers'[i].status \in {"pending", "accepted"}) <= 1 + overtaken'[i]
         /\ transfers'[i].status = "processing" /\ Workers(i)' = {} => Settling(i)' <= overtaken'[i]
<1>1. Settling(i)' = Settling(i) /\ Workers(i)' = Workers(i)
  BY DEF Settling, Busy, On, Workers
<1>2. QED
  BY <1>1 DEF FeeInv

\* Names, container and requests stay.
LEMMA EnvKept ==
  ASSUME EnvInv, UNCHANGED <<owner, alive, incusId, hostName, req, names>>
  PROVE  EnvInv'
BY DEF EnvInv, UserInv, NameInv, DestroyInv, Retired, At

\* The sweep puts a transfer back, with a request at work on it or not.
LEMMA SweepKeeps ==
  ASSUME IInv, NEW i \in Ids, Sweep(i)
  PROVE  IInv'
<1>1. TypeOK /\ FeeInv /\ EnvInv
  BY DEF IInv
<1>2. UNCHANGED <<owner, alive, incusId, hostName, refunds, req, names, booting, restarts>>
  BY DEF Sweep, instance
<1>3. /\ transfers' \in Seq(Transfers) /\ Len(transfers') = Len(transfers) /\ Ids' = Ids
      /\ transfers'[i].status = "pending" /\ \A j \in Ids : j # i => transfers'[j] = transfers[j]
  BY <1>1, Statused DEF Sweep, Statuses
<1>4. i \in 1..MaxTransfers /\ Loss(i) \in Nat
  BY <1>1, Shapes DEF Loss
<1>5. /\ overtaken' \in [1..MaxTransfers -> Nat] /\ overtaken'[i] = overtaken[i] + Loss(i)
      /\ \A j \in 1..MaxTransfers : j # i => overtaken'[j] = overtaken[j]
  BY <1>1, <1>4 DEF Sweep, TypeOK
<1>6. TypeOK'
  BY <1>1, <1>2, <1>3, <1>5 DEF TypeOK, Transfers
<1>7. FeeInv'
  <2>1. \A j \in Ids : j # i => UNCHANGED <<transfers[j], overtaken[j]>>
    BY <1>1, <1>3, <1>5, Shapes
  <2>2. \A j \in Ids : j # i =>
          /\ Settling(j)' + Count(transfers'[j].status \in {"pending", "accepted"}) <= 1 + overtaken'[j]
          /\ transfers'[j].status = "processing" /\ Workers(j)' = {} => Settling(j)' <= overtaken'[j]
    BY <1>1, <1>2, <2>1, RowLeft
  <2>3. /\ Settling(i)' + Count(transfers'[i].status \in {"pending", "accepted"}) <= 1 + overtaken'[i]
        /\ transfers'[i].status # "processing"
    BY <1>1, <1>2, <1>3, <1>5, RowTaken DEF Sweep, Stuck
  <2>4. QED
    BY <1>1, <1>2, <1>3, <1>5, <2>2, <2>3 DEF FeeInv
<1>8. EnvInv'
  BY <1>1, <1>2, EnvKept
<1>9. QED
  BY <1>6, <1>7, <1>8 DEF IInv

\* After a crash nobody works, whatever is left on the host.
LEMMA CrashKeeps ==
  ASSUME IInv, Crash
  PROVE  IInv'
<1>1. TypeOK /\ FeeInv /\ EnvInv
  BY DEF IInv
<1>2. /\ UNCHANGED <<owner, alive, incusId, transfers, refunds, overtaken, names>> /\ Ids' = Ids
      /\ booting' = TRUE /\ restarts' = restarts + 1
      /\ req' = [h \in Handlers |-> NoRequest]
  BY DEF Crash, Ids
<1>3. \A h \in Handlers : req'[h] = NoRequest
  BY <1>2
<1>4. NoRequest \in Requests /\ NoRequest.step = "idle"
  BY <1>1, Shapes DEF NoRequest
<1>5. hostName' = hostName \/ \E h \in Handlers : At(h, "rename") /\ hostName' = req[h].new
  BY DEF Crash
<1>6. /\ hostName' \in Names \cup {None}
      /\ hostName' # None => hostName' <= names
  BY <1>1, <1>5, Shapes DEF TypeOK, EnvInv, NameInv, Naming, Renaming, At
<1>7. TypeOK'
  <2>1. req' \in [Handlers -> Requests] /\ Requests' = Requests
    BY <1>2, <1>4 DEF Requests
  <2>2. restarts' \in Nat
    BY <1>1, <1>2, InstanceTransferAssumption DEF TypeOK
  <2>3. QED
    BY <1>1, <1>2, <1>6, <2>1, <2>2 DEF TypeOK, Requests
<1>8. FeeInv'
  <2>1. \A i : Busy(i)' = {} /\ Cardinality(Busy(i)') = 0
    BY <1>3, <1>4, FS_EmptySet DEF Busy, On, Engaged, Working
  <2>2. ASSUME NEW i \in Ids
        PROVE  /\ Settling(i)' + Count(transfers'[i].status \in {"pending", "accepted"}) <= 1 + overtaken'[i]
               /\ transfers'[i].status = "processing" /\ Workers(i)' = {} => Settling(i)' <= overtaken'[i]
    <3>1. Settling(i)' = refunds[i] /\ refunds[i] \in Nat /\ overtaken'[i] = overtaken[i] /\ overtaken[i] \in Nat
      BY <1>1, <1>2, <2>1, Numbers DEF Settling
    <3>2. Cardinality(Busy(i)) \in Nat /\ (Workers(i) # {} => Cardinality(Busy(i)) >= 1)
      BY BusyFacts
    <3>3. QED
      BY <1>1, <1>2, <3>1, <3>2 DEF FeeInv, Settling, Count
  <2>3. \A k \in Handlers : req'[k].step \in Engaged => req'[k].transfer \in Ids'
    BY <1>3, <1>4 DEF Engaged, Working
  <2>4. QED
    BY <1>1, <1>2, <2>2, <2>3 DEF FeeInv
<1>9. EnvInv'
  BY <1>1, <1>2, <1>3, <1>4, <1>6 DEF EnvInv, UserInv, NameInv, DestroyInv, Naming, Renaming, Destroying, At
<1>10. QED
  BY <1>7, <1>8, <1>9 DEF IInv

\* The clean-up after a start puts every transfer back.
LEMMA BootKeeps ==
  ASSUME IInv, BootCleanup
  PROVE  IInv'
<1>1. TypeOK /\ FeeInv /\ EnvInv
  BY DEF IInv
<1>2. UNCHANGED <<owner, alive, incusId, hostName, refunds, req, names, restarts>> /\ booting' = FALSE
  BY DEF BootCleanup, instance
<1>3. /\ transfers' \in Seq(Transfers) /\ Len(transfers') = Len(transfers) /\ Ids' = Ids
      /\ \A i \in Ids : transfers'[i] = IF Stuck(i) THEN [transfers[i] EXCEPT !.status = "pending"] ELSE transfers[i]
      /\ \A i \in Ids : Stuck(i) => transfers'[i].status = "pending"
  <2>1. transfers' = [i \in Ids |-> IF transfers[i].status = "processing"
                                    THEN [transfers[i] EXCEPT !.status = "pending"] ELSE transfers[i]]
    BY DEF BootCleanup, Stuck
  <2>2. /\ transfers' \in Seq(Transfers) /\ Len(transfers') = Len(transfers) /\ Ids' = Ids
        /\ \A i \in Ids : transfers'[i] = IF transfers[i].status = "processing"
                                         THEN [transfers[i] EXCEPT !.status = "pending"] ELSE transfers[i]
        /\ \A i \in Ids : transfers'[i].status = IF transfers[i].status = "processing"
                                                THEN "pending" ELSE transfers[i].status
    BY <1>1, <2>1, Mapped DEF Statuses
  <2>3. QED
    BY <2>2 DEF Stuck
<1>4. /\ \A i \in 1..MaxTransfers : overtaken'[i] = IF i \in Ids /\ Stuck(i) THEN overtaken[i] + Loss(i)
                                                                            ELSE overtaken[i]
      /\ overtaken' \in [1..MaxTransfers -> Nat]
  BY <1>1 DEF BootCleanup, TypeOK, Loss
<1>5. TypeOK'
  BY <1>1, <1>2, <1>3, <1>4 DEF TypeOK, Transfers
<1>6. FeeInv'
  <2>1. ASSUME NEW i \in Ids, Stuck(i)
        PROVE  /\ Settling(i)' + Count(transfers'[i].status \in {"pending", "accepted"}) <= 1 + overtaken'[i]
               /\ transfers'[i].status # "processing"
    BY <1>1, <1>2, <1>3, <1>4, <2>1, RowTaken, Shapes DEF Stuck
  <2>2. ASSUME NEW i \in Ids, ~Stuck(i)
        PROVE  /\ Settling(i)' + Count(transfers'[i].status \in {"pending", "accepted"}) <= 1 + overtaken'[i]
               /\ transfers'[i].status = "processing" /\ Workers(i)' = {} => Settling(i)' <= overtaken'[i]
    <3>1. UNCHANGED <<transfers[i], overtaken[i]>>
      BY <1>1, <1>3, <1>4, <2>2, Shapes
    <3>2. QED
      BY <1>1, <1>2, <3>1, RowLeft
  <2>3. \A i \in 1..MaxTransfers : i \notin Ids' => refunds'[i] = 0 /\ overtaken'[i] = 0
    BY <1>1, <1>2, <1>3, <1>4 DEF FeeInv
  <2>4. \A k \in Handlers : req'[k].step \in Engaged => req'[k].transfer \in Ids'
    BY <1>1, <1>2, <1>3 DEF FeeInv
  <2>5. QED
    BY <1>3, <2>1, <2>2, <2>3, <2>4 DEF FeeInv
<1>7. EnvInv'
  BY <1>1, <1>2, EnvKept
<1>8. QED
  BY <1>5, <1>6, <1>7 DEF IInv

-------------------------------------------------------------------------------
(* The theorems *)

\* Nothing has been transferred yet.
LEMMA InitInv == Init => IInv
<1> SUFFICES ASSUME Init PROVE IInv
  OBVIOUS
<1>1. NoRequest \in Requests /\ NoRequest.step = "idle" /\ 0 \in Names /\ Ids = {}
  BY InstanceTransferAssumption DEF Init, Ids, NoRequest, Requests, Steps, Names
<1>2. \A h \in Handlers : req[h] = NoRequest
  BY DEF Init
<1>3. TypeOK
  <2>1. req \in [Handlers -> Requests] /\ refunds \in [1..MaxTransfers -> Nat]
         /\ overtaken \in [1..MaxTransfers -> Nat]
    BY <1>1 DEF Init
  <2>2. transfers \in Seq(Transfers) /\ Len(transfers) <= MaxTransfers
    BY InstanceTransferAssumption DEF Init
  <2>3. /\ owner \in Users /\ alive \in BOOLEAN /\ incusId \in Names /\ hostName \in Names \cup {None}
        /\ names \in Names /\ booting \in BOOLEAN /\ restarts \in Nat
    BY <1>1, InstanceTransferAssumption DEF Init
  <2>4. QED
    BY <2>1, <2>2, <2>3 DEF TypeOK, Requests, Transfers
<1>4. FeeInv
  BY <1>1, <1>2 DEF Init, FeeInv, Engaged, Working
<1>5. EnvInv
  BY <1>1, <1>2 DEF Init, EnvInv, UserInv, NameInv, DestroyInv, Naming, Renaming, Destroying, At
<1>6. QED
  BY <1>3, <1>4, <1>5 DEF IInv

\* Every step keeps the invariant.
LEMMA NextInv == IInv /\ [Next]_vars => IInv'
<1> SUFFICES ASSUME IInv, [Next]_vars PROVE IInv'
  OBVIOUS
<1>1. ASSUME NEW h \in Handlers, Arrive(h) PROVE IInv'
  <2>1. CASE \E u \in Users : StartCreate(h, u) \/ StartDestroy(h, u)
    BY <2>1, PlainSteps
  <2>2. CASE \E i \in Ids : Accept(h, i) \/ Push(h, i) \/ Reject(h, i) \/ Cancel(h, i)
    BY <2>2, TakingSteps DEF Accept, Push, Reject, Cancel
  <2>3. QED
    BY <1>1, <2>1, <2>2 DEF Arrive
<1>2. ASSUME NEW h \in Handlers, Worker(h) PROVE IInv'
  BY <1>2, PlainSteps, CheckPassedKeeps, NamingSteps, ReleasingSteps, ExecuteKeeps DEF Worker
<1>3. ASSUME NEW h \in Handlers, Destroyer(h) PROVE IInv'
  BY <1>3, DestroyingSteps, CancelOpenKeeps DEF Destroyer
<1>4. ASSUME NEW h \in Handlers, Continue(h) PROVE IInv'
  BY <1>2, <1>3, <1>4, FinishCreateKeeps, RefundKeeps, PlainSteps DEF Continue
<1>5. CASE UNCHANGED vars
  <2>1. UNCHANGED <<owner, alive, incusId, hostName, transfers, refunds, req, overtaken, names, booting, restarts>>
    BY <1>5 DEF vars, instance
  <2>2. Ids' = Ids
    BY <2>1 DEF Ids
  <2>3. TypeOK'
    BY <2>1, <2>2 DEF IInv, TypeOK
  <2>4. FeeInv'
    BY <2>1, <2>2 DEF IInv, FeeInv, Settling, Busy, On, Workers
  <2>5. EnvInv'
    BY <2>1, EnvKept DEF IInv
  <2>6. QED
    BY <2>3, <2>4, <2>5 DEF IInv
<1>6. QED
  BY <1>1, <1>4, <1>5, SweepKeeps, CrashKeeps, BootKeeps DEF Next

\* The invariant holds throughout.
LEMMA Invariance == Spec => []IInv
BY InitInv, NextInv, PTL DEF Spec

\* Every variable keeps its type: transfers are added and never lost, and each
\* request under way works on one that exists (createTransferWithFee,
\* executeTransfer, claimInstanceForUserDestroy).
THEOREM TypeCorrect == Spec => []TypeOK
<1>1. IInv => TypeOK
  BY DEF IInv
<1>2. QED
  BY Invariance, <1>1, PTL

\* Between the rename and executeTransfer a request is alone, also when the sweep or
\* the clean-up after a start gave the row it works on to another.
THEOREM OneHandsOver == Spec => []HandsOverAlone
<1>1. IInv => HandsOverAlone
  BY DEF IInv, EnvInv, NameInv, HandsOverAlone, Naming, Renaming
<1>2. QED
  BY Invariance, <1>1, PTL

\* A transfer's fee is settled once (refundTransferFee, executeTransfer), and beyond
\* that at most once for each row a clean-up took from a request at work.
THEOREM FeesSettleOnce == Spec => []FeeSettledOnce
<1>1. IInv => FeeSettledOnce
  <2> SUFFICES ASSUME IInv, NEW i \in Ids
               PROVE  refunds[i] + Count(transfers[i].status \in {"pending", "processing", "accepted"})
                         <= 1 + overtaken[i]
    BY DEF FeeSettledOnce
  <2>1. /\ refunds[i] \in Nat /\ overtaken[i] \in Nat
        /\ Cardinality(Busy(i)) \in Nat /\ (Workers(i) # {} => Cardinality(Busy(i)) >= 1)
    BY Numbers, BusyFacts DEF IInv
  <2>2. QED
    BY <2>1 DEF IInv, FeeInv, Settling, Count
<1>2. QED
  BY Invariance, <1>1, PTL

\* executeTransfer records the name the container has, for only its own request
\* has renamed it since the check and no deletion under way is about the new name.
THEOREM RecordedNamesAreReal == Spec => RecordedNameIsReal
<1> DEFINE Real == \A i \in Ids :
                      transfers[i].status # "accepted" /\ transfers'[i].status = "accepted"
                          => hostName = incusId'
<1>1. IInv /\ [Next]_vars => [Real]_vars
  <2> SUFFICES ASSUME IInv, Next, NEW i \in Ids,
                      transfers[i].status # "accepted", transfers'[i].status = "accepted"
               PROVE  hostName = incusId'
    OBVIOUS
  <2>1. TypeOK /\ FeeInv /\ NameInv
    BY DEF IInv, EnvInv
  <2>2. \A j \in Ids, s \in Statuses : SetStatus(j, s) => s = "accepted"
    BY <2>1, Statused
  <2>3. ASSUME NEW s \in Statuses, NEW P, s # "accepted",
               transfers' = [j \in Ids |-> IF transfers[j].status = P
                                           THEN [transfers[j] EXCEPT !.status = s] ELSE transfers[j]]
        PROVE  FALSE
    BY <2>1, <2>3, Mapped
  <2>4. ASSUME NEW h \in Handlers, Execute(h) PROVE hostName = incusId'
    BY <2>1, <2>4 DEF Execute, NameInv, Naming, Renaming, At
  <2>5. ASSUME NEW h \in Handlers, CheckGone(h) \/ Release(h) PROVE FALSE
    <3>1. req[h].transfer \in Ids
      BY <2>1, <2>5 DEF CheckGone, Release, FeeInv, Engaged, Working, At
    <3>2. QED
      BY <2>2, <2>5, <3>1 DEF CheckGone, Release, Statuses
  <2>6. ASSUME NEW h \in Handlers, NEW v \in Users, FinishCreate(h, v) PROVE FALSE
    <3>1. transfers \in Seq(Transfers) /\ i \in 1..Len(transfers)
      BY <2>1, Shapes
    <3>2. transfers'[i] = transfers[i]
      BY <2>6, <3>1 DEF FinishCreate
    <3>3. QED
      BY <3>2
  <2>7. ASSUME NEW h \in Handlers, NEW j \in Ids, Claim(h, j) \/ End(h, j, "rejected") \/ End(h, j, "cancelled")
        PROVE  FALSE
    BY <2>2, <2>7 DEF Claim, End, Statuses
  <2>8. ASSUME NEW h \in Handlers, CancelOpen(h) PROVE FALSE
    BY <2>3, <2>8 DEF CancelOpen, Pending, Statuses
  <2>9. CASE BootCleanup
    BY <2>3, <2>9 DEF BootCleanup, Stuck, Statuses
  <2>10. ASSUME NEW j \in Ids, Sweep(j) PROVE FALSE
    BY <2>2, <2>10 DEF Sweep, Statuses
  <2>11. CASE UNCHANGED transfers
    BY <2>11
  <2>12. ASSUME NEW h \in Handlers, Arrive(h) PROVE hostName = incusId'
    BY <2>7, <2>11, <2>12 DEF Arrive, StartCreate, StartDestroy, Accept, Push, Reject, Cancel
  <2>13. ASSUME NEW h \in Handlers, Worker(h) PROVE hostName = incusId'
    BY <2>4, <2>5, <2>11, <2>13 DEF Worker, CheckRefused, CheckPassed, Renamed, RenameFails, ExecuteFails, Unrename
  <2>14. ASSUME NEW h \in Handlers, Destroyer(h) PROVE hostName = incusId'
    BY <2>8, <2>11, <2>14 DEF Destroyer, ClaimDestroy, DeleteContainer, DeleteFails, Undelete
  <2>15. ASSUME NEW h \in Handlers, Continue(h) PROVE hostName = incusId'
    BY <2>6, <2>11, <2>13, <2>14, <2>15 DEF Continue, Refund, GiveUp
  <2>16. QED
    BY <2>9, <2>10, <2>11, <2>12, <2>15 DEF Next, Crash
<1>2. QED
  BY Invariance, <1>1, PTL DEF RecordedNameIsReal, Spec

\* A deletion on the host (claimInstanceForUserDestroy and what follows) hits the
\* container of the instance's owner: a name that changed hands meanwhile is no
\* longer any container's.
THEOREM DestroysOnlyOwn == Spec => DestroysOwn
<1> DEFINE Own == hostName # None /\ hostName' = None =>
                     /\ ~alive
                     /\ \E h \in Handlers : At(h, "delete") /\ req[h].user = owner
<1>1. IInv /\ [Next]_vars => [Own]_vars
  <2> SUFFICES ASSUME IInv, Next, hostName # None, hostName' = None
               PROVE  ~alive /\ \E h \in Handlers : At(h, "delete") /\ req[h].user = owner
    OBVIOUS
  <2>1. TypeOK /\ DestroyInv
    BY DEF IInv, EnvInv
  <2>2. \A h \in Handlers : req[h].new # None /\ req[h].old # None
    BY <2>1, Shapes
  <2>3. ASSUME NEW h \in Handlers, DeleteContainer(h) \/ DeleteFails(h)
        PROVE  ~alive /\ At(h, "delete") /\ req[h].user = owner
    <3>1. At(h, "delete") /\ hostName = req[h].old
      BY <2>3 DEF DeleteContainer, DeleteFails, DestroyTarget
    <3>2. QED
      BY <2>1, <3>1 DEF DestroyInv, Retired, At
  <2>4. \A h \in Handlers : ~Arrive(h)
    BY DEF Arrive, StartCreate, StartDestroy, Accept, Push, Claim, Reject, Cancel, End, instance
  <2>5. \A h \in Handlers : ~Worker(h)
    BY <2>2 DEF Worker, CheckGone, CheckRefused, CheckPassed, Renamed, RenameFails, Execute, ExecuteFails,
                Unrename, Release, instance
  <2>6. \A h \in Handlers : Continue(h) => DeleteContainer(h) \/ DeleteFails(h)
    BY <2>5 DEF Continue, FinishCreate, Refund, Destroyer, ClaimDestroy, Undelete, CancelOpen, GiveUp, instance
  <2>7. ~BootCleanup /\ ~Crash /\ \A i \in Ids : ~Sweep(i)
    BY <2>2 DEF BootCleanup, Crash, Sweep, instance
  <2>8. QED
    BY <2>3, <2>4, <2>6, <2>7 DEF Next
<1>2. QED
  BY Invariance, <1>1, PTL DEF DestroysOwn, Spec
===============================================================================
