------------------------- MODULE RechargeOrders_proofs -------------------------
(***************************************************************************)
(* For any number of requests and of attempts: a recharge order is         *)
(* credited when it is completed, once, a closed order stays closed, and   *)
(* the gateway is not told that the payment of an order with one link is   *)
(* dealt with before its credit.                                           *)
(***************************************************************************)
EXTENDS TLAPS, RechargeOrders

\* TypeOK's type of a request, when the attempts up to n have been created.
Request(n) == [source : Sources, step : Steps, news : News, attempt : 0..n,
               seen : 0..n, seenStatus : Statuses]

Inv == TypeOK /\ CreditedOnce

\* An idle handler has the type of a request, whatever was issued.
LEMMA NoRequestType == ASSUME NEW n \in Nat PROVE NoRequest \in Request(n)
  BY DEF NoRequest, Request, Sources, Steps, News, Statuses

\* The order as it is created.
LEMMA InitInv == Init => Inv
<1> SUFFICES ASSUME Init PROVE Inv
  OBVIOUS
<1> USE RechargeAssumption DEF Init
<1>1. req \in [Handlers -> Request(issued)]
  BY NoRequestType
<1>2. TypeOK
  BY <1>1 DEF TypeOK, Request, Attempts, Statuses
<1>3. CreditedOnce
  BY DEF CreditedOnce
<1>4. QED
  BY <1>2, <1>3 DEF Inv

-------------------------------------------------------------------------------
(* The requests keep their type *)

\* Going on and finishing.
LEMMA GoOnType ==
  ASSUME TypeOK, NEW h \in Handlers,
         \/ Finish(h)
         \/ \E step \in Steps : Goto(h, step)
  PROVE  req' \in [Handlers -> Request(issued)]
<1>1. req \in [Handlers -> Request(issued)] /\ issued \in Nat
  BY RechargeAssumption DEF TypeOK, Request, Attempts
<1>2. CASE Finish(h)
  BY <1>1, <1>2, NoRequestType DEF Finish
<1>3. CASE \E step \in Steps : Goto(h, step)
  <2>1. PICK step \in Steps : Goto(h, step)
    BY <1>3
  <2>2. [req[h] EXCEPT !.step = step] \in Request(issued)
    BY <1>1, <2>1 DEF Request
  <2>3. QED
    BY <1>1, <2>1, <2>2 DEF Goto
<1>4. QED
  BY <1>2, <1>3

\* Beginning, with an attempt up to n, of which the order's own are.
LEMMA ReadsType ==
  ASSUME TypeOK, NEW h \in Handlers, NEW n \in Nat, issued <= n,
         NEW source \in Sources, NEW step \in Steps, NEW news \in News, NEW a \in 0..n,
         Reads(h, source, step, news, a)
  PROVE  req' \in [Handlers -> Request(n)]
<1>1. req \in [Handlers -> Request(n)] /\ current \in 0..n /\ status \in Statuses
  BY RechargeAssumption DEF TypeOK, Request, Attempts
<1> DEFINE new == [source |-> source, step |-> step, news |-> news, attempt |-> a,
                   seen |-> current, seenStatus |-> status]
<1>2. new \in Request(n)
  BY <1>1 DEF Request
<1>3. req' = [req EXCEPT ![h] = new]
  BY DEF Reads
<1> HIDE DEF new
<1>4. QED
  BY <1>1, <1>2, <1>3

-------------------------------------------------------------------------------
(* Each step preserves the invariant *)

\* What follows for TypeOK from the parts a step may change.
LEMMA TypeParts ==
  ASSUME TypeOK, UNCHANGED attempts, UNCHANGED <<gateway, marked, age>>,
         status' \in Statuses, current' \in 0..issued, credits' \in Nat,
         req' \in [Handlers -> Request(issued)]
  PROVE  TypeOK'
  BY DEF TypeOK, attempts, gateway, Request, Attempts, Statuses

\* The steps of a request that leave the order as it is.
LEMMA RequestInv ==
  ASSUME Inv, NEW h \in Handlers,
         \/ \E a \in Attempts, news \in News : Notify(h, a, news)
         \/ Verify(h) \/ Sync(h) \/ RepayExpired(h) \/ AdminComplete(h)
         \/ Filter(h) \/ AlreadyCompleted(h) \/ Refused(h) \/ GiveUp(h)
         \/ \E news \in News : Answered(h, news)
  PROVE  Inv'
<1>1. TypeOK /\ CreditedOnce /\ req[h] \in Request(issued) /\ issued \in Nat
  BY RechargeAssumption DEF Inv, TypeOK, Request, Attempts
<1>2. UNCHANGED <<order, attempts, gateway, marked, age>>
  BY DEF Notify, Verify, Sync, RepayExpired, AdminComplete, Filter, AlreadyCompleted,
         Refused, GiveUp, Answered
<1>3. req' \in [Handlers -> Request(issued)]
  <2>1. CASE \E a \in Attempts, news \in News : Notify(h, a, news)
    <3>1. PICK a \in Attempts, news \in News : Notify(h, a, news)
      BY <2>1
    <3>2. a \in 0..issued
      BY <1>1, <3>1 DEF Notify, TypeOK
    <3>3. QED
      BY <1>1, <3>1, <3>2, ReadsType DEF Notify, Sources, Steps
  <2>2. CASE Verify(h) \/ Sync(h) \/ RepayExpired(h) \/ AdminComplete(h)
    <3>1. current \in 0..issued /\ 0 \in 0..issued
      BY <1>1 DEF TypeOK
    <3>2. \E source \in Sources, step \in Steps, news \in News, a \in 0..issued :
              Reads(h, source, step, news, a)
      BY <2>2, <3>1 DEF Verify, Sync, RepayExpired, AdminComplete, Sources, Steps, News
    <3>3. QED
      BY <1>1, <3>2, ReadsType
  <2>3. CASE Filter(h) \/ AlreadyCompleted(h) \/ Refused(h) \/ GiveUp(h)
    <3>1. Finish(h) \/ \E step \in Steps : Goto(h, step)
      BY <2>3 DEF Filter, FilterStep, AlreadyCompleted, AfterSettle, Refused, GiveUp, Steps
    <3>2. QED
      BY <1>1, <3>1, GoOnType
  <2>4. CASE \E news \in News : Answered(h, news)
    <3>1. PICK news \in News : Answered(h, news)
      BY <2>4
    <3>2. CASE Finish(h)
      BY <1>1, <3>2, GoOnType
    <3> DEFINE step == IF news = "processing" THEN "note" ELSE "settle"
    <3>3. CASE req' = [req EXCEPT ![h].news = news, ![h].step = step]
      <4>1. req' = [req EXCEPT ![h] = [req[h] EXCEPT !.news = news, !.step = step]]
        BY <1>1, <3>3 DEF TypeOK
      <4>2. [req[h] EXCEPT !.news = news, !.step = step] \in Request(issued)
        BY <1>1 DEF Request, Steps
      <4>3. req \in [Handlers -> Request(issued)]
        BY <1>1 DEF TypeOK, Request
      <4>4. QED
        BY <4>1, <4>2, <4>3
    <3>4. QED
      BY <3>1, <3>2, <3>3 DEF Answered
  <2>5. QED
    BY <2>1, <2>2, <2>3, <2>4
<1>4. TypeOK'
  BY <1>1, <1>2, <1>3, TypeParts DEF TypeOK, order
<1>5. CreditedOnce'
  BY <1>1, <1>2 DEF CreditedOnce, order
<1>6. QED
  BY <1>4, <1>5 DEF Inv

\* The requests that settle the order, annotate it or cancel it, and the marks.
LEMMA SettleInv ==
  ASSUME Inv, NEW h \in Handlers,
         Note(h) \/ Complete(h) \/ Fail(h) \/ CancelExpired(h)
  PROVE  Inv'
<1>1. TypeOK /\ CreditedOnce /\ req[h] \in Request(issued) /\ issued \in Nat
  BY RechargeAssumption DEF Inv, TypeOK, Request, Attempts
<1>2. status \in Statuses /\ current \in 0..issued /\ credits \in Nat
      /\ req[h].seen \in 0..issued
  BY <1>1 DEF TypeOK, Request
<1>3. UNCHANGED <<attempts, gateway, marked, age>>
  BY DEF Note, Complete, Fail, CancelExpired
<1>4. req' \in [Handlers -> Request(issued)]
  <2>1. Finish(h) \/ \E step \in Steps : Goto(h, step)
    BY DEF Note, Complete, AfterSettle, Fail, CancelExpired, Steps
  <2>2. QED
    BY <1>1, <2>1, GoOnType
<1>5. status' \in Statuses /\ current' \in 0..issued /\ credits' \in Nat
  BY <1>2 DEF Note, Complete, Fail, CancelExpired, CloseIfPending, Statuses
<1>6. TypeOK'
  BY <1>1, <1>3, <1>4, <1>5, TypeParts
<1>7. CreditedOnce'
  <2>1. CASE Complete(h)
    BY <1>1, <2>1 DEF Complete, Completable, CreditedOnce
  <2>2. CASE Note(h) \/ Fail(h) \/ CancelExpired(h)
    BY <1>1, <2>2 DEF Note, Fail, CancelExpired, CloseIfPending, CreditedOnce
  <2>3. QED
    BY <2>1, <2>2
<1>8. QED
  BY <1>6, <1>7 DEF Inv

\* The mark and the answer are of an attempt that was created.
LEMMA MarkInv ==
  ASSUME Inv, NEW h \in Handlers, Mark(h) \/ Answer(h)
  PROVE  Inv'
<1>1. TypeOK /\ CreditedOnce /\ req[h].attempt \in 0..issued
  BY DEF Inv, TypeOK
<1>2. UNCHANGED <<order, attempts, result, age>>
  BY DEF Mark, Answer, gateway
<1>3. req' \in [Handlers -> Request(issued)]
  <2>1. Finish(h) \/ \E step \in Steps : Goto(h, step)
    BY DEF Mark, Answer, Steps
  <2>2. QED
    BY <1>1, <2>1, GoOnType
<1>4. marked' \subseteq 0..issued /\ acked' \subseteq 0..issued
  BY <1>1 DEF Mark, Answer, gateway, TypeOK
<1>5. TypeOK'
  BY <1>1, <1>2, <1>3, <1>4 DEF TypeOK, order, attempts, Request
<1>6. CreditedOnce'
  BY <1>1, <1>2 DEF CreditedOnce, order
<1>7. QED
  BY <1>5, <1>6 DEF Inv

\* Repay creates an attempt and, when the gateway has answered, a link.
LEMMA RepayInv ==
  ASSUME Inv, NEW h \in Handlers, StartRepay(h) \/ FinishRepay(h)
  PROVE  Inv'
<1>1. TypeOK /\ CreditedOnce /\ issued \in Nat
  BY RechargeAssumption DEF Inv, TypeOK, Attempts
<1>2. CASE StartRepay(h)
  <2>1. /\ issued' = issued + 1 /\ issued' \in Attempts
        /\ UNCHANGED <<order, links, lastLink, gateway, marked, age>>
    BY <1>1, <1>2, RechargeAssumption DEF StartRepay, Attempts
  <2>2. req' \in [Handlers -> Request(issued')]
    <3>1. Reads(h, "repay", "repay", "none", issued + 1)
      BY <1>2 DEF StartRepay
    <3>2. issued + 1 \in 0..(issued + 1) /\ issued <= issued + 1 /\ issued + 1 \in Nat
      BY <1>1
    <3>3. req' \in [Handlers -> Request(issued + 1)]
      BY <1>1, <3>1, <3>2, ReadsType DEF Sources, Steps, News
    <3>4. QED
      BY <2>1, <3>3
  <2>3. 0..issued \subseteq 0..issued'
    BY <1>1, <2>1
  <2>4. TypeOK'
    BY <1>1, <2>1, <2>2, <2>3 DEF TypeOK, order, gateway, Request
  <2>5. QED
    BY <1>1, <2>1, <2>4 DEF Inv, CreditedOnce, order
<1>3. CASE FinishRepay(h)
  <2>1. UNCHANGED <<status, credits, issued, gateway, marked, age>>
    BY <1>3 DEF FinishRepay
  <2>2. req[h].attempt \in 0..issued
    BY <1>1 DEF TypeOK
  <2>3. current' \in 0..issued /\ links' \subseteq 0..issued /\ lastLink' \in links'
    <3>1. current \in 0..issued /\ links \subseteq 0..issued /\ lastLink \in links
      BY <1>1 DEF TypeOK
    <3>2. CASE status = "pending"
      <4>1. /\ current' = req[h].attempt
            /\ links' = links \cup {req[h].attempt}
            /\ lastLink' = req[h].attempt
        BY <1>3, <3>2 DEF FinishRepay
      <4>2. QED
        BY <2>2, <3>1, <4>1
    <3>3. CASE status # "pending"
      <4>1. UNCHANGED <<current, links, lastLink>>
        BY <1>3, <3>3, Zenon DEF FinishRepay
      <4>2. QED
        BY <3>1, <4>1
    <3>4. QED
      BY <3>2, <3>3
  <2>4. req' \in [Handlers -> Request(issued)]
    <3>1. Finish(h)
      BY <1>3 DEF FinishRepay
    <3>2. QED
      BY <1>1, <3>1, GoOnType
  <2>5. TypeOK'
    BY <1>1, <2>1, <2>3, <2>4 DEF TypeOK, gateway, Request
  <2>6. QED
    BY <1>1, <2>1, <2>5 DEF Inv, CreditedOnce
<1>4. QED
  BY <1>2, <1>3

\* The user, the administrator, the clock, the gateway and the hourly job.
LEMMA OutsideInv ==
  ASSUME Inv,
         \/ \E a \in Attempts : Pay(a) \/ Lapse(a)
         \/ Age \/ UserCancel \/ AdminFail \/ Clean
  PROVE  Inv'
<1>1. TypeOK /\ CreditedOnce
  BY DEF Inv
<1>2. CASE \E a \in Attempts : Pay(a) \/ Lapse(a)
  <2>1. /\ result' \in [Attempts -> {"none", "paid", "failed"}]
        /\ UNCHANGED <<order, attempts, acked, marked, age, req>>
    BY <1>1, <1>2 DEF Pay, Lapse, TypeOK
  <2>2. QED
    BY <1>1, <2>1 DEF Inv, TypeOK, CreditedOnce, order, attempts
<1>3. CASE Age
  BY <1>1, <1>3 DEF Age, Inv, TypeOK, CreditedOnce, order, attempts, gateway
<1>4. CASE UserCancel \/ AdminFail \/ Clean
  <2>1. /\ status = "pending" /\ status' \in {"cancelled", "failed"}
        /\ UNCHANGED <<current, credits, attempts, gateway, marked, age, req>>
    BY <1>4 DEF UserCancel, AdminFail, Clean, Close
  <2>2. TypeOK'
    BY <1>1, <2>1 DEF TypeOK, attempts, gateway, Statuses
  <2>3. QED
    BY <1>1, <2>1, <2>2 DEF Inv, CreditedOnce
<1>5. QED
  BY <1>2, <1>3, <1>4

\* Every step preserves the invariant.
LEMMA StepInv == Inv /\ [Next]_vars => Inv'
<1> SUFFICES ASSUME Inv, [Next]_vars PROVE Inv'
  OBVIOUS
<1>1. CASE \E h \in Handlers : Arrive(h)
  BY <1>1, RequestInv, RepayInv DEF Arrive
<1>2. CASE \E h \in Handlers : Continue(h)
  BY <1>2, RequestInv, SettleInv, MarkInv, RepayInv DEF Continue, Settle
<1>3. CASE \E h \in Handlers : GiveUp(h)
  BY <1>3, RequestInv
<1>4. CASE \/ \E a \in Attempts : Pay(a) \/ Lapse(a)
           \/ Age \/ UserCancel \/ AdminFail \/ Clean
  BY <1>4, OutsideInv
<1>5. CASE UNCHANGED vars
  BY <1>5 DEF vars, order, attempts, gateway, Inv, TypeOK, CreditedOnce
<1>6. QED
  BY <1>1, <1>2, <1>3, <1>4, <1>5 DEF Next

-------------------------------------------------------------------------------
(* The theorems *)

\* The invariant that types and credits together are.
LEMMA Invariance == Spec => []Inv
  BY InitInv, StepInv, PTL DEF Spec

\* No request carries an attempt that repay did not create.
THEOREM TypeCorrect == Spec => []TypeOK
<1>1. Inv => TypeOK
  BY DEF Inv
<1>2. QED
  BY <1>1, Invariance, PTL

\* However many callbacks, verify and sync requests, of however many attempts,
\* complete an order: its amount is credited once, and only if it is completed.
THEOREM OrderCreditedOnce == Spec => []CreditedOnce
<1>1. Inv => CreditedOnce
  BY DEF Inv
<1>2. QED
  BY <1>1, Invariance, PTL

\* Every statement on the order tests that it is pending, so none reopens or
\* changes a closed one.
THEOREM ClosedOrderStays == Spec => FinalStatus
<1>1. [Next]_vars => [status # "pending" => status' = status]_vars
  <2> SUFFICES ASSUME [Next]_vars, status # "pending" PROVE status' = status
    OBVIOUS
  <2>1. CASE Next
    BY <2>1 DEF Next, Arrive, Continue, Settle, Notify, Verify, Sync, StartRepay,
         RepayExpired, AdminComplete, Filter, Note, Complete, Completable,
         AlreadyCompleted, Refused, Fail, Mark, Answer, FinishRepay, CancelExpired,
         Answered, GiveUp, Pay, Lapse, Age, UserCancel, AdminFail, Clean, Close,
         CloseIfPending, order
  <2>2. CASE UNCHANGED vars
    BY <2>2 DEF vars, order
  <2>3. QED
    BY <2>1, <2>2
<1>2. QED
  BY <1>1, PTL DEF Spec, FinalStatus

-------------------------------------------------------------------------------
(* No payment is dropped *)

\* What a request says of the gateway and of the order is so.
Honest(r) ==
    /\ r.news = "failed" => result[r.attempt] = "failed"
    /\ r.step = "note" => r.news = "processing"
    /\ r.seenStatus = "completed" => status = "completed"

\* An order with one link knows one attempt.
OneLink ==
    /\ 0 \in links
    /\ links = {0} => current = 0 /\ \A h \in Handlers : req[h].seen = 0

\* The order with one link has not been credited and its payment may be under way.
Owing == links = {0} /\ result[0] # "failed" /\ status # "completed"

\* The request is not about to say that the payment is dealt with.
Quiet(r) ==
    r.attempt = 0 => r.step # "mark" /\ (r.step = "answer" => r.news = "processing")

Untold == Owing => 0 \notin marked /\ 0 \notin acked /\ \A h \in Handlers : Quiet(req[h])

ToldInv == (\A h \in Handlers : Honest(req[h])) /\ OneLink /\ Untold

\* The order as it is created.
LEMMA InitTold == Init => ToldInv
BY DEF Init, ToldInv, Honest, OneLink, Owing, Quiet, Untold, NoRequest

\* The other requests stay where they are.
Others(h) == \A q \in Handlers : q # h => req'[q] = req[q]

\* Where a request goes.
LEMMA Goes ==
  ASSUME TypeOK, NEW h \in Handlers
  PROVE  /\ \A step : Goto(h, step) => Others(h) /\ req'[h] = [req[h] EXCEPT !.step = step]
         /\ Finish(h) => Others(h) /\ req'[h] = NoRequest
         /\ \A source, step, news, a : Reads(h, source, step, news, a) =>
                /\ Others(h)
                /\ req'[h] = [source |-> source, step |-> step, news |-> news, attempt |-> a,
                              seen |-> current, seenStatus |-> status]
<1>1. req \in [Handlers -> Request(issued)]
  BY DEF TypeOK, Request
<1>2. QED
  BY <1>1 DEF Goto, Finish, Reads, Others

\* A step of one request.
LEMMA RequestTold ==
  ASSUME ToldInv, NEW h \in Handlers, Others(h), UNCHANGED <<links, result>>,
         status = "completed" => status' = "completed",
         Honest(req[h])', links = {0} => current' = 0 /\ req'[h].seen = 0,
         Owing' => 0 \notin marked' /\ 0 \notin acked' /\ Quiet(req'[h])
  PROVE  ToldInv'
<1>1. \A q \in Handlers : Honest(req[q])'
  BY DEF ToldInv, Others, Honest
<1>2. OneLink'
  BY DEF ToldInv, OneLink, Others
<1>3. Owing' => Owing
  BY DEF Owing
<1>4. Untold'
  BY <1>3 DEF ToldInv, Untold, Others
<1>5. QED
  BY <1>1, <1>2, <1>4 DEF ToldInv

\* Requests that begin.
LEMMA ArriveTold ==
  ASSUME Inv, ToldInv, NEW h \in Handlers, Arrive(h)
  PROVE  ToldInv'
<1>1. ASSUME NEW source, NEW step \in {"filter", "query", "repay", "tooLate", "settle"}, NEW news, NEW a,
             Reads(h, source, step, news, a), news = "failed" => result[a] = "failed",
             UNCHANGED <<order, links, gateway, marked>>
      PROVE  ToldInv'
  <2>1. /\ Others(h)
        /\ req'[h] = [source |-> source, step |-> step, news |-> news, attempt |-> a,
                      seen |-> current, seenStatus |-> status]
    BY <1>1, Goes DEF Inv
  <2>2. UNCHANGED <<links, result, status, current, marked, acked>>
    BY <1>1 DEF order, gateway
  <2>3. Honest(req[h])' /\ Quiet(req'[h])
    BY <1>1, <2>1, <2>2 DEF Honest, Quiet
  <2>4. links = {0} => current' = 0 /\ req'[h].seen = 0
    BY <2>1, <2>2 DEF ToldInv, OneLink
  <2>5. Owing' => 0 \notin marked' /\ 0 \notin acked'
    BY <2>2 DEF ToldInv, Untold, Owing
  <2>6. QED
    BY <2>1, <2>2, <2>3, <2>4, <2>5, RequestTold
<1>2. ASSUME NEW a, NEW news, Notify(h, a, news) PROVE ToldInv'
  BY <1>1, <1>2 DEF Notify, Tells, attempts
<1>3. CASE Verify(h)
  BY <1>1, <1>3 DEF Verify, attempts
<1>4. CASE Sync(h)
  BY <1>1, <1>4 DEF Sync, attempts
<1>5. CASE StartRepay(h)
  BY <1>1, <1>5 DEF StartRepay
<1>6. CASE RepayExpired(h)
  BY <1>1, <1>6 DEF RepayExpired, attempts
<1>7. CASE AdminComplete(h)
  BY <1>1, <1>7 DEF AdminComplete, attempts
<1>8. QED
  BY <1>2, <1>3, <1>4, <1>5, <1>6, <1>7 DEF Arrive

\* A request goes on: what is left to show of it.
LEMMA GoesOnTold ==
  ASSUME Inv, ToldInv, NEW h \in Handlers, NEW step,
         Goto(h, step) \/ Finish(h),
         UNCHANGED <<links, result>>, status = "completed" => status' = "completed",
         current' \in {current, req[h].seen}, step # "note",
         Owing' => /\ 0 \notin marked' /\ 0 \notin acked'
                   /\ Goto(h, step) => Quiet([req[h] EXCEPT !.step = step])
  PROVE  ToldInv'
<1>1. req[h] \in Request(issued)
  BY DEF Inv, TypeOK, Request
<1>2. links = {0} => current' = 0 /\ req[h].seen = 0
  BY DEF ToldInv, OneLink
<1>3. CASE Finish(h)
  <2>1. Others(h) /\ req'[h] = NoRequest
    BY <1>3, Goes DEF Inv
  <2>2. Honest(req[h])' /\ Quiet(req'[h]) /\ req'[h].seen = 0
    BY <2>1 DEF Honest, Quiet, NoRequest
  <2>3. QED
    BY <1>2, <2>1, <2>2, RequestTold
<1>4. CASE Goto(h, step)
  <2>1. Others(h) /\ req'[h] = [req[h] EXCEPT !.step = step]
    BY <1>4, Goes DEF Inv
  <2>2. /\ req'[h].step = step /\ req'[h].news = req[h].news /\ req'[h].attempt = req[h].attempt
        /\ req'[h].seen = req[h].seen /\ req'[h].seenStatus = req[h].seenStatus
    BY <1>1, <2>1 DEF Request
  <2>3. Honest(req[h])'
    BY <2>2 DEF ToldInv, Honest
  <2>4. Owing' => 0 \notin marked' /\ 0 \notin acked' /\ Quiet(req'[h])
    BY <1>4, <2>1
  <2>5. QED
    BY <1>2, <2>1, <2>2, <2>3, <2>4, RequestTold
<1>5. QED
  BY <1>3, <1>4

\* Requests that go on.
LEMMA ContinueTold ==
  ASSUME Inv, ToldInv, NEW h \in Handlers, Continue(h) \/ GiveUp(h), ~FinishRepay(h)
  PROVE  ToldInv'
<1>1. /\ req[h] \in Request(issued)
      /\ Honest(req[h]) /\ (links = {0} => current = 0 /\ req[h].seen = 0)
  BY DEF Inv, TypeOK, Request, ToldInv, OneLink
<1>2. Owing => 0 \notin marked /\ 0 \notin acked /\ Quiet(req[h])
  BY DEF ToldInv, Untold
<1>3. CASE Filter(h)
  <2>1. At(h, "filter") /\ UNCHANGED <<status, current, links, result, acked, marked>>
    BY <1>3 DEF Filter, order, attempts, gateway
  <2>2. CASE FilterStep(h) = "note"
    <3>1. Goto(h, "note") /\ req[h].news = "processing"
      BY <1>3, <2>2 DEF Filter, FilterStep
    <3>2. Others(h) /\ req'[h] = [req[h] EXCEPT !.step = "note"]
      BY <3>1, Goes DEF Inv
    <3>3. /\ req'[h].step = "note" /\ req'[h].news = req[h].news /\ req'[h].attempt = req[h].attempt
          /\ req'[h].seen = req[h].seen /\ req'[h].seenStatus = req[h].seenStatus
      BY <1>1, <3>2 DEF Request
    <3>4. Honest(req[h])' /\ Quiet(req'[h])
      BY <1>1, <2>1, <3>1, <3>3 DEF Honest, Quiet
    <3>5. Owing' => Owing
      BY <2>1 DEF Owing
    <3>6. QED
      BY <1>1, <1>2, <2>1, <3>2, <3>3, <3>4, <3>5, RequestTold
  <2>3. CASE FilterStep(h) # "note"
    <3>1. PICK step : step = FilterStep(h) /\ step \in {"answer", "mark", "settle", "idle"}
      BY <2>3 DEF FilterStep
    <3>2. Goto(h, step) \/ Finish(h)
      BY <1>3, <3>1 DEF Filter
    <3>3. ASSUME Owing PROVE Quiet([req[h] EXCEPT !.step = step])
      <4>1. CASE req[h].attempt = 0
        <5>1. ~Processed(h) /\ ~Settled(h) /\ req[h].news # "failed"
          BY <1>1, <1>2, <3>3, <4>1 DEF Owing, Processed, Settled, Honest
        <5>2. step \in {"settle", "idle"}
          BY <3>1, <5>1 DEF FilterStep
        <5>3. [req[h] EXCEPT !.step = step].step = step
          BY <1>1 DEF Request
        <5>4. QED
          BY <5>2, <5>3 DEF Quiet
      <4>2. CASE req[h].attempt # 0
        <5>1. [req[h] EXCEPT !.step = step].attempt = req[h].attempt
          BY <1>1 DEF Request
        <5>2. QED
          BY <4>2, <5>1 DEF Quiet
      <4>3. QED
        BY <4>1, <4>2
    <3>4. Owing' => Owing
      BY <2>1 DEF Owing
    <3>5. step # "note"
      BY <3>1
    <3>6. QED
      BY <1>2, <2>1, <3>2, <3>3, <3>4, <3>5, GoesOnTold
  <2>4. QED
    BY <2>2, <2>3
<1>4. ASSUME NEW news \in News, Answered(h, news) PROVE ToldInv'
  <2>1. /\ UNCHANGED <<status, current, links, result, acked, marked>>
        /\ news \in Tells(req[h].attempt)
    BY <1>4 DEF Answered, order, attempts, gateway
  <2>2. Owing' => Owing
    BY <2>1 DEF Owing
  <2>3. CASE Finish(h)
    <3>1. Others(h) /\ req'[h] = NoRequest
      BY <2>3, Goes DEF Inv
    <3>2. Honest(req[h])' /\ Quiet(req'[h]) /\ req'[h].seen = 0
      BY <3>1 DEF Honest, Quiet, NoRequest
    <3>3. QED
      BY <1>1, <1>2, <2>1, <2>2, <3>1, <3>2, RequestTold
  <2>4. CASE ~Finish(h)
    <3> DEFINE step == IF news = "processing" THEN "note" ELSE "settle"
    <3>1. req' = [req EXCEPT ![h].news = news, ![h].step = step]
      BY <1>4, <2>4 DEF Answered
    <3>2. Others(h) /\ req'[h] = [req[h] EXCEPT !.news = news, !.step = step]
      <4>1. req \in [Handlers -> Request(issued)]
        BY DEF Inv, TypeOK, Request
      <4>2. QED
        BY <3>1, <4>1 DEF Others
    <3>3. /\ req'[h].step = step /\ req'[h].news = news /\ req'[h].attempt = req[h].attempt
          /\ req'[h].seen = req[h].seen /\ req'[h].seenStatus = req[h].seenStatus
      BY <1>1, <3>2 DEF Request
    <3>4. Honest(req[h])' /\ Quiet(req'[h])
      BY <1>1, <2>1, <3>3 DEF Honest, Quiet, Tells
    <3>5. QED
      BY <1>1, <1>2, <2>1, <2>2, <3>2, <3>3, <3>4, RequestTold
  <2>5. QED
    BY <2>3, <2>4
<1>5. CASE Note(h)
  <2>1. /\ At(h, "note") /\ UNCHANGED <<status, links, result, acked, marked>>
        /\ current' \in {current, req[h].seen} /\ (Goto(h, "answer") \/ Finish(h))
    BY <1>5 DEF Note, attempts, gateway
  <2>2. [req[h] EXCEPT !.step = "answer"].news = "processing" /\ [req[h] EXCEPT !.step = "answer"].step = "answer"
    BY <1>1, <2>1 DEF Honest, At, Request
  <2>3. Quiet([req[h] EXCEPT !.step = "answer"])
    BY <2>2 DEF Quiet
  <2>4. Owing' => Owing
    BY <2>1 DEF Owing
  <2>5. QED
    BY <1>2, <2>1, <2>3, <2>4, GoesOnTold
<1>6. CASE Complete(h) \/ AlreadyCompleted(h)
  <2>1. /\ status' = "completed" /\ UNCHANGED <<links, result>>
        /\ current' \in {current, req[h].seen} /\ (Goto(h, "mark") \/ Finish(h))
    BY <1>6 DEF Complete, AlreadyCompleted, AfterSettle, order, attempts, gateway
  <2>2. Owing' => 0 \notin marked' /\ 0 \notin acked' /\ Quiet([req[h] EXCEPT !.step = "mark"])
    BY <2>1 DEF Owing
  <2>3. QED
    BY <2>1, <2>2, GoesOnTold
<1>7. CASE Refused(h) \/ GiveUp(h) \/ CancelExpired(h)
  <2>1. /\ UNCHANGED <<current, links, result, acked, marked>> /\ Finish(h)
        /\ status = "completed" => status' = "completed"
    BY <1>7 DEF Refused, GiveUp, CancelExpired, CloseIfPending, order, attempts, gateway
  <2>2. Others(h) /\ req'[h] = NoRequest
    BY <2>1, Goes DEF Inv
  <2>3. Honest(req[h])' /\ Quiet(req'[h]) /\ req'[h].seen = 0
    BY <2>2 DEF Honest, Quiet, NoRequest
  <2>4. Owing' => Owing
    BY <2>1 DEF Owing
  <2>5. QED
    BY <1>1, <1>2, <2>1, <2>2, <2>3, <2>4, RequestTold
<1>8. CASE Fail(h)
  <2>1. /\ UNCHANGED <<links, result, acked, marked>> /\ req[h].news = "failed"
        /\ status = "completed" => status' = "completed"
        /\ current' \in {current, req[h].seen} /\ (Goto(h, "mark") \/ Finish(h))
    BY <1>8 DEF Fail, CloseIfPending, attempts, gateway
  <2>2. Owing' => Owing /\ req[h].attempt # 0
    BY <1>1, <2>1 DEF Owing, Honest
  <2>3. [req[h] EXCEPT !.step = "mark"].attempt = req[h].attempt
    BY <1>1 DEF Request
  <2>4. Owing' => Quiet([req[h] EXCEPT !.step = "mark"])
    BY <2>2, <2>3 DEF Quiet
  <2>5. QED
    BY <1>2, <2>1, <2>2, <2>4, GoesOnTold
<1>9. CASE Mark(h)
  <2>1. /\ At(h, "mark") /\ UNCHANGED <<status, current, links, result, acked>>
        /\ marked' \in {marked, marked \cup {req[h].attempt}} /\ (Goto(h, "answer") \/ Finish(h))
    BY <1>9 DEF Mark, order, attempts, gateway
  <2>2. Owing' => Owing /\ req[h].attempt # 0
    BY <1>2, <2>1 DEF Owing, Quiet, At
  <2>3. [req[h] EXCEPT !.step = "answer"].attempt = req[h].attempt
    BY <1>1 DEF Request
  <2>4. Owing' => Quiet([req[h] EXCEPT !.step = "answer"])
    BY <2>2, <2>3 DEF Quiet
  <2>5. Owing' => 0 \notin marked' /\ 0 \notin acked'
    BY <1>2, <2>1, <2>2
  <2>6. QED
    BY <2>1, <2>4, <2>5, GoesOnTold
<1>10. CASE Answer(h)
  <2>1. /\ At(h, "answer") /\ UNCHANGED <<status, current, links, result, marked>> /\ Finish(h)
        /\ acked' = IF req[h].news = "processing" THEN acked ELSE acked \cup {req[h].attempt}
    BY <1>10 DEF Answer, order, attempts
  <2>2. Owing' => Owing
    BY <2>1 DEF Owing
  <2>3. Owing' => 0 \notin marked' /\ 0 \notin acked'
    BY <1>2, <2>1, <2>2 DEF Quiet, At
  <2>4. Others(h) /\ req'[h] = NoRequest
    BY <2>1, Goes DEF Inv
  <2>5. Honest(req[h])' /\ Quiet(req'[h]) /\ req'[h].seen = 0
    BY <2>4 DEF Honest, Quiet, NoRequest
  <2>6. QED
    BY <1>1, <2>1, <2>3, <2>4, <2>5, RequestTold
<1>11. QED
  BY <1>3, <1>4, <1>5, <1>6, <1>7, <1>8, <1>9, <1>10 DEF Continue, Settle

\* Every step.
LEMMA StepTold == Inv /\ ToldInv /\ [Next]_vars => ToldInv'
<1> SUFFICES ASSUME Inv, ToldInv, [Next]_vars PROVE ToldInv'
  OBVIOUS
<1>1. ASSUME NEW h \in Handlers, Arrive(h) PROVE ToldInv'
  BY <1>1, ArriveTold
<1>2. ASSUME NEW h \in Handlers, Continue(h) \/ GiveUp(h), ~FinishRepay(h) PROVE ToldInv'
  BY <1>2, ContinueTold
<1>3. ASSUME NEW h \in Handlers, FinishRepay(h) PROVE ToldInv'
  <2>1. /\ UNCHANGED <<status, result, acked, marked>> /\ Finish(h)
        /\ \/ UNCHANGED <<current, links>>
           \/ current' = req[h].attempt /\ links' = links \cup {req[h].attempt}
    BY <1>3 DEF FinishRepay, gateway
  <2>2. Others(h) /\ req'[h] = NoRequest
    BY <2>1, Goes DEF Inv
  <2>3. /\ NoRequest.seen = 0 /\ NoRequest.step = "idle" /\ NoRequest.news = "none"
        /\ NoRequest.seenStatus = "pending"
    BY DEF NoRequest
  <2>4. \A q \in Handlers : Honest(req[q])'
    BY <2>1, <2>2, <2>3 DEF ToldInv, Honest, Others
  <2>5. links' = {0} => links = {0} /\ current' = 0
    BY <2>1 DEF ToldInv, OneLink
  <2>6. OneLink'
    BY <2>1, <2>2, <2>3, <2>5 DEF ToldInv, OneLink, Others
  <2>7. Untold'
    BY <2>1, <2>2, <2>3, <2>5 DEF ToldInv, Untold, Owing, Quiet, Others
  <2>8. QED
    BY <2>4, <2>6, <2>7 DEF ToldInv
<1>4. ASSUME NEW a \in Attempts, Pay(a) \/ Lapse(a) PROVE ToldInv'
  <2>1. /\ a \in links /\ result[a] = "none" /\ result' = [result EXCEPT ![a] = result'[a]]
        /\ UNCHANGED <<status, current, links, acked, marked, req>>
    BY <1>4 DEF Pay, Lapse, order, attempts
  <2>2. result \in [Attempts -> {"none", "paid", "failed"}]
    BY DEF Inv, TypeOK
  <2>3. \A b \in Attempts : result[b] = "failed" => result'[b] = "failed"
    BY <2>1, <2>2
  <2>4. \A q \in Handlers : Honest(req[q])'
    <3>1. \A q \in Handlers : req[q].attempt \in Attempts
      BY RechargeAssumption DEF Inv, TypeOK, Attempts
    <3>2. QED
      BY <2>1, <2>3, <3>1 DEF ToldInv, Honest
  <2>5. Owing' => Owing
    BY <2>1, <2>3, RechargeAssumption DEF Owing, Attempts
  <2>6. OneLink' /\ Untold'
    BY <2>1, <2>5 DEF ToldInv, OneLink, Untold
  <2>7. QED
    BY <2>4, <2>6 DEF ToldInv
<1>5. CASE Age \/ UserCancel \/ AdminFail \/ Clean \/ UNCHANGED vars
  <2>1. /\ UNCHANGED <<current, links, result, acked, marked, req>>
        /\ status = "completed" => status' = "completed"
    BY <1>5 DEF Age, UserCancel, AdminFail, Clean, Close, vars, order, attempts, gateway
  <2>2. \A q \in Handlers : Honest(req[q])'
    BY <2>1 DEF ToldInv, Honest
  <2>3. Owing' => Owing
    BY <2>1 DEF Owing
  <2>4. OneLink' /\ Untold'
    BY <2>1, <2>3 DEF ToldInv, OneLink, Untold
  <2>5. QED
    BY <2>2, <2>4 DEF ToldInv
<1>6. QED
  BY <1>1, <1>2, <1>3, <1>4, <1>5 DEF Next

\* The gateway is told that the payment of the only link is dealt with when the order
\* has its credit, and not before: whatever a callback, a verify request and the
\* administrator's sync have read, and whichever of them dies.
THEOREM NoPaymentDropped == Spec => []PaymentNotDropped
<1>1. Inv /\ ToldInv => PaymentNotDropped
  BY DEF Inv, CreditedOnce, ToldInv, OneLink, Untold, Owing, PaymentNotDropped
<1>2. QED
  BY <1>1, InitInv, InitTold, StepInv, StepTold, PTL DEF Spec
===============================================================================
