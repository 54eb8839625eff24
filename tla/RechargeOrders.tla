---------------------------- MODULE RechargeOrders ----------------------------
(***************************************************************************)
(* One recharge order and its payments.  The payment gateway knows the     *)
(* order by an attempt: attempt 0 is the order number, each repay creates  *)
(* another and makes it current in paymentDetails.  The gateway's          *)
(* notifications, the owner's verify request and the administrator's sync  *)
(* read the order, look things up and then complete, fail, cancel or       *)
(* annotate it in a statement of their own.  Every such statement tests    *)
(* the status again and none of them tests the attempt again.              *)
(*                                                                         *)
(* Completing credits the balance in the same transaction (BalanceTx has   *)
(* its statements); here it is one step.  Signatures and amounts are taken *)
(* to be right.  No code writes the status "paid" or "refunded".           *)
(***************************************************************************)
EXTENDS Integers, FiniteSets

CONSTANTS
    Handlers,     \* requests the server works on at a time
    MaxAttempts   \* bound: attempts repay creates

ASSUME RechargeAssumption == MaxAttempts \in Nat

VARIABLES
    status,    \* recharge_records.status
    current,   \* paymentDetails.paymentAttempt.current
    issued,    \* the last attempt created
    links,     \* attempts whose payment link the user got
    lastLink,  \* the link he got last
    result,    \* what the gateway knows of each attempt
    marked,    \* payment_callbacks: attempts with a processed payment
    acked,     \* attempts whose notification the gateway saw answered
    credits,   \* recharge rows written to the user's statement
    age,       \* against expiredAt and the six hours after it
    req        \* each request: source, next step, what the gateway told of
               \* which attempt, status and current attempt it read

order == <<status, current, credits>>
attempts == <<issued, links, lastLink>>
gateway == <<result, acked>>
vars == <<order, attempts, gateway, marked, age, req>>

Attempts == 0..MaxAttempts
Statuses == {"pending", "completed", "failed", "cancelled"}
Sources == {"none", "callback", "query", "admin", "repay"}
News == {"none", "processing", "paid", "failed"}
Steps == {"idle", "filter", "query", "settle", "note", "mark", "answer", "repay",
          "tooLate"}
NoRequest == [source |-> "none", step |-> "idle", news |-> "none", attempt |-> 0,
              seen |-> 0, seenStatus |-> "pending"]

TypeOK ==
    /\ status \in Statuses
    /\ current \in 0..issued
    /\ issued \in Attempts
    /\ links \subseteq 0..issued
    /\ lastLink \in links
    /\ result \in [Attempts -> {"none", "paid", "failed"}]
    /\ marked \subseteq 0..issued
    /\ acked \subseteq 0..issued
    /\ credits \in Nat
    /\ age \in {"fresh", "expired", "graced"}
    /\ req \in [Handlers -> [source : Sources, step : Steps, news : News,
                             attempt : 0..issued, seen : 0..issued,
                             seenStatus : Statuses]]

Init ==
    /\ status = "pending" /\ current = 0 /\ credits = 0
    /\ issued = 0 /\ links = {0} /\ lastLink = 0
    /\ result = [a \in Attempts |-> "none"] /\ acked = {}
    /\ marked = {}
    /\ age = "fresh"
    /\ req = [h \in Handlers |-> NoRequest]

-------------------------------------------------------------------------------
(* The user, the clock and the gateway *)

\* Money arrives over a link the user holds, superseded or not.
Pay(a) ==
    /\ a \in links /\ result[a] = "none"
    /\ result' = [result EXCEPT ![a] = "paid"]
    /\ UNCHANGED <<order, attempts, acked, marked, age, req>>

\* The gateway gives an attempt up.  (Of a link the user never got nothing comes.)
Lapse(a) ==
    /\ a \in links /\ result[a] = "none"
    /\ result' = [result EXCEPT ![a] = "failed"]
    /\ UNCHANGED <<order, attempts, acked, marked, age, req>>

Age ==
    /\ age # "graced"
    /\ age' = IF age = "fresh" THEN "expired" ELSE "graced"
    /\ UNCHANGED <<order, attempts, gateway, marked, req>>

\* What the gateway can tell of an attempt: its outcome, and at any time, late
\* or early, that it is being processed.
Tells(a) == {"processing"} \cup ({result[a]} \ {"none"})

-------------------------------------------------------------------------------
(* Steps of a request *)

At(h, step) == req[h].step = step
Goto(h, step) == req' = [req EXCEPT ![h].step = step]
Finish(h) == req' = [req EXCEPT ![h] = NoRequest]

\* A request of the source begins: it reads the order.
Reads(h, source, step, news, a) ==
    /\ At(h, "idle")
    /\ req' = [req EXCEPT ![h] =
           [source |-> source, step |-> step, news |-> news, attempt |-> a,
            seen |-> current, seenStatus |-> status]]

\* A conditional update WHERE status IN ('pending', 'paid').
CloseIfPending(new) == status' = IF status = "pending" THEN new ELSE status

\* The gateway notifies, again and again and in any order.
Notify(h, a, news) ==
    /\ a \in links /\ news \in Tells(a)
    /\ Reads(h, "callback", "filter", news, a)
    /\ UNCHANGED <<order, attempts, gateway, marked, age>>

\* isCallbackProcessed, by order and the gateway's number of the payment.
Processed(h) == req[h].attempt \in marked

\* Mutant: a completed order is treated like one that failed.
Settled_currentOnly(h) == req[h].seen # req[h].attempt

\* The read order has another current attempt or is completed.
Settled(h) ==
    \/ req[h].seen # req[h].attempt
    \/ req[h].seenStatus = "completed"

\* Mutant: the news that a payment is being processed is marked as processed.
FilterStep_markEarly(h) ==
    IF Processed(h) THEN "answer"
    ELSE IF Settled(h) \/ req[h].news = "processing" THEN "mark"
    ELSE IF req[h].seenStatus = "pending" THEN "settle"
    ELSE IF req[h].news = "failed" THEN "mark" ELSE "idle"

\* Where the callback goes on.  News of a failure closed before is only marked,
\* a payment for a closed order is answered 400.
FilterStep(h) ==
    IF Processed(h) THEN "answer"
    ELSE IF Settled(h) THEN "mark"
    ELSE IF req[h].news = "processing" THEN "note"
    ELSE IF req[h].seenStatus = "pending" THEN "settle"
    ELSE IF req[h].news = "failed" THEN "mark" ELSE "idle"

Filter(h) ==
    /\ At(h, "filter")
    /\ IF FilterStep(h) = "idle" THEN Finish(h) ELSE Goto(h, FilterStep(h))
    /\ UNCHANGED <<order, attempts, gateway, marked, age>>

\* verify asks for the current attempt of the order it read.
Verify(h) ==
    /\ status = "pending"
    /\ Reads(h, "query", "query", "none", current)
    /\ UNCHANGED <<order, attempts, gateway, marked, age>>

\* The administrator's sync asks for the order number: attempt 0.
Sync(h) ==
    /\ status = "pending"
    /\ Reads(h, "query", "query", "none", 0)
    /\ UNCHANGED <<order, attempts, gateway, marked, age>>

\* The gateway answers; a payment that was processed before ends the request.
Answered(h, news) ==
    /\ At(h, "query")
    /\ news \in Tells(req[h].attempt)
    /\ IF news = "paid" /\ Processed(h)
       THEN Finish(h)
       ELSE req' = [req EXCEPT ![h].news = news,
                        ![h].step = IF news = "processing" THEN "note" ELSE "settle"]
    /\ UNCHANGED <<order, attempts, gateway, marked, age>>

\* updateRechargeOrderMetadata: the details as read, with the gateway's news.
Note(h) ==
    /\ At(h, "note")
    /\ current' = IF status = "pending" THEN req[h].seen ELSE current
    /\ IF req[h].source = "callback" THEN Goto(h, "answer") ELSE Finish(h)
    /\ UNCHANGED <<status, credits, attempts, gateway, marked, age>>

\* Mutant: the update leaves out only the closed orders.
Completable_orCompleted == status \in {"pending", "completed"}

\* The WHERE clause of completeRecharge's update.
Completable == status = "pending"

AfterSettle(h) == IF req[h].source = "admin" THEN Finish(h) ELSE Goto(h, "mark")

\* completeRecharge commits: status, details as read, credit.
Complete(h) ==
    /\ At(h, "settle") /\ req[h].news = "paid"
    /\ Completable
    /\ status' = "completed"
    /\ current' = req[h].seen
    /\ credits' = credits + 1
    /\ AfterSettle(h)
    /\ UNCHANGED <<attempts, gateway, marked, age>>

\* It finds the order completed, by itself or by another request.
AlreadyCompleted(h) ==
    /\ At(h, "settle") /\ req[h].news = "paid"
    /\ status = "completed"
    /\ AfterSettle(h)
    /\ UNCHANGED <<order, attempts, gateway, marked, age>>

\* Mutant: the error is answered like a success.
Refused_answered(h) ==
    /\ At(h, "settle") /\ req[h].news = "paid"
    /\ status \in {"failed", "cancelled"}
    /\ Goto(h, "mark")
    /\ UNCHANGED <<order, attempts, gateway, marked, age>>

\* It finds the order closed and throws: the answer is an error.
Refused(h) ==
    /\ At(h, "settle") /\ req[h].news = "paid"
    /\ status \in {"failed", "cancelled"}
    /\ Finish(h)
    /\ UNCHANGED <<order, attempts, gateway, marked, age>>

\* failRecharge or cancelRecharge with the gateway's news and the details as
\* read.  A Heleket query that ends here writes no mark.
Fail(h) ==
    /\ At(h, "settle") /\ req[h].news = "failed"
    /\ \E new \in {"failed", "cancelled"} : CloseIfPending(new)
    /\ current' = IF status = "pending" THEN req[h].seen ELSE current
    /\ \/ Goto(h, "mark")
       \/ req[h].source = "query" /\ Finish(h)
    /\ UNCHANGED <<credits, attempts, gateway, marked, age>>

\* markCallbackProcessed, whose error is ignored.
Mark(h) ==
    /\ At(h, "mark")
    /\ marked' \in {marked, marked \cup {req[h].attempt}}
    /\ IF req[h].source = "callback" THEN Goto(h, "answer") ELSE Finish(h)
    /\ UNCHANGED <<order, attempts, gateway, age>>

\* The answer that stops the gateway's notifications arrives.
Answer(h) ==
    /\ At(h, "answer")
    /\ acked' = IF req[h].news = "processing" THEN acked ELSE acked \cup {req[h].attempt}
    /\ Finish(h)
    /\ UNCHANGED <<order, attempts, result, marked, age>>

\* The process dies, a statement fails, the answer is lost: nobody goes on.
GiveUp(h) ==
    /\ ~At(h, "idle")
    /\ Finish(h)
    /\ UNCHANGED <<order, attempts, gateway, marked, age>>

-------------------------------------------------------------------------------
(* Repay and the ways to close an order *)

\* Mutant: the number of the new attempt is not remembered.
StartRepay_uncounted(h) ==
    /\ status = "pending" /\ age = "fresh"
    /\ issued < MaxAttempts
    /\ Reads(h, "repay", "repay", "none", issued + 1)
    /\ UNCHANGED <<order, attempts, gateway, marked, age>>

\* Repay of a pending order in time: the gateway makes a link for an attempt
\* of its own.
StartRepay(h) ==
    /\ status = "pending" /\ age = "fresh"
    /\ issued < MaxAttempts
    /\ issued' = issued + 1
    /\ Reads(h, "repay", "repay", "none", issued + 1)
    /\ UNCHANGED <<order, links, lastLink, gateway, marked, age>>

\* updatePendingRechargePaymentSelection; the user gets the link if the order
\* still was pending, else 409.
FinishRepay(h) ==
    /\ At(h, "repay")
    /\ IF status = "pending"
       THEN /\ current' = req[h].attempt
            /\ links' = links \cup {req[h].attempt}
            /\ lastLink' = req[h].attempt
       ELSE UNCHANGED <<current, links, lastLink>>
    /\ Finish(h)
    /\ UNCHANGED <<status, credits, issued, gateway, marked, age>>

\* Repay of an order past expiredAt cancels it and answers 400.
RepayExpired(h) ==
    /\ status = "pending" /\ age # "fresh"
    /\ Reads(h, "repay", "tooLate", "none", current)
    /\ UNCHANGED <<order, attempts, gateway, marked, age>>

CancelExpired(h) ==
    /\ At(h, "tooLate")
    /\ CloseIfPending("cancelled")
    /\ Finish(h)
    /\ UNCHANGED <<current, credits, attempts, gateway, marked, age>>

Close(new) ==
    /\ status = "pending"
    /\ status' = new
    /\ UNCHANGED <<current, credits, attempts, gateway, marked, age, req>>

UserCancel == Close("cancelled")
AdminFail == Close("failed")

\* cleanExpiredRechargeOrders, every hour.
Clean == age = "graced" /\ Close("cancelled")

\* The administrator completes the order by hand.
AdminComplete(h) ==
    /\ status = "pending"
    /\ Reads(h, "admin", "settle", "paid", current)
    /\ UNCHANGED <<order, attempts, gateway, marked, age>>

-------------------------------------------------------------------------------
Settle(h) == Complete(h) \/ AlreadyCompleted(h) \/ Refused(h) \/ Fail(h)

Continue(h) ==
    \/ Filter(h) \/ Note(h) \/ Settle(h) \/ Mark(h) \/ Answer(h) \/ FinishRepay(h)
    \/ CancelExpired(h)
    \/ \E news \in News : Answered(h, news)

Arrive(h) ==
    \/ \E a \in Attempts, news \in News : Notify(h, a, news)
    \/ Verify(h) \/ Sync(h) \/ StartRepay(h) \/ RepayExpired(h) \/ AdminComplete(h)

Next ==
    \/ \E h \in Handlers : Arrive(h) \/ Continue(h) \/ GiveUp(h)
    \/ \E a \in Attempts : Pay(a) \/ Lapse(a)
    \/ Age \/ UserCancel \/ AdminFail \/ Clean

Spec == Init /\ [][Next]_vars

Carries(h, a) == req[h].source = "callback" /\ req[h].news = "paid" /\ req[h].attempt = a

\* A request that has begun goes on or is lost.  The gateway repeats the news of a
\* payment until it is answered, and of the requests that bring it not all are
\* lost.
FairSpec ==
    /\ Spec
    /\ \A h \in Handlers : WF_vars(Continue(h))
    /\ \A a \in Attempts :
           /\ SF_vars(\E h \in Handlers : a \notin acked /\ Notify(h, a, "paid"))
           /\ SF_vars(\E h \in Handlers : Carries(h, a) /\ Filter(h))
           /\ SF_vars(\E h \in Handlers : Carries(h, a) /\ Settle(h))
           /\ SF_vars(\E h \in Handlers : Carries(h, a) /\ Mark(h))
           /\ SF_vars(\E h \in Handlers : Carries(h, a) /\ Answer(h))

-------------------------------------------------------------------------------
(* Properties *)

\* However many notifications, verify and sync requests of however many
\* attempts meet, the balance is credited exactly when the order is completed,
\* and once: only the status test of completeRecharge stands between them.
CreditedOnce == credits = IF status = "completed" THEN 1 ELSE 0

\* A completed, failed or cancelled order stays so.
FinalStatus == [][status # "pending" => status' = status]_vars

\* The gateway is not told that a payment is dealt with while the order that has
\* no other link goes without its credit: error answers make it ask again.
PaymentNotDropped ==
    \A a \in acked : result[a] = "paid" /\ links = {a} => credits = 1

\* A payment of the only link does not leave the order pending for ever, though
\* every single notification of it may be lost.
PaidEnds ==
    \A a \in Attempts :
        (status = "pending" /\ links = {a} /\ result[a] = "paid")
            ~> (status # "pending" \/ links # {a})

\* The gateway learns in the end that a payment was dealt with, unless the order
\* was closed without it: also when the server dies between credit and answer.
PaidIsAnswered ==
    \A a \in Attempts :
        result[a] = "paid" ~> (a \in acked \/ status \in {"failed", "cancelled"})

\* Repay leaves one valid payment: the user pays the link he got last, the
\* gateway is told that all is well, so the order is credited.
LatestLinkCounts ==
    lastLink \in acked /\ result[lastLink] = "paid" => credits = 1
===============================================================================
