------------------------------- MODULE BalanceTx -------------------------------
(***************************************************************************)
(* The transactions that move a user's balance, statement by statement,    *)
(* on PostgreSQL at READ COMMITTED.  Three styles of writer share the row: *)
(*                                                                         *)
(*   change    changeBalance: TRY the user's advisory lock, read the       *)
(*             balance, test it, update it conditionally, log the value    *)
(*             read as "before" and the value re-read as "after";          *)
(*   approve   approveBalanceAdjustmentRequest: claim the request row by a *)
(*             conditional update, then the same steps as change;          *)
(*   recharge  completeRecharge: WAIT for the advisory lock, claim the     *)
(*             order row, increment, log "before" as after - amount;       *)
(*   issue     generateGiftCardFromBalance: WAIT for the lock, read,       *)
(*             decrement conditionally, log the value read.                *)
(*                                                                         *)
(* A transaction's writes are private until Commit, which publishes them   *)
(* and drops its locks in one step; Abort drops both.  Abort is possible   *)
(* before every statement (statement and transaction timeouts, a lost      *)
(* connection, a server crash).  A row updated by an open transaction is   *)
(* locked: other updates of it wait.                                       *)
(***************************************************************************)
EXTENDS Integers, Sequences

CONSTANTS
    Users,
    Slots,        \* database connections, each running one transaction at a time
    Requests,     \* rows of balance_adjustment_requests
    Reclaims,     \* the requests that take back a refunded recharge
    Orders,       \* rows of recharge_records
    DocUser,      \* the user each request or order belongs to
    DocAmount,    \* its amount; a manual adjustment may be negative
    Amounts,      \* the positive amounts plain changes use
    InitBalance,  \* each user's balance at the start
    MaxBalance,
    NoDoc,
    None,
    MaxLog        \* bound on the length of a statement when a transaction starts

Docs == Requests \cup Orders

ASSUME ConstantsAssumption ==
    /\ Reclaims \subseteq Requests
    /\ Requests \cap Orders = {}
    /\ DocUser \in [Docs -> Users]
    /\ DocAmount \in [Docs -> Int \ {0}]
    /\ \A o \in Orders : DocAmount[o] > 0
    /\ Amounts \subseteq Nat \ {0}
    /\ MaxBalance \in Nat
    /\ InitBalance \in [Users -> 0..MaxBalance]
    /\ MaxLog \in Nat
    /\ NoDoc \notin Docs
    /\ None \notin Slots

VARIABLES
    balance,      \* committed user.balance
    balanceLog,   \* committed balance_logs rows of each user, oldest first
    docStatus,    \* committed status of each request and order
    lockHolder,   \* the slot that holds a user's advisory lock, or None
    pc,           \* the next statement of each slot
    op,           \* what each slot was asked to do
    claimed,      \* the slots that updated (and so locked) their document's row
    before,       \* balanceBefore as read by the slot
    after         \* the slot's own, uncommitted, value of user.balance

vars == <<balance, balanceLog, docStatus, lockHolder, pc, op, claimed, before,
          after>>

-------------------------------------------------------------------------------
(* Operations *)

\* A refund of a recharge takes -Math.abs(amount), other requests their amount.
RequestAmount(r) ==
    IF r \in Reclaims /\ DocAmount[r] > 0 THEN -DocAmount[r] ELSE DocAmount[r]

ChangeOps ==
    [kind : {"change"}, user : Users, amount : Amounts \cup {-a : a \in Amounts},
     doc : {NoDoc}]
IssueOps ==
    [kind : {"issue"}, user : Users, amount : {-a : a \in Amounts}, doc : {NoDoc}]
ApproveOps ==
    {[kind |-> "approve", user |-> DocUser[r], amount |-> RequestAmount(r),
      doc |-> r] : r \in Requests}
RechargeOps ==
    {[kind |-> "recharge", user |-> DocUser[o], amount |-> DocAmount[o],
      doc |-> o] : o \in Orders}

Ops == ChangeOps \cup IssueOps \cup ApproveOps \cup RechargeOps

Statements == {"lookup", "claim", "tryLock", "waitLock", "read", "update",
               "log", "commit"}

FirstStatement(kind) ==
    CASE kind = "change"   -> "tryLock"
      [] kind = "approve"  -> "lookup"
      [] kind = "recharge" -> "waitLock"
      [] kind = "issue"    -> "waitLock"

\* The slots whose open transaction has updated u's row.
RowWriters(u) == {t \in Slots : pc[t] \in {"log", "commit"} /\ op[t].user = u}

\* The slots whose open transaction has updated d's row.
DocWriters(d) == {t \in claimed : op[t].doc = d}

-------------------------------------------------------------------------------
TypeOK ==
    /\ balance \in [Users -> (-MaxBalance)..MaxBalance]
    /\ balanceLog \in [Users -> Seq([amount : Int, before : Int, after : Int,
                                     doc : Docs \cup {NoDoc}])]
    /\ docStatus \in [Docs -> {"pending", "done", "closed"}]
    /\ lockHolder \in [Users -> Slots \cup {None}]
    /\ pc \in [Slots -> Statements \cup {"idle"}]
    /\ op \in [Slots -> Ops \cup {None}]
    /\ \A t \in Slots : pc[t] # "idle" => op[t] \in Ops
    /\ claimed \subseteq Slots
    /\ before \in [Slots -> Int]
    /\ after \in [Slots -> Int]

Init ==
    /\ balance = InitBalance
    /\ balanceLog = [u \in Users |-> <<>>]
    /\ docStatus = [d \in Docs |-> "pending"]
    /\ lockHolder = [u \in Users |-> None]
    /\ pc = [t \in Slots |-> "idle"]
    /\ op = [t \in Slots |-> None]
    /\ claimed = {}
    /\ before = [t \in Slots |-> 0]
    /\ after = [t \in Slots |-> 0]

-------------------------------------------------------------------------------
(* Statements *)

Goto(t, statement) == pc' = [pc EXCEPT ![t] = statement]

\* Mutant: a lock of the session instead of the transaction, never dropped.
LocksWithout_session(t) == lockHolder

\* The advisory locks once t's are gone.
LocksWithout(t) ==
    [u \in Users |-> IF lockHolder[u] = t THEN None ELSE lockHolder[u]]

\* Mutant: the request is not looked at again once the update waits for it.
DocPending_unchecked(d) == TRUE

\* The WHERE clause on the status of the request or order.
DocPending(d) == docStatus[d] = "pending"

\* The transaction ends without effect: its locks go, its writes are dropped.
Rollback(t) ==
    /\ Goto(t, "idle")
    /\ op' = [op EXCEPT ![t] = None]
    /\ claimed' = claimed \ {t}
    /\ lockHolder' = LocksWithout(t)
    /\ before' = [before EXCEPT ![t] = 0]
    /\ after' = [after EXCEPT ![t] = 0]
    /\ UNCHANGED <<balance, balanceLog, docStatus>>

\* A request arrives.  completeRecharge returns before its transaction starts
\* when the order is already completed, cancelled or failed.
Begin(t) ==
    /\ pc[t] = "idle"
    /\ \E o \in Ops :
           /\ Len(balanceLog[o.user]) < MaxLog
           /\ o.kind = "recharge" => DocPending(o.doc)
           /\ op' = [op EXCEPT ![t] = o]
           /\ Goto(t, FirstStatement(o.kind))
    /\ UNCHANGED <<balance, balanceLog, docStatus, lockHolder, claimed, before,
                   after>>

\* approve reads the request and gives up unless it is pending.
Lookup(t) ==
    /\ pc[t] = "lookup"
    /\ IF DocPending(op[t].doc)
       THEN /\ Goto(t, "claim")
            /\ UNCHANGED <<balance, balanceLog, docStatus, lockHolder, op,
                           claimed, before, after>>
       ELSE Rollback(t)

\* The conditional update of the document's row: it waits for another open
\* transaction that updated the row, then matches only a pending document.
Claim(t) ==
    /\ pc[t] = "claim"
    /\ DocWriters(op[t].doc) = {}
    /\ IF DocPending(op[t].doc)
       THEN /\ claimed' = claimed \cup {t}
            /\ Goto(t, IF op[t].kind = "approve" THEN "tryLock" ELSE "update")
            /\ UNCHANGED <<balance, balanceLog, docStatus, lockHolder, op,
                           before, after>>
       ELSE Rollback(t)

\* Mutant: the answer of the try-lock is not looked at.
LockFree_ignored(u) == TRUE

LockFree(u) == lockHolder[u] = None

\* Mutant: the lock is taken in a transaction of its own, gone at once.
TakeLock_ownTransaction(t) == UNCHANGED lockHolder

TakeLock(t) == lockHolder' = [lockHolder EXCEPT ![op[t].user] = t]

\* pg_try_advisory_xact_lock: never waits; a refused lock aborts the request.
TryLock(t) ==
    /\ pc[t] = "tryLock"
    /\ IF LockFree(op[t].user)
       THEN /\ TakeLock(t)
            /\ Goto(t, "read")
            /\ UNCHANGED <<balance, balanceLog, docStatus, op, claimed, before,
                           after>>
       ELSE Rollback(t)

\* pg_advisory_xact_lock: waits for the holder.
WaitLock(t) ==
    /\ pc[t] = "waitLock"
    /\ LockFree(op[t].user)
    /\ TakeLock(t)
    /\ Goto(t, IF op[t].kind = "recharge" THEN "claim" ELSE "read")
    /\ UNCHANGED <<balance, balanceLog, docStatus, op, claimed, before, after>>

\* The balance is read; change and approve refuse a result out of range.
Acceptable(t) ==
    op[t].kind \in {"change", "approve"} =>
        LET result == balance[op[t].user] + op[t].amount IN
        /\ ~(op[t].amount < 0 /\ result < 0)
        /\ -MaxBalance <= result /\ result <= MaxBalance

ReadBalance(t) ==
    /\ pc[t] = "read"
    /\ IF Acceptable(t)
       THEN /\ before' = [before EXCEPT ![t] = balance[op[t].user]]
            /\ Goto(t, "update")
            /\ UNCHANGED <<balance, balanceLog, docStatus, lockHolder, op,
                           claimed, after>>
       ELSE Rollback(t)

\* Mutant: nothing bounds the balance from above.
UpdateMatches_unbounded(t) ==
    op[t].amount < 0 => balance[op[t].user] >= -op[t].amount

\* UPDATE users SET balance = balance + amount: debits match only a row with
\* enough balance, and the column refuses a value it cannot hold.
UpdateMatches(t) ==
    /\ op[t].amount < 0 => balance[op[t].user] >= -op[t].amount
    /\ balance[op[t].user] + op[t].amount <= MaxBalance

UpdateBalance(t) ==
    /\ pc[t] = "update"
    /\ RowWriters(op[t].user) = {}
    /\ IF UpdateMatches(t)
       THEN /\ after' = [after EXCEPT ![t] = balance[op[t].user] + op[t].amount]
            /\ Goto(t, "log")
            /\ UNCHANGED <<balance, balanceLog, docStatus, lockHolder, op,
                           claimed, before>>
       ELSE Rollback(t)

\* The log row is built from the re-read balance; completeRecharge derives
\* balanceBefore from it, the others quote what they read.
WriteLog(t) ==
    /\ pc[t] = "log"
    /\ before' = IF op[t].kind = "recharge"
                 THEN [before EXCEPT ![t] = after[t] - op[t].amount]
                 ELSE before
    /\ Goto(t, "commit")
    /\ UNCHANGED <<balance, balanceLog, docStatus, lockHolder, op, claimed,
                   after>>

LogRow(t) == [amount |-> op[t].amount, before |-> before[t],
              after |-> after[t], doc |-> op[t].doc]

\* The document statuses with t's claim.
StatusAfter(t) ==
    [d \in Docs |-> IF t \in claimed /\ d = op[t].doc THEN "done" ELSE docStatus[d]]

\* Everything the transaction wrote becomes visible and its locks go.
Commit(t) ==
    /\ pc[t] = "commit"
    /\ balance' = [balance EXCEPT ![op[t].user] = after[t]]
    /\ balanceLog' = [balanceLog EXCEPT ![op[t].user] = Append(@, LogRow(t))]
    /\ docStatus' = StatusAfter(t)
    /\ lockHolder' = LocksWithout(t)
    /\ Goto(t, "idle")
    /\ op' = [op EXCEPT ![t] = None]
    /\ claimed' = claimed \ {t}
    /\ before' = [before EXCEPT ![t] = 0]
    /\ after' = [after EXCEPT ![t] = 0]

\* A timeout, a lost connection or a crash ends an open transaction.
Abort(t) ==
    /\ pc[t] # "idle"
    /\ Rollback(t)

\* rejectBalanceAdjustmentRequest, cancelRecharge, failRecharge, expireOrders:
\* one conditional update, which waits for a transaction that claimed the row.
CloseDoc(d) ==
    /\ DocWriters(d) = {}
    /\ DocPending(d)
    /\ docStatus' = [docStatus EXCEPT ![d] = "closed"]
    /\ UNCHANGED <<balance, balanceLog, lockHolder, pc, op, claimed, before,
                   after>>

Statement(t) ==
    \/ Lookup(t) \/ Claim(t) \/ TryLock(t) \/ WaitLock(t) \/ ReadBalance(t)
    \/ UpdateBalance(t) \/ WriteLog(t) \/ Commit(t)

Next ==
    \/ \E t \in Slots : Begin(t) \/ Statement(t) \/ Abort(t)
    \/ \E d \in Docs : CloseDoc(d)

Spec == Init /\ [][Next]_vars

\* A connection keeps executing its statements.  PostgreSQL serves the waiters
\* of a lock in order, so one that waits forever is not passed over forever.
Fairness ==
    \A t \in Slots : /\ WF_vars(Statement(t))
                     /\ SF_vars(WaitLock(t))
                     /\ SF_vars(Claim(t))

FairSpec == Spec /\ Fairness

-------------------------------------------------------------------------------
(* Properties *)

\* No interleaving of debits, whatever locks they try or wait for, takes a
\* user below zero ("余额不足" is the answer instead).
NeverOverdrawn == \A u \in Users : balance[u] >= 0

\* A statement adds up: it starts at the initial balance, every row continues
\* where the previous one ended and moves by its amount, and the last row ends
\* at the balance.  Snapshot and derived "before" values must agree for this.
StatementAddsUp ==
    \A u \in Users :
        LET rows == balanceLog[u]
            Start(i) == IF i = 1 THEN InitBalance[u] ELSE rows[i - 1].after
        IN /\ \A i \in 1..Len(rows) : /\ rows[i].before = Start(i)
                                      /\ rows[i].after = Start(i) + rows[i].amount
           /\ balance[u] = Start(Len(rows) + 1)

\* The balance a transaction read is still the committed one when it uses it:
\* every other writer is kept out between the read and the commit.
SnapshotFresh ==
    \A t \in Slots :
        /\ pc[t] \in {"update", "log", "commit"} /\ op[t].kind # "recharge"
               => before[t] = balance[op[t].user]
        /\ pc[t] \in {"log", "commit"}
               => after[t] = balance[op[t].user] + op[t].amount

\* The committed balance and statements behave as the abstract ledger does:
\* every commit is one posting, every other step is invisible.
L == INSTANCE Ledger
     WITH balance <- balance, balanceLog <- balanceLog, Users <- Users, Docs <- Docs,
          NoDoc <- NoDoc, MaxBalance <- MaxBalance
LedgerSpec == L!Spec

\* A request or order is done exactly when a row of some statement quotes it,
\* and only one row does; a closed one (rejected, cancelled, failed) is never
\* posted.
SettledOnce ==
    /\ \A d \in Docs : docStatus[d] = "done" <=> d \in L!Settled
    /\ \A u, v \in Users :
           \A i \in DOMAIN balanceLog[u], j \in DOMAIN balanceLog[v] :
               /\ balanceLog[u][i].doc # NoDoc
               /\ balanceLog[u][i].doc = balanceLog[v][j].doc
               => u = v /\ i = j

\* Every transaction that starts commits or rolls back: no waiter of an
\* advisory or row lock is blocked forever.
TransactionEnds == \A t \in Slots : []<>(pc[t] = "idle")
===============================================================================
