--------------------------- MODULE BalanceTx_proofs ---------------------------
(***************************************************************************)
(* The balance transactions implement the abstract ledger, for any number  *)
(* of users, connections, requests and orders.  The argument: a writer     *)
(* holds the user's advisory lock from before it reads the balance until   *)
(* it ends, so what it read is what it updates; a document's row stays     *)
(* locked from its claim until the claim is committed.                     *)
(***************************************************************************)
EXTENDS TLAPS, BalanceTx

-------------------------------------------------------------------------------
(* The inductive invariant *)

\* From its lock statement on, a transaction holds its user's advisory lock.
HoldsLock(t) ==
    \/ pc[t] \in {"read", "update", "log", "commit"}
    \/ pc[t] = "claim" /\ op[t].kind = "recharge"

LockInv == \A t \in Slots : HoldsLock(t) => lockHolder[op[t].user] = t

\* Which kinds reach which statements, and which of them hold a claim.
ClaimInv ==
    /\ \A t \in Slots :
           /\ pc[t] = "lookup" => op[t].kind = "approve"
           /\ pc[t] = "claim" => op[t].kind \in {"approve", "recharge"}
           /\ pc[t] = "waitLock" => op[t].kind \in {"recharge", "issue"}
           /\ pc[t] \in {"tryLock", "read"} => op[t].kind # "recharge"
           /\ pc[t] \in {"tryLock", "read", "update", "log", "commit"}
                  /\ op[t].kind \in {"approve", "recharge"} => t \in claimed
    /\ \A t \in claimed :
           /\ pc[t] # "idle"
           /\ op[t].kind \in {"approve", "recharge"}
           /\ docStatus[op[t].doc] = "pending"
    /\ \A s, t \in claimed : op[s].doc = op[t].doc => s = t

\* What a transaction carries agrees with the committed balance.
ValueInv ==
    /\ SnapshotFresh
    /\ \A t \in Slots :
           /\ pc[t] \in {"log", "commit"} => after[t] \in 0..MaxBalance
           /\ pc[t] = "commit" => before[t] = balance[op[t].user]

IInv ==
    /\ TypeOK
    /\ NeverOverdrawn
    /\ LockInv
    /\ ClaimInv
    /\ ValueInv
    /\ SettledOnce
    /\ StatementAddsUp

\* What the four sets of operations have in common.
LEMMA OpsAreTyped ==
    ASSUME NEW o \in Ops
    PROVE  /\ o.kind \in {"change", "issue", "approve", "recharge"}
           /\ o.user \in Users
           /\ o.amount \in Int
           /\ o.doc \in Docs \cup {NoDoc}
           /\ o.kind \in {"change", "issue"} => o.doc = NoDoc
           /\ o.kind \in {"approve", "recharge"} => o.doc \in Docs
           /\ o.kind = "recharge" => o.amount > 0
PROOF
  <1>1. CASE o \in ChangeOps \cup IssueOps
    <2>1. \A a \in Amounts : a \in Int BY ConstantsAssumption
    <2>2. o.amount \in Amounts \cup {-a : a \in Amounts}
      BY <1>1 DEF ChangeOps, IssueOps
    <2>3. o.amount \in Int BY <2>1, <2>2
    <2>4. /\ o.kind \in {"change", "issue"}
          /\ o.user \in Users
          /\ o.doc = NoDoc
      BY <1>1 DEF ChangeOps, IssueOps
    <2> QED BY <2>3, <2>4
  <1>2. CASE o \in ApproveOps
    <2>1. PICK r \in Requests :
              o = [kind |-> "approve", user |-> DocUser[r],
                   amount |-> RequestAmount(r), doc |-> r]
      BY <1>2 DEF ApproveOps
    <2>2. DocUser[r] \in Users /\ RequestAmount(r) \in Int /\ r \in Docs
      BY ConstantsAssumption DEF RequestAmount, Docs
    <2> QED BY <2>1, <2>2
  <1>3. CASE o \in RechargeOps
    BY <1>3, ConstantsAssumption DEF RechargeOps, Docs
  <1> QED BY <1>1, <1>2, <1>3 DEF Ops

\* The same of the operation an open transaction runs.
LEMMA OpenTransactionIsTyped ==
    ASSUME TypeOK, NEW t \in Slots, pc[t] # "idle"
    PROVE  /\ op[t].kind \in {"change", "issue", "approve", "recharge"}
           /\ op[t].user \in Users
           /\ op[t].amount \in Int
           /\ op[t].doc \in Docs \cup {NoDoc}
           /\ op[t].kind \in {"change", "issue"} => op[t].doc = NoDoc
           /\ op[t].kind \in {"approve", "recharge"} => op[t].doc \in Docs
           /\ op[t].kind = "recharge" => op[t].amount > 0
PROOF
  <1>1. op[t] \in Ops BY DEF TypeOK
  <1> QED BY <1>1, OpsAreTyped

\* Appending a row keeps the earlier rows where they are.
LEMMA AppendedRow ==
    ASSUME NEW S, NEW rows \in Seq(S), NEW r \in S
    PROVE  /\ Len(Append(rows, r)) = Len(rows) + 1
           /\ DOMAIN Append(rows, r) = 1..(Len(rows) + 1)
           /\ Append(rows, r)[Len(rows) + 1] = r
           /\ \A i \in DOMAIN rows : Append(rows, r)[i] = rows[i]
OBVIOUS

LEMMA InitEstablishes == Init => IInv
PROOF
  <1> SUFFICES ASSUME Init PROVE IInv OBVIOUS
  <1>1. InitBalance \in [Users -> 0..MaxBalance] /\ MaxBalance \in Nat
    BY ConstantsAssumption
  <1>2. \A u \in Users : /\ balance[u] = InitBalance[u]
                          /\ balance[u] \in 0..MaxBalance
                          /\ balanceLog[u] = <<>>
    BY <1>1 DEF Init
  <1>3. \A t \in Slots : pc[t] = "idle"
    BY DEF Init
  <1>4. \A d \in Docs : docStatus[d] = "pending"
    BY DEF Init
  <1>5. TypeOK
    <2>1. balance \in [Users -> (-MaxBalance)..MaxBalance]
      BY <1>1, <1>2 DEF Init
    <2> QED BY <2>1, <1>3 DEF TypeOK, Init
  <1>6. NeverOverdrawn
    BY <1>1, <1>2 DEF NeverOverdrawn
  <1>7. LockInv /\ ClaimInv /\ ValueInv
    BY <1>3 DEF LockInv, HoldsLock, ClaimInv, ValueInv, SnapshotFresh, Init
  <1>8. SettledOnce
    BY <1>2, <1>4 DEF SettledOnce, L!Settled
  <1>9. StatementAddsUp
    BY <1>2 DEF StatementAddsUp
  <1> QED BY <1>5, <1>6, <1>7, <1>8, <1>9 DEF IInv

-------------------------------------------------------------------------------
(* Steps *)

\* What only speaks of committed data survives a step that commits nothing.
LEMMA PrivateStep ==
    ASSUME NeverOverdrawn, SettledOnce, StatementAddsUp,
           UNCHANGED <<balance, balanceLog, docStatus>>
    PROVE  NeverOverdrawn' /\ SettledOnce' /\ StatementAddsUp'
PROOF
  <1>1. NeverOverdrawn' BY DEF NeverOverdrawn
  <1>2. SettledOnce' BY DEF SettledOnce, L!Settled
  <1>3. StatementAddsUp' BY DEF StatementAddsUp
  <1> QED BY <1>1, <1>2, <1>3

\* A rolled back transaction leaves no trace and frees only its own locks.
LEMMA RollbackKeeps ==
    ASSUME IInv, NEW t \in Slots, Rollback(t)
    PROVE  IInv'
PROOF
  <1> USE DEF IInv
  <1>1. TypeOK'
    <2>1. lockHolder' \in [Users -> Slots \cup {None}]
      BY DEF TypeOK, Rollback, LocksWithout
    <2>2. pc' \in [Slots -> Statements \cup {"idle"}] /\ pc'[t] = "idle"
      BY DEF TypeOK, Rollback, Goto
    <2>3. op' \in [Slots -> Ops \cup {None}]
      BY DEF TypeOK, Rollback
    <2>4. \A s \in Slots : s # t => pc'[s] = pc[s] /\ op'[s] = op[s]
      BY DEF TypeOK, Rollback, Goto
    <2>5. before' \in [Slots -> Int] /\ after' \in [Slots -> Int]
      BY DEF TypeOK, Rollback
    <2>6. claimed' \subseteq Slots
      BY DEF TypeOK, Rollback
    <2> QED BY <2>1, <2>2, <2>3, <2>4, <2>5, <2>6 DEF TypeOK, Rollback
  <1>2. LockInv'
    <2> SUFFICES ASSUME NEW s \in Slots, HoldsLock(s)'
                 PROVE  lockHolder'[op'[s].user] = s
      BY DEF LockInv
    <2>1. s # t /\ pc'[s] = pc[s] /\ op'[s] = op[s]
      BY DEF TypeOK, Rollback, Goto, HoldsLock
    <2>2. lockHolder[op[s].user] = s /\ pc[s] # "idle"
      BY <2>1 DEF HoldsLock, LockInv
    <2>3. op[s].user \in Users
      BY <2>2, OpenTransactionIsTyped
    <2> QED BY <2>1, <2>2, <2>3 DEF Rollback, LocksWithout
  <1>3. ClaimInv' BY DEF TypeOK, ClaimInv, Rollback, Goto
  <1>4. ValueInv'
    BY DEF TypeOK, ValueInv, SnapshotFresh, Rollback, Goto
  <1> QED BY <1>1, <1>2, <1>3, <1>4, PrivateStep DEF Rollback

LEMMA BeginKeeps ==
    ASSUME IInv, NEW t \in Slots, Begin(t)
    PROVE  IInv'
PROOF
  <1> USE DEF IInv
  <1>1. PICK o \in Ops : /\ op' = [op EXCEPT ![t] = o]
                         /\ Goto(t, FirstStatement(o.kind))
    BY DEF Begin
  <1>2. /\ pc[t] = "idle"
        /\ UNCHANGED <<balance, balanceLog, docStatus, lockHolder, claimed,
                       before, after>>
    BY DEF Begin
  <1>3. o.kind \in {"change", "issue", "approve", "recharge"}
    BY OpsAreTyped
  <1>4. /\ FirstStatement(o.kind) \in {"lookup", "tryLock", "waitLock"}
        /\ o.kind \in {"recharge", "issue"} <=> FirstStatement(o.kind) = "waitLock"
        /\ o.kind = "approve" <=> FirstStatement(o.kind) = "lookup"
    BY <1>3 DEF FirstStatement
  <1>5. TypeOK' BY <1>1, <1>2, <1>4 DEF TypeOK, Goto, Statements
  <1>6. LockInv' BY <1>1, <1>2, <1>4 DEF TypeOK, LockInv, HoldsLock, Goto
  <1>7. ClaimInv' BY <1>1, <1>2, <1>4 DEF TypeOK, ClaimInv, Goto
  <1>8. ValueInv'
    BY <1>1, <1>2, <1>4 DEF TypeOK, ValueInv, SnapshotFresh, Goto
  <1> QED BY <1>2, <1>5, <1>6, <1>7, <1>8, PrivateStep

\* Reading the request changes nothing else.
LEMMA LookupKeeps ==
    ASSUME IInv, NEW t \in Slots, Lookup(t)
    PROVE  IInv'
PROOF
  <1> USE DEF IInv
  <1>1. CASE Rollback(t)
    BY <1>1, RollbackKeeps
  <1>2. CASE ~Rollback(t)
    <2>1. pc[t] = "lookup" /\ Goto(t, "claim")
      BY <1>2 DEF Lookup
    <2>2. UNCHANGED <<balance, balanceLog, docStatus, lockHolder, op, claimed,
                      before, after>>
      BY <1>2 DEF Lookup
    <2>3. /\ op[t].kind \in {"change", "issue", "approve", "recharge"}
          /\ op[t].user \in Users
          /\ op[t].amount \in Int
      BY <2>1, OpenTransactionIsTyped
    <2>6. TypeOK' BY <2>1, <2>2, <2>3 DEF TypeOK, Goto, Statements
    <2>7. LockInv' BY <2>1, <2>2, <2>3 DEF TypeOK, LockInv, HoldsLock, ClaimInv, Goto
    <2>8. ClaimInv' BY <2>1, <2>2, <2>3 DEF TypeOK, ClaimInv, Goto
    <2>9. ValueInv' BY <2>1, <2>2, <2>3 DEF TypeOK, ValueInv, SnapshotFresh, Goto
    <2> QED BY <2>2, <2>6, <2>7, <2>8, <2>9, PrivateStep
  <1> QED BY <1>1, <1>2

\* A claim is exclusive: nobody else has one on the row, which is pending.
LEMMA ClaimKeeps ==
    ASSUME IInv, NEW t \in Slots, Claim(t)
    PROVE  IInv'
PROOF
  <1> USE DEF IInv
  <1>1. CASE Rollback(t)
    BY <1>1, RollbackKeeps
  <1>2. CASE ~Rollback(t)
    <2>1. /\ pc[t] = "claim"
          /\ DocWriters(op[t].doc) = {}
          /\ docStatus[op[t].doc] = "pending"
          /\ claimed' = claimed \cup {t}
          /\ Goto(t, IF op[t].kind = "approve" THEN "tryLock" ELSE "update")
      BY <1>2 DEF Claim, DocPending
    <2>2. UNCHANGED <<balance, balanceLog, docStatus, lockHolder, op, before,
                      after>>
      BY <1>2 DEF Claim
    <2>3. /\ op[t].kind \in {"change", "issue", "approve", "recharge"}
          /\ op[t].user \in Users
          /\ op[t].amount \in Int
      BY <2>1, OpenTransactionIsTyped
    <2>4. op[t].kind \in {"approve", "recharge"}
      BY <2>1 DEF ClaimInv
    <2>5. \A s \in claimed : op[s].doc # op[t].doc
      BY <2>1 DEF DocWriters
    <2>6. TypeOK' BY <2>1, <2>2, <2>3 DEF TypeOK, Goto, Statements
    <2>7. LockInv' BY <2>1, <2>2, <2>3, <2>4 DEF TypeOK, LockInv, HoldsLock, Goto
    <2>8. ClaimInv' BY <2>1, <2>2, <2>3, <2>4, <2>5 DEF TypeOK, ClaimInv, Goto
    <2>9. ValueInv' BY <2>1, <2>2, <2>3, <2>4 DEF TypeOK, ValueInv, SnapshotFresh, Goto
    <2> QED BY <2>2, <2>6, <2>7, <2>8, <2>9, PrivateStep
  <1> QED BY <1>1, <1>2

\* The lock was free, so nobody else relies on it.
LEMMA TryLockKeeps ==
    ASSUME IInv, NEW t \in Slots, TryLock(t)
    PROVE  IInv'
PROOF
  <1> USE DEF IInv
  <1>1. CASE Rollback(t)
    BY <1>1, RollbackKeeps
  <1>2. CASE ~Rollback(t)
    <2>1. /\ pc[t] = "tryLock" /\ Goto(t, "read")
          /\ lockHolder[op[t].user] = None
          /\ lockHolder' = [lockHolder EXCEPT ![op[t].user] = t]
      BY <1>2 DEF TryLock, LockFree, TakeLock
    <2>2. UNCHANGED <<balance, balanceLog, docStatus, op, claimed, before, after>>
      BY <1>2 DEF TryLock
    <2>3. /\ op[t].kind \in {"change", "issue", "approve", "recharge"}
          /\ op[t].user \in Users
          /\ op[t].amount \in Int
      BY <2>1, OpenTransactionIsTyped
    <2>4. \A s \in Slots : HoldsLock(s) => op[s].user # op[t].user
      BY <2>1, ConstantsAssumption DEF LockInv
    <2>6. TypeOK' BY <2>1, <2>2, <2>3 DEF TypeOK, Goto, Statements
    <2>7. LockInv' BY <2>1, <2>2, <2>3, <2>4 DEF TypeOK, LockInv, HoldsLock, Goto
    <2>8. ClaimInv' BY <2>1, <2>2, <2>3 DEF TypeOK, ClaimInv, Goto
    <2>9. ValueInv' BY <2>1, <2>2, <2>3 DEF TypeOK, ValueInv, SnapshotFresh, Goto
    <2> QED BY <2>2, <2>6, <2>7, <2>8, <2>9, PrivateStep
  <1> QED BY <1>1, <1>2

\* As TryLock: the waiter proceeds only when the lock is free.
LEMMA WaitLockKeeps ==
    ASSUME IInv, NEW t \in Slots, WaitLock(t)
    PROVE  IInv'
PROOF
  <1> USE DEF IInv
  <1>1. CASE Rollback(t)
    BY <1>1, RollbackKeeps
  <1>2. CASE ~Rollback(t)
    <2>1. /\ pc[t] = "waitLock"
          /\ Goto(t, IF op[t].kind = "recharge" THEN "claim" ELSE "read")
          /\ lockHolder[op[t].user] = None
          /\ lockHolder' = [lockHolder EXCEPT ![op[t].user] = t]
      BY <1>2 DEF WaitLock, LockFree, TakeLock
    <2>2. UNCHANGED <<balance, balanceLog, docStatus, op, claimed, before, after>>
      BY <1>2 DEF WaitLock
    <2>3. /\ op[t].kind \in {"change", "issue", "approve", "recharge"}
          /\ op[t].user \in Users
          /\ op[t].amount \in Int
      BY <2>1, OpenTransactionIsTyped
    <2>4. \A s \in Slots : HoldsLock(s) => op[s].user # op[t].user
      BY <2>1, ConstantsAssumption DEF LockInv
    <2>6. TypeOK' BY <2>1, <2>2, <2>3 DEF TypeOK, Goto, Statements
    <2>7. LockInv' BY <2>1, <2>2, <2>3, <2>4 DEF TypeOK, LockInv, HoldsLock, Goto
    <2>8. ClaimInv' BY <2>1, <2>2, <2>3 DEF TypeOK, ClaimInv, Goto
    <2>9. ValueInv' BY <2>1, <2>2, <2>3 DEF TypeOK, ValueInv, SnapshotFresh, Goto
    <2> QED BY <2>2, <2>6, <2>7, <2>8, <2>9, PrivateStep
  <1> QED BY <1>1, <1>2

\* The value read is the committed balance.
LEMMA ReadBalanceKeeps ==
    ASSUME IInv, NEW t \in Slots, ReadBalance(t)
    PROVE  IInv'
PROOF
  <1> USE DEF IInv
  <1>1. CASE Rollback(t)
    BY <1>1, RollbackKeeps
  <1>2. CASE ~Rollback(t)
    <2>1. /\ pc[t] = "read" /\ Goto(t, "update")
          /\ before' = [before EXCEPT ![t] = balance[op[t].user]]
      BY <1>2 DEF ReadBalance
    <2>2. UNCHANGED <<balance, balanceLog, docStatus, lockHolder, op, claimed,
                      after>>
      BY <1>2 DEF ReadBalance
    <2>3. /\ op[t].kind \in {"change", "issue", "approve", "recharge"}
          /\ op[t].user \in Users
          /\ op[t].amount \in Int
      BY <2>1, OpenTransactionIsTyped
    <2>6. TypeOK'
      <3>1. pc' \in [Slots -> Statements \cup {"idle"}] /\ pc'[t] # "idle"
        BY <2>1 DEF TypeOK, Goto, Statements
      <3>2. \A s \in Slots : pc'[s] # "idle" => pc[s] # "idle"
        BY <2>1 DEF TypeOK, Goto
      <3>3. before' \in [Slots -> Int] /\ after' \in [Slots -> Int]
        BY <2>1, <2>2, <2>3 DEF TypeOK
      <3> QED BY <2>2, <3>1, <3>2, <3>3 DEF TypeOK
    <2>7. LockInv' BY <2>1, <2>2, <2>3 DEF TypeOK, LockInv, HoldsLock, Goto
    <2>8. ClaimInv' BY <2>1, <2>2, <2>3 DEF TypeOK, ClaimInv, Goto
    <2>9. ValueInv' BY <2>1, <2>2, <2>3 DEF TypeOK, ValueInv, SnapshotFresh, Goto
    <2> QED BY <2>2, <2>6, <2>7, <2>8, <2>9, PrivateStep
  <1> QED BY <1>1, <1>2

\* The new balance stays within the limits.
LEMMA UpdateBalanceKeeps ==
    ASSUME IInv, NEW t \in Slots, UpdateBalance(t)
    PROVE  IInv'
PROOF
  <1> USE DEF IInv
  <1>1. CASE Rollback(t)
    BY <1>1, RollbackKeeps
  <1>2. CASE ~Rollback(t)
    <2>1. /\ pc[t] = "update" /\ Goto(t, "log")
          /\ UpdateMatches(t)
          /\ after' = [after EXCEPT ![t] = balance[op[t].user] + op[t].amount]
      BY <1>2 DEF UpdateBalance
    <2>2. UNCHANGED <<balance, balanceLog, docStatus, lockHolder, op, claimed,
                      before>>
      BY <1>2 DEF UpdateBalance
    <2>3. /\ op[t].kind \in {"change", "issue", "approve", "recharge"}
          /\ op[t].user \in Users
          /\ op[t].amount \in Int
      BY <2>1, OpenTransactionIsTyped
    <2>4. balance[op[t].user] \in 0..MaxBalance
      BY <2>3, ConstantsAssumption DEF TypeOK, NeverOverdrawn
    <2>5. balance[op[t].user] + op[t].amount \in 0..MaxBalance
      BY <2>1, <2>3, <2>4, ConstantsAssumption DEF UpdateMatches
    <2>6. TypeOK'
      <3>1. pc' \in [Slots -> Statements \cup {"idle"}] /\ pc'[t] # "idle"
        BY <2>1 DEF TypeOK, Goto, Statements
      <3>2. \A s \in Slots : pc'[s] # "idle" => pc[s] # "idle"
        BY <2>1 DEF TypeOK, Goto
      <3>3. before' \in [Slots -> Int] /\ after' \in [Slots -> Int]
        BY <2>1, <2>2, <2>5 DEF TypeOK
      <3> QED BY <2>2, <3>1, <3>2, <3>3 DEF TypeOK
    <2>7. LockInv' BY <2>1, <2>2, <2>3 DEF TypeOK, LockInv, HoldsLock, Goto
    <2>8. ClaimInv' BY <2>1, <2>2, <2>3 DEF TypeOK, ClaimInv, Goto
    <2>9. ValueInv' BY <2>1, <2>2, <2>3, <2>4, <2>5 DEF TypeOK, ValueInv, SnapshotFresh, Goto
    <2> QED BY <2>2, <2>6, <2>7, <2>8, <2>9, PrivateStep
  <1> QED BY <1>1, <1>2

\* Read or derived, "before" is the committed balance.
LEMMA WriteLogKeeps ==
    ASSUME IInv, NEW t \in Slots, WriteLog(t)
    PROVE  IInv'
PROOF
  <1> USE DEF IInv
  <1>1. CASE Rollback(t)
    BY <1>1, RollbackKeeps
  <1>2. CASE ~Rollback(t)
    <2>1. /\ pc[t] = "log" /\ Goto(t, "commit")
          /\ before' = IF op[t].kind = "recharge"
                       THEN [before EXCEPT ![t] = after[t] - op[t].amount]
                       ELSE before
      BY <1>2 DEF WriteLog
    <2>2. UNCHANGED <<balance, balanceLog, docStatus, lockHolder, op, claimed,
                      after>>
      BY <1>2 DEF WriteLog
    <2>3. /\ op[t].kind \in {"change", "issue", "approve", "recharge"}
          /\ op[t].user \in Users
          /\ op[t].amount \in Int
      BY <2>1, OpenTransactionIsTyped
    <2>4. /\ after[t] = balance[op[t].user] + op[t].amount
          /\ after[t] \in Int
          /\ balance[op[t].user] \in Int
          /\ op[t].kind # "recharge" => before[t] = balance[op[t].user]
      BY <2>1, <2>3 DEF TypeOK, ValueInv, SnapshotFresh
    <2>5. before'[t] = balance[op[t].user]
      BY <2>1, <2>3, <2>4 DEF TypeOK
    <2>6. TypeOK'
      <3>1. pc' \in [Slots -> Statements \cup {"idle"}] /\ pc'[t] # "idle"
        BY <2>1 DEF TypeOK, Goto, Statements
      <3>2. \A s \in Slots : pc'[s] # "idle" => pc[s] # "idle"
        BY <2>1 DEF TypeOK, Goto
      <3>3. before' \in [Slots -> Int] /\ after' \in [Slots -> Int]
        BY <2>1, <2>2, <2>4, <2>5 DEF TypeOK
      <3> QED BY <2>2, <3>1, <3>2, <3>3 DEF TypeOK
    <2>7. LockInv' BY <2>1, <2>2, <2>3 DEF TypeOK, LockInv, HoldsLock, Goto
    <2>8. ClaimInv' BY <2>1, <2>2, <2>3 DEF TypeOK, ClaimInv, Goto
    <2>9. ValueInv' BY <2>1, <2>2, <2>3, <2>4, <2>5 DEF TypeOK, ValueInv, SnapshotFresh, Goto
    <2> QED BY <2>2, <2>6, <2>7, <2>8, <2>9, PrivateStep
  <1> QED BY <1>1, <1>2

\* Closing a document needs its row: no open transaction has claimed it.
LEMMA CloseDocKeeps ==
    ASSUME IInv, NEW d \in Docs, CloseDoc(d)
    PROVE  IInv'
PROOF
  <1> USE DEF IInv
  <1>1. /\ docStatus[d] = "pending"
        /\ docStatus' = [docStatus EXCEPT ![d] = "closed"]
        /\ \A s \in claimed : op[s].doc # d
        /\ UNCHANGED <<balance, balanceLog, lockHolder, pc, op, claimed, before,
                       after>>
    BY DEF CloseDoc, DocPending, DocWriters
  <1>2. TypeOK' BY <1>1 DEF TypeOK
  <1>3. NeverOverdrawn' BY <1>1 DEF NeverOverdrawn
  <1>4. LockInv' BY <1>1 DEF LockInv, HoldsLock
  <1>5. ClaimInv' BY <1>1 DEF TypeOK, ClaimInv
  <1>6. ValueInv' BY <1>1 DEF ValueInv, SnapshotFresh
  <1>7. SettledOnce'
    <2>1. L!Settled' = L!Settled BY <1>1 DEF L!Settled
    <2> QED BY <1>1, <2>1 DEF TypeOK, SettledOnce
  <1>8. StatementAddsUp' BY <1>1 DEF StatementAddsUp
  <1> QED BY <1>2, <1>3, <1>4, <1>5, <1>6, <1>7, <1>8

\* What a transaction about to commit is known to carry.
LEMMA ReadyToCommit ==
    ASSUME IInv, NEW t \in Slots, pc[t] = "commit"
    PROVE  /\ op[t].user \in Users
           /\ op[t].amount \in Int
           /\ op[t].doc \in Docs \cup {NoDoc}
           /\ balance[op[t].user] \in 0..MaxBalance
           /\ before[t] = balance[op[t].user]
           /\ after[t] = balance[op[t].user] + op[t].amount
           /\ after[t] \in 0..MaxBalance
           /\ t \in claimed <=> op[t].doc \in Docs
           /\ op[t].doc \notin L!Settled
PROOF
  <1> USE DEF IInv
  <1>1. /\ op[t].kind \in {"change", "issue", "approve", "recharge"}
        /\ op[t].user \in Users
        /\ op[t].amount \in Int
        /\ op[t].doc \in Docs \cup {NoDoc}
        /\ op[t].kind \in {"change", "issue"} => op[t].doc = NoDoc
        /\ op[t].kind \in {"approve", "recharge"} => op[t].doc \in Docs
    BY OpenTransactionIsTyped
  <1>2. balance[op[t].user] \in 0..MaxBalance
    BY <1>1, ConstantsAssumption DEF TypeOK, NeverOverdrawn
  <1>3. /\ before[t] = balance[op[t].user]
        /\ after[t] = balance[op[t].user] + op[t].amount
        /\ after[t] \in 0..MaxBalance
    BY DEF ValueInv, SnapshotFresh
  <1>4. t \in claimed <=> op[t].doc \in Docs
    BY <1>1, ConstantsAssumption DEF ClaimInv
  <1>5. op[t].doc \notin L!Settled
    <2>1. CASE op[t].doc \in Docs
      BY <1>4, <2>1 DEF ClaimInv, SettledOnce
    <2>2. CASE op[t].doc \notin Docs
      BY <2>2 DEF L!Settled
    <2> QED BY <2>1, <2>2
  <1> QED BY <1>1, <1>2, <1>3, <1>4, <1>5

LEMMA CommitKeeps ==
    ASSUME IInv, NEW t \in Slots, Commit(t)
    PROVE  IInv'
PROOF
  <1> USE DEF IInv
  <1> DEFINE u == op[t].user
             row == LogRow(t)
  <1>1. /\ pc[t] = "commit"
        /\ pc' = [pc EXCEPT ![t] = "idle"]
        /\ op' = [op EXCEPT ![t] = None]
        /\ claimed' = claimed \ {t}
        /\ before' = [before EXCEPT ![t] = 0]
        /\ after' = [after EXCEPT ![t] = 0]
        /\ balance' = [balance EXCEPT ![u] = after[t]]
        /\ balanceLog' = [balanceLog EXCEPT ![u] = Append(@, row)]
        /\ docStatus' = [d \in Docs |->
               IF t \in claimed /\ d = op[t].doc THEN "done" ELSE docStatus[d]]
        /\ lockHolder' = [v \in Users |->
               IF lockHolder[v] = t THEN None ELSE lockHolder[v]]
    BY DEF Commit, Goto, StatusAfter, LocksWithout
  <1>2. /\ u \in Users
        /\ op[t].amount \in Int
        /\ op[t].doc \in Docs \cup {NoDoc}
        /\ balance[u] \in 0..MaxBalance
        /\ before[t] = balance[u]
        /\ after[t] = balance[u] + op[t].amount
        /\ after[t] \in 0..MaxBalance
        /\ t \in claimed <=> op[t].doc \in Docs
        /\ op[t].doc \notin L!Settled
    BY <1>1, ReadyToCommit
  <1>3. \A s \in Slots : s # t => pc'[s] = pc[s] /\ op'[s] = op[s]
    BY <1>1 DEF TypeOK
  <1>4. \A s \in Slots :
            /\ pc'[s] # "idle" => s # t
            /\ HoldsLock(s)' =>
                  /\ s # t /\ HoldsLock(s)
                  /\ op[s].user \in Users
                  /\ lockHolder[op[s].user] = s
                  /\ op[s].user # u
    <2>1. TAKE s \in Slots
    <2>2. pc'[s] # "idle" => s # t BY <1>1 DEF TypeOK
    <2>3. ASSUME HoldsLock(s)'
          PROVE  s # t /\ HoldsLock(s) /\ pc[s] # "idle"
      BY <1>3, <2>2, <2>3 DEF HoldsLock
    <2>4. ASSUME HoldsLock(s)'
          PROVE  op[s].user \in Users /\ lockHolder[op[s].user] = s
      BY <2>3, <2>4, OpenTransactionIsTyped DEF LockInv
    <2>5. lockHolder[u] = t BY <1>1 DEF LockInv, HoldsLock
    <2> QED BY <2>2, <2>3, <2>4, <2>5
  <1>5. TypeOK'
    <2>1. row \in [amount : Int, before : Int, after : Int,
                    doc : Docs \cup {NoDoc}]
      BY <1>2, ConstantsAssumption DEF LogRow
    <2>2. balanceLog' \in [Users -> Seq([amount : Int, before : Int, after : Int,
                                        doc : Docs \cup {NoDoc}])]
      <3> DEFINE Rows == [amount : Int, before : Int, after : Int,
                          doc : Docs \cup {NoDoc}]
      <3> HIDE DEF Rows, row
      <3>1. balanceLog \in [Users -> Seq(Rows)] BY DEF TypeOK, Rows
      <3>2. row \in Rows BY <2>1 DEF Rows
      <3>3. Append(balanceLog[u], row) \in Seq(Rows) BY <1>2, <3>1, <3>2
      <3> QED BY <1>1, <3>1, <3>3 DEF Rows
    <2>3. balance' \in [Users -> (-MaxBalance)..MaxBalance]
      <3>1. after[t] \in (-MaxBalance)..MaxBalance
        BY <1>2, ConstantsAssumption
      <3> QED BY <1>1, <3>1 DEF TypeOK
    <2>4. docStatus' \in [Docs -> {"pending", "done", "closed"}]
      BY <1>1 DEF TypeOK
    <2>5. /\ lockHolder' \in [Users -> Slots \cup {None}]
          /\ pc' \in [Slots -> Statements \cup {"idle"}]
          /\ op' \in [Slots -> Ops \cup {None}]
          /\ claimed' \subseteq Slots
      BY <1>1 DEF TypeOK
    <2>6. \A s \in Slots : pc'[s] # "idle" => op'[s] \in Ops
      BY <1>3, <1>4 DEF TypeOK
    <2>7. before' \in [Slots -> Int] /\ after' \in [Slots -> Int]
      BY <1>1 DEF TypeOK
    <2> QED BY <2>2, <2>3, <2>4, <2>5, <2>6, <2>7 DEF TypeOK
  <1>6. NeverOverdrawn'
    BY <1>1, <1>2, ConstantsAssumption DEF TypeOK, NeverOverdrawn
  <1>7. LockInv'
    BY <1>1, <1>3, <1>4 DEF LockInv
  <1>8. ClaimInv'
    <2>1. \A s \in claimed' : /\ s \in claimed /\ s # t
                              /\ op[s].doc \in Docs
                              /\ docStatus'[op[s].doc] = "pending"
      <3>1. TAKE s \in claimed'
      <3>2. s \in claimed /\ s # t /\ s \in Slots BY <1>1 DEF TypeOK
      <3>3. pc[s] # "idle" /\ op[s].kind \in {"approve", "recharge"}
        BY <3>2 DEF ClaimInv
      <3>4. op[s].doc \in Docs BY <3>2, <3>3, OpenTransactionIsTyped
      <3>5. docStatus[op[s].doc] = "pending" /\ (t \in claimed => op[s].doc # op[t].doc)
        BY <3>2 DEF ClaimInv
      <3> QED BY <1>1, <3>2, <3>4, <3>5
    <2> QED BY <1>1, <1>3, <2>1 DEF TypeOK, ClaimInv
  <1>9. ValueInv'
    <2>1. \A s \in Slots : pc'[s] \in {"update", "log", "commit"} =>
              /\ s # t
              /\ balance'[op[s].user] = balance[op[s].user]
              /\ before'[s] = before[s] /\ after'[s] = after[s]
      BY <1>1, <1>4 DEF TypeOK, HoldsLock
    <2> QED BY <1>3, <2>1 DEF ValueInv, SnapshotFresh
  <1>10. \A v \in Users :
            /\ v # u => balanceLog'[v] = balanceLog[v]
            /\ Len(balanceLog[v]) \in Nat
            /\ DOMAIN balanceLog[v] = 1..Len(balanceLog[v])
    BY <1>1 DEF TypeOK
  <1>11. /\ Len(balanceLog'[u]) = Len(balanceLog[u]) + 1
         /\ DOMAIN balanceLog'[u] = 1..(Len(balanceLog[u]) + 1)
         /\ balanceLog'[u][Len(balanceLog[u]) + 1] = row
         /\ \A i \in DOMAIN balanceLog[u] : balanceLog'[u][i] = balanceLog[u][i]
    <2> DEFINE Rows == [amount : Int, before : Int, after : Int,
                        doc : Docs \cup {NoDoc}]
    <2>1. balanceLog[u] \in Seq(Rows) BY <1>2 DEF TypeOK
    <2>2. balanceLog'[u] = Append(balanceLog[u], row) BY <1>1, <1>2 DEF TypeOK
    <2>3. row \in Rows BY <1>2, ConstantsAssumption DEF LogRow
    <2> HIDE DEF row, Rows
    <2> QED BY <2>1, <2>2, <2>3, AppendedRow
  <1>12. SettledOnce'
    <2>1. row.doc = op[t].doc BY DEF LogRow
    <2>2. \A d \in Docs : d \in L!Settled' <=> d \in L!Settled \/ d = op[t].doc
      <3>1. ASSUME NEW d \in Docs, d \in L!Settled'
            PROVE  d \in L!Settled \/ d = op[t].doc
        <4>1. PICK v \in Users :
                  \E i \in DOMAIN balanceLog'[v] : balanceLog'[v][i].doc = d
          BY <3>1 DEF L!Settled
        <4>1a. PICK i \in DOMAIN balanceLog'[v] : balanceLog'[v][i].doc = d
          BY <4>1
        <4>2. CASE v = u /\ i = Len(balanceLog[u]) + 1
          BY <1>11, <2>1, <4>1a, <4>2
        <4>3. CASE ~(v = u /\ i = Len(balanceLog[u]) + 1)
          <5>1. i \in DOMAIN balanceLog[v] /\ balanceLog'[v][i] = balanceLog[v][i]
            BY <1>10, <1>11, <4>1a, <4>3
          <5> QED BY <4>1a, <5>1 DEF L!Settled
        <4> QED BY <4>2, <4>3
      <3>2. ASSUME NEW d \in Docs, d \in L!Settled
            PROVE  d \in L!Settled'
        <4>1. PICK v \in Users :
                  \E i \in DOMAIN balanceLog[v] : balanceLog[v][i].doc = d
          BY <3>2 DEF L!Settled
        <4>1a. PICK i \in DOMAIN balanceLog[v] : balanceLog[v][i].doc = d
          BY <4>1
        <4>2. i \in DOMAIN balanceLog'[v] /\ balanceLog'[v][i] = balanceLog[v][i]
          BY <1>10, <1>11, <4>1a
        <4> QED BY <4>1a, <4>2 DEF L!Settled
      <3>3. ASSUME op[t].doc \in Docs
            PROVE  op[t].doc \in L!Settled'
        <4>1. Len(balanceLog[u]) + 1 \in DOMAIN balanceLog'[u]
          BY <1>2, <1>10, <1>11
        <4> QED BY <1>2, <1>11, <2>1, <3>3, <4>1 DEF L!Settled
      <3> QED BY <3>1, <3>2, <3>3
    <2>3. \A d \in Docs : docStatus'[d] = "done" <=> d \in L!Settled'
      BY <1>1, <1>2, <2>2 DEF SettledOnce
    <2>4. ASSUME NEW v \in Users, NEW w \in Users,
                 NEW i \in DOMAIN balanceLog'[v], NEW j \in DOMAIN balanceLog'[w],
                 balanceLog'[v][i].doc # NoDoc,
                 balanceLog'[v][i].doc = balanceLog'[w][j].doc
          PROVE  v = w /\ i = j
      <3> DEFINE new(x, k) == x = u /\ k = Len(balanceLog[u]) + 1
      <3>1. CASE new(v, i) /\ new(w, j)
        BY <3>1
      <3>2. CASE ~new(v, i) /\ ~new(w, j)
        <4>1. /\ i \in DOMAIN balanceLog[v] /\ balanceLog'[v][i] = balanceLog[v][i]
              /\ j \in DOMAIN balanceLog[w] /\ balanceLog'[w][j] = balanceLog[w][j]
          BY <1>10, <1>11, <3>2
        <4> QED BY <2>4, <4>1 DEF SettledOnce
      <3>3. CASE new(v, i) /\ ~new(w, j)
        <4>1. j \in DOMAIN balanceLog[w] /\ balanceLog'[w][j] = balanceLog[w][j]
          BY <1>10, <1>11, <3>3
        <4>2. balanceLog[w][j].doc = op[t].doc /\ op[t].doc \in Docs
          BY <1>2, <1>11, <2>1, <2>4, <3>3, <4>1
        <4> QED BY <1>2, <4>1, <4>2 DEF L!Settled
      <3>4. CASE ~new(v, i) /\ new(w, j)
        <4>1. i \in DOMAIN balanceLog[v] /\ balanceLog'[v][i] = balanceLog[v][i]
          BY <1>10, <1>11, <3>4
        <4>2. balanceLog[v][i].doc = op[t].doc /\ op[t].doc \in Docs
          BY <1>2, <1>11, <2>1, <2>4, <3>4, <4>1
        <4> QED BY <1>2, <4>1, <4>2 DEF L!Settled
      <3> QED BY <3>1, <3>2, <3>3, <3>4
    <2> QED BY <2>3, <2>4 DEF SettledOnce
  <1>13. StatementAddsUp'
    <2>1. /\ row.before = balance[u]
          /\ row.after = balance[u] + row.amount
          /\ row.after = balance'[u]
      BY <1>1, <1>2 DEF LogRow, TypeOK
    <2> HIDE DEF row
    <2> SUFFICES ASSUME NEW v \in Users
                 PROVE  LET rows == balanceLog'[v]
                            Start(i) == IF i = 1 THEN InitBalance[v]
                                        ELSE rows[i - 1].after
                        IN /\ \A i \in 1..Len(rows) :
                                  /\ rows[i].before = Start(i)
                                  /\ rows[i].after = Start(i) + rows[i].amount
                           /\ balance'[v] = Start(Len(rows) + 1)
      BY DEF StatementAddsUp
    <2>2. CASE v # u
      BY <1>1, <1>10, <2>2 DEF StatementAddsUp, TypeOK
    <2>3. CASE v = u
      <3>1. Len(balanceLog[u]) \in Nat BY <1>2, <1>10
      <3>2. balance[u] = IF Len(balanceLog[u]) = 0 THEN InitBalance[u]
                         ELSE balanceLog[u][Len(balanceLog[u])].after
        BY <1>2, <3>1 DEF StatementAddsUp
      <3>3. \A i \in 1..Len(balanceLog[u]) :
                /\ balanceLog[u][i].before =
                       IF i = 1 THEN InitBalance[u] ELSE balanceLog[u][i - 1].after
                /\ balanceLog[u][i].after =
                       (IF i = 1 THEN InitBalance[u] ELSE balanceLog[u][i - 1].after)
                           + balanceLog[u][i].amount
        BY <1>2 DEF StatementAddsUp
      <3>4. \A i \in 1..Len(balanceLog[u]) : balanceLog'[u][i] = balanceLog[u][i]
        BY <1>2, <1>10, <1>11
      <3> DEFINE n == Len(balanceLog[u])
                 new == balanceLog'[u]
                 Start(i) == IF i = 1 THEN InitBalance[u] ELSE new[i - 1].after
      <3>5. Len(new) = n + 1 /\ new[n + 1] = row /\ n \in Nat BY <1>11, <3>1
      <3>6. \A i \in 1..(n + 1) :
                Start(i) = IF i = 1 THEN InitBalance[u] ELSE balanceLog[u][i - 1].after
        BY <3>4, <3>5
      <3> HIDE DEF Start, new, n
      <3>7. Start(n + 1) = balance[u]
        BY <3>2, <3>5, <3>6 DEF n
      <3>8. \A i \in 1..(n + 1) : /\ new[i].before = Start(i)
                                  /\ new[i].after = Start(i) + new[i].amount
        <4>1. TAKE i \in 1..(n + 1)
        <4>2. CASE i = n + 1
          BY <2>1, <3>5, <3>7, <4>2
        <4>3. CASE i # n + 1
          <5>1. i \in 1..n BY <3>5, <4>3
          <5>2. new[i] = balanceLog[u][i] BY <3>4, <5>1 DEF n, new
          <5> QED BY <3>3, <3>5, <3>6, <5>1, <5>2 DEF n
        <4> QED BY <4>2, <4>3
      <3>9. balance'[u] = Start(Len(new) + 1)
        BY <2>1, <3>5 DEF Start
      <3> QED BY <2>3, <3>5, <3>8, <3>9 DEF Start, new
    <2> QED BY <2>2, <2>3
  <1> QED BY <1>5, <1>6, <1>7, <1>8, <1>9, <1>12, <1>13

LEMMA StepKeeps == IInv /\ [Next]_vars => IInv'
PROOF
  <1> SUFFICES ASSUME IInv, [Next]_vars PROVE IInv' OBVIOUS
  <1>1. ASSUME NEW t \in Slots, Begin(t) PROVE IInv'
    BY <1>1, BeginKeeps
  <1>2. ASSUME NEW t \in Slots, Lookup(t) PROVE IInv'
    BY <1>2, LookupKeeps
  <1>3. ASSUME NEW t \in Slots, Claim(t) PROVE IInv'
    BY <1>3, ClaimKeeps
  <1>4. ASSUME NEW t \in Slots, TryLock(t) PROVE IInv'
    BY <1>4, TryLockKeeps
  <1>5. ASSUME NEW t \in Slots, WaitLock(t) PROVE IInv'
    BY <1>5, WaitLockKeeps
  <1>6. ASSUME NEW t \in Slots, ReadBalance(t) PROVE IInv'
    BY <1>6, ReadBalanceKeeps
  <1>7. ASSUME NEW t \in Slots, UpdateBalance(t) PROVE IInv'
    BY <1>7, UpdateBalanceKeeps
  <1>8. ASSUME NEW t \in Slots, WriteLog(t) PROVE IInv'
    BY <1>8, WriteLogKeeps
  <1>9. ASSUME NEW t \in Slots, Commit(t) PROVE IInv'
    BY <1>9, CommitKeeps
  <1>10. ASSUME NEW t \in Slots, Abort(t) PROVE IInv'
    BY <1>10, RollbackKeeps DEF Abort
  <1>11. ASSUME NEW d \in Docs, CloseDoc(d) PROVE IInv'
    BY <1>11, CloseDocKeeps
  <1>12. ASSUME UNCHANGED vars PROVE IInv'
    <2> USE <1>12 DEF vars, IInv
    <2>1. TypeOK' BY DEF TypeOK
    <2>2. LockInv' BY DEF LockInv, HoldsLock
    <2>3. ClaimInv' BY DEF ClaimInv
    <2>4. ValueInv' BY DEF ValueInv, SnapshotFresh
    <2> QED BY <2>1, <2>2, <2>3, <2>4, PrivateStep
  <1> QED BY <1>1, <1>2, <1>3, <1>4, <1>5, <1>6, <1>7, <1>8, <1>9, <1>10, <1>11,
             <1>12 DEF Next, Statement

-------------------------------------------------------------------------------
(* Theorems *)

\* The inductive invariant holds in every reachable state.
THEOREM Invariance == Spec => []IInv
  BY InitEstablishes, StepKeeps, PTL DEF Spec

\* Every variable keeps its type and the balance column its range, whatever the
\* transactions of balance.ts, recharge-records.ts and gift-cards.ts interleave.
THEOREM TypeCorrect == Spec => []TypeOK
  <1>1. IInv => TypeOK BY DEF IInv
  <1> QED BY <1>1, Invariance, PTL

\* No user's balance is ever negative (the "余额不足" tests of changeBalance and
\* of the gift card issue suffice under any interleaving).
THEOREM BalanceNeverNegative == Spec => []NeverOverdrawn
  <1>1. IInv => NeverOverdrawn BY DEF IInv
  <1> QED BY <1>1, Invariance, PTL

\* Each user's balance_logs rows form a chain from the initial to the current
\* balance.
THEOREM StatementsAddUp == Spec => []StatementAddsUp
  <1>1. IInv => StatementAddsUp BY DEF IInv
  <1> QED BY <1>1, Invariance, PTL

\* What a transaction read before its update is still true when it commits.
THEOREM SnapshotsStayFresh == Spec => []SnapshotFresh
  <1>1. IInv => SnapshotFresh BY DEF IInv, ValueInv
  <1> QED BY <1>1, Invariance, PTL

\* An adjustment request or recharge order moves a balance at most once, and
\* exactly when its status says so.
THEOREM DocumentsSettleOnce == Spec => []SettledOnce
  <1>1. IInv => SettledOnce BY DEF IInv
  <1> QED BY <1>1, Invariance, PTL

\* The transactions implement the ledger: a commit is one atomic posting, and no
\* other statement shows.
THEOREM ImplementsLedger == Spec => LedgerSpec
PROOF
  <1>1. Init => L!Init
    <2> SUFFICES ASSUME Init PROVE L!Init OBVIOUS
    <2>1. InitBalance \in [Users -> 0..MaxBalance] BY ConstantsAssumption
    <2> QED BY <2>1 DEF Init, L!Init
  <1>2. IInv /\ [Next]_vars => [L!Next]_(L!ledgerVars)
    <2> SUFFICES ASSUME IInv, [Next]_vars PROVE [L!Next]_(L!ledgerVars) OBVIOUS
    <2>1. ASSUME NEW t \in Slots, Commit(t) PROVE L!Next
      <3> DEFINE u == op[t].user
      <3>1. /\ u \in Users
            /\ op[t].amount \in Int
            /\ op[t].doc \in Docs \cup {NoDoc}
            /\ balance[u] \in 0..MaxBalance
            /\ before[t] = balance[u]
            /\ after[t] = balance[u] + op[t].amount
            /\ after[t] \in 0..MaxBalance
            /\ op[t].doc \notin L!Settled
        BY <2>1, ReadyToCommit DEF Commit
      <3>2. op[t].amount \in (-MaxBalance)..MaxBalance
        BY <3>1, ConstantsAssumption
      <3>3. L!Post(u, op[t].amount, op[t].doc)
        BY <2>1, <3>1 DEF Commit, LogRow, L!Post
      <3> QED BY <3>1, <3>2, <3>3 DEF L!Next
    <2>2. ASSUME NEW t \in Slots,
                 \/ Begin(t) \/ Lookup(t) \/ Claim(t) \/ TryLock(t) \/ WaitLock(t)
                 \/ ReadBalance(t) \/ UpdateBalance(t) \/ WriteLog(t) \/ Abort(t)
          PROVE  UNCHANGED L!ledgerVars
      BY <2>2 DEF Begin, Lookup, Claim, TryLock, WaitLock, ReadBalance,
                  UpdateBalance, WriteLog, Abort, Rollback, L!ledgerVars
    <2>3. ASSUME NEW d \in Docs, CloseDoc(d) PROVE UNCHANGED L!ledgerVars
      BY <2>3 DEF CloseDoc, L!ledgerVars
    <2>4. ASSUME UNCHANGED vars PROVE UNCHANGED L!ledgerVars
      BY <2>4 DEF vars, L!ledgerVars
    <2> QED BY <2>1, <2>2, <2>3, <2>4 DEF Next, Statement
  <1> QED BY <1>1, <1>2, Invariance, PTL DEF Spec, LedgerSpec, L!Spec
===============================================================================
