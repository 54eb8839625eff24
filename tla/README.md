# A TLA+ verification of the Incudal server

Incudal is a control panel that sells and runs containers and virtual machines on
Incus hosts. `src/server` (TypeScript, Fastify, Prisma over PostgreSQL) is the part
with state; the web clients only call it, and `src/server-go` is a translation of it
that is not in production yet. This directory holds TLA+ models of the parts of the
server where money, ownership and work on hosts move, TLC configurations that check them, and TLAPS
proofs.

Paths below are relative to `src/server/src/` unless they begin with `src/`.

## 1. Inventory

### How the server runs

One Node.js process serves requests, runs schedulers (`setInterval`) and workers, and
keeps all lasting state in PostgreSQL at READ COMMITTED. Whatever happens between two
`await`s is atomic with respect to the process; nothing else is. Three devices order
concurrent work:

* **advisory transaction locks** (`db/advisory-locks.ts`): per user, card, instance or
  host; either waited for or tried once; released by commit and rollback alike;
* **conditional updates** (`updateMany` with the expected status in its WHERE clause),
  which re-evaluate the condition on the newest row;
* **distributed locks** (`lib/distributed-lock.ts`): rows with an owner and an expiry.

Calls to a host (`lib/incus`) and to payment gateways happen outside transactions:
they can fail, take long, or succeed without the answer arriving.

### Components

| component | state | operations | what makes it correct |
|---|---|---|---|
| balances (`db/balance.ts`) | `user.balance`, `balance_logs`, `balance_adjustment_requests` | change, approve or reject a request, recharge, pay for a card | statement rows add up to the balance; no overdraft; a request or order is posted once |
| gift cards (`db/gift-cards.ts`) | card status, owner, expiry | create, generate from a balance, redeem, revoke, disable, enable, delete | a card pays once; the issuer's money is never lost or doubled |
| transfers (`db/transfers.ts`, `routes/transfers.ts`) | transfer rows, owner and container name of the instance | create with fee, accept, push, reject, cancel, sweep, start-up clean-up | one request works on a transfer; fee settled once; recorded name is the container's name |
| destruction (`routes/instance-destroy.ts`) | instance status, container | claim, delete on the host, undo, cancel transfers, refund | only the owner's own container is deleted |
| recharge orders (`db/recharge-records.ts`, `routes/recharge.ts`) | order status, current payment attempt, processed callbacks | create, repay, notification, verify, sync, complete, fail, cancel, hourly clean-up | credited exactly when completed; no payment dropped; closed orders stay closed |
| host tasks (`workers/*.ts`) | three task queues, in-memory sets of running ids | create, cancel, claim, execute, retry, time-out sweep | one heavy task per host; every task ends |
| billing and expiry (`services/billing-scheduler.ts`, `db/billing-operations.ts`, `db/instance-suspend.ts`) | instance status, expiry, version | renew, renew automatically, suspend, unsuspend, delete on expiry | a paid instance is not deleted; a deleted or suspended one stays so |
| traffic (`db/traffic.ts`, `services/*traffic*`) | counters, snapshots, monthly use | collect, report, reset | each byte is counted once |
| provisioning (`routes/instances.ts`, `db/instance-provisioning-compensation.ts`) | instance row, container, charge | buy, create, compensate | delivered or refunded, never both |

`PROJECT.json` lists the remaining parts (commissions, points and lottery, codes and
VIP, resource pool, addresses, backups, status synchronisation, mail, tickets, accounts
and OAuth, notifications, online update, node security, proxies, consoles, Incus
client, hosts and packages, agent, public API, clients, Go port, deployment), each with
the reason it is not modelled.

### Interactions

* Recharge completion, gift cards, transfer fees, renewals and refunds all post to
  balances inside their own transaction.
* Transfers, destruction, billing, tasks and status synchronisation share the instance
  row and the container, without a lock that spans database and host.
* The three workers share one claim lock per host and look at each other's rows.
* Gateway notifications, the owner's requests and the administrator's requests reach the
  same recharge order.

### Hard behaviours

Interleavings of requests around every `await`; stale reads written back; a second
transaction that completes the first one's work; a crash between a host call and its
transaction; sweeps that race what they sweep; notifications repeated, late and out of
order. `PROJECT.json` lists each hazard with its line and the properties that cover it,
or the module planned for it.

## 2. Modules

| module | models | checked by | proved |
|---|---|---|---|
| `Ledger` | abstract: atomic postings, each document settled at most once | (target of the refinement) | |
| `BalanceTx` | balance transactions, one step per SQL statement | `balance` | all invariants and the refinement, `BalanceTx_proofs` |
| `GiftCards` | every operation on a card | `giftcards` | all but `RequestEnds`, `GiftCards_proofs` |
| `InstanceTransfer` | transfers against destruction, sweep and crash | `transfers`, `transfer_sender` | all but `ProcessingEnds`, `InstanceTransfer_proofs` |
| `RechargeOrders` | one order, its payment attempts and everybody who decides it | `recharge_safety`, `recharge_live`, `recharge_latest` | all but liveness, `RechargeOrders_proofs` |
| `HostTasks` | one host's three task queues, their workers and sweeps | `tasks`, `tasks_stuck` | all invariants, `HostTasks_proofs` |
| `Provisioning` | one purchase until it is delivered or given back | `provisioning` | all invariants, `Provisioning_proofs` |
| `InstanceLifecycle` | everybody who writes the status, the expiry or the money of one delivered instance | `lifecycle` | all properties, `InstanceLifecycle_proofs` |
| `TrafficMeter` | abstract: each amount of traffic counted once | (target of the refinement) | |
| `TrafficLedger` | samples, resets and the locks between them | `traffic` | all invariants and the refinement, `TrafficLedger_proofs` |

Each component has an `MC` module with the small sets TLC uses and one `.cfg` per run.

The step size follows what the properties tell apart. `BalanceTx` has a step per
statement, because the advisory lock, the read, the conditional update and the log row
are exactly what its properties are about. `GiftCards` keeps the statements up to the
first write and makes the writes and the commit one step (the written rows are locked
in between). `InstanceTransfer` and `RechargeOrders` have a step per transaction and
per call to a host or gateway. A request is a record in `req` (or `pc`/`op`) that holds
its next step and what it read earlier, so a stale value stays stale until it is used.

### Ledger and BalanceTx

Four styles of transaction share the row: `change` and `approve` *try* the user's lock,
`recharge` and `issue` *wait* for it. The balance, the log rows and a claimed document
become visible at `Commit`; `Abort` is possible before every statement. A document row
updated by an open transaction is locked: other updates of it wait (`Claim`,
`CloseDoc`). Amounts are integers; the code rounds to cents after each operation.

`LedgerSpec` is the refinement: `balance` and `balanceLog` implement `Ledger`, where a
posting is one step.

### GiftCards

`owner` distinguishes an administrator's card from a user's. The lock order is card,
then user. `Enable` takes no lock. `Face` is what an issuer paid, `Worth` what an
administrator's card credits.

### InstanceTransfer

A request claims a row by moving it to `processing`, renames the container on the host and
hands the instance over in one transaction. `GiveUp(h)` lets any request stop at any
point (an exception whose rollback fails too), `Crash` stops all of them. `Sweep` is the
30-minute time-out, `BootCleanup` the start-up clean-up. A rename may succeed on the
host and still be reported as failed.

`processing` is *not* a lock. Requests are served while the server still boots (`app.ts`
listens at line 757 and cleans up at line 872), so `BootCleanup` also takes rows claimed
since. The sweep measures 30 minutes from the claim, and the wait for the rename, which is as
long (`lib/incus/incus-utils.ts:34`), begins later; so `Sweep(i)` may take the row of a
request at work, except while that request looks at the instance right after its claim
(`TimedOut`). The history `overtaken` counts for each row how often a clean-up took it from a
request at work. What makes the hand-over exclusive all the same is the container's name:
the second rename finds no container of the name it read (`HandsOverAlone`).

### RechargeOrders

Attempt 0 is the order number, each repay creates the next and makes it current. A
notification is filtered (processed before? superseded? still processing?), settled and
answered in separate steps; verify and the administrator's sync settle in the same way.
Signatures and amounts are taken to be right. No code writes the statuses `paid` and
`refunded`, so the model has neither.

### HostTasks

One row of the model is a row of `instance_tasks`, `restore_tasks` or
`backup_upload_tasks`; `QueueOf` says which, `Kind` what the claim rules tell apart. The
claim is two steps, `Pick` (host lock, free host, oldest task) and `Mark` (instance lock,
status of the instance, update by id), because a cancellation may commit in between. An
executor looks, works, and ends its row in `Complete`, `Fail` or `Requeue`; the steps
that throw (`LookThrows`, `CompleteThrows`, `FailThrows`) are the database failing there.
`running` is the three in-memory sets in one, since ids of different queues never meet.
`sweep` is the per-minute time-out sweep in three steps; `Restart` loses what is in memory
and ends with the sweep at the start, which runs before any worker does. Light tasks are
claimed in a loop and started afterwards (`workers/instanceTaskWorker.ts:409`), so when a later
claim throws those claimed before it are PROCESSING and run by nobody: `Strand`.

An instance is marked deleted by two kinds of code: four claims that ask for active tasks
(`ClaimDeletion`) and the billing scheduler, which does not (`ExpiryDeletion`).

An upload that is retried is PENDING again while its first executor still writes a log
entry, and that executor then removes the id a second run may have put there. So the
protection of a second run is not a fact about this code, and the properties speak of
first runs (`retried = 0`).

### Provisioning

The life of one purchase. `row` is the status of the instances row. `container` says whether
Incus has it, and tells a container somebody will still account for (`"there"`) from one that
is `"left"`: the host refused to delete it, the server died over it, or it appeared when
everybody had gone. The request charges and reserves in one transaction (`Purchase`); what
follows runs in two *creators*, the request itself or the worker of the queue, which both
end in `createInstanceAsync`. The only device that orders creators and the 30-minute sweep
is the conditional update of the status: `Deliver` moves creating to running, `Gate`
creating to error, and who changes the row goes on to `Rollback` and `Refund`. `flag` of a
creator says that it has reached the host and will clean up there. `tracked` is the table
of active operations the sweep asks; a creator may be missing from it, because the row of
its operation task could not be written.

`pending` are the creations that the host still works on though nobody waits for them any
more: `waitForOperation` gives up after 30 minutes, or with the connection, without cancelling
the operation (`lib/incus/incus-utils.ts:54`). `Appear` is such a container coming into being
at any later moment, also after the clean-up of its creator got a 404. `CleansUp` says which
processes have a deletion on the host still before them.

The owner's side (`StartDestroy` and what follows) is the page's `DELETE
/api/instances/:id` too, which takes a row that is still being created (`Destroyable`); when it
fails, its undo makes the row creating again and thereby reopens the gate. Owner and status
synchronisation are there because they read rows in error.

### InstanceLifecycle

One delivered instance that expires. `row` is its row (status, reason of a suspension,
expiry, version, name on the host), `container` what the host has, `periods` and `refunds`
the billing records. A
*request* (renewal by anybody, extension, suspension by hand and its end, the owner's, the
API's and the administrator's deletion, power and recreate tasks) and a *job* (automatic
renewal, suspension and deletion on expiry, status synchronisation) keep what they read in
their own record in `proc`, and the update that follows is conditional on exactly the columns the
code puts into its WHERE clause: the version for renewals and the expiry jobs, the status
for the owner's deletion, nothing for what operators do by hand and for the result of a
recreation. A refund is quoted as the number of paid periods it covers: nothing after the
expiry, except in the administrator's mode `full` (`routes/admin-billing.ts:2002`). Time is a
small counter and `Tick` the only step that moves it.

A recreation is a step per call, as in `workers/instanceTaskWorker.ts:1587-1738`: `Recreate`
reads the row again, `Wipe` deletes the container, `Create` or `CreateFails`, then `Recreated`
writes the new name, or `RecreateFails`, `Cleanup` and `MarkError` delete what was created and
write the status `error`, whatever the row has become.

Three histories say what the code has nothing against (section 3, *Behaviours outside the
properties*), each no more than that, and the properties name or count them:

* `reopened` counts the deletions that claimed a row they had read as deleted (only
  the page does) and the writes that made a deleted row something else without being the undo
  of a deletion. `RefundedOnce` and `RefundedMeansGone` allow one refund for each;
* `torn`: the host deleted a container and the answer was lost, or a recreation ended between
  the deletion and the row. `LiveHasContainer` says nothing after that;
* `crossed`: an extension by hand was written over a row whose expiry had moved, or that had
  been suspended on expiry or deleted, since it was read, or a renewal over an extension.
  `SparesPaid` says nothing after that.

### TrafficLedger and TrafficMeter

Every instance has a snapshot of the host's counter and its own total (`used`); its user has
the sum (`userUsed`). The collector and the agent's reports take the instance's key in
`distributed_locks`, read the snapshot, compute the difference and add it; a counter
that went back adds nothing and becomes the new baseline. A reset clears the total of the instance and rewrites the sum
of its user.

The instance's lock lasts 30 s. The collector renews it every 10 s; a reset never does, though
it may wait for the host for 120 s (`db/traffic.ts:47-51`, `95`), so it can lose its lock at
any step and go on (`Unrenewed`, `Expire`). The history `crossed` are the processes at work
beside such a reset. The stamp of an agent's sample is whatever its clock says, up to `MaxSkew`
ahead or behind, a value the proofs leave open; `taken` is a ghost, the moment the sample was
really taken.

`MeterSpec` is the refinement: seen through `INSTANCE TrafficMeter WITH`, every step counts a
piece of traffic that was not counted before, or resets. Only a sample that is `Doubtful` may
count again, and only for its instance: one stamped ahead of its time, one that meets a
baseline stamped behind its time, or one brought beside a reset that lost its lock. `OneAtATime`
says that two processes are at work on one instance only beside such a reset, and that their
transactions do not overlap even then.

Assumed: the servers share a clock, the collector's renewals get through, and a transaction
takes less than the 30 s of the user's lock (its time-out is 10 s).

## 3. What the runs check

`CHECK_DEADLOCK FALSE` everywhere: the instances are bounded (statement rows, transfers,
attempts), so a run really stops at its bounds. That nobody waits for ever on a lock is
a liveness property instead (`TransactionEnds`, `RequestEnds`).

| run | instance | shows |
|---|---|---|
| `balance` | two users, two connections, a request that adds, one that takes back, one order, limit one credit away | `StatementAddsUp`, `SnapshotFresh`, `SettledOnce`, `LedgerSpec`, `TransactionEnds` |
| `giftcards` | two users, of whom one can pay for a card, one card of either kind, three connections | `PaysOnce`, `MoneyConserved`, `RequestEnds` |
| `transfers` | two users, two transfers, two requests at a time, a crash or one row the sweep takes from a request at work | `HandsOverAlone`, `FeeSettledOnce`, `RecordedNameIsReal`, `DestroysOwn`, `ProcessingEnds` |
| `transfer_sender` | two transfers, two requests | violation of `OnlyOwnInstance` |
| `recharge_safety` | one order, one repay, two requests at a time, without bound on their number | `CreditedOnce`, `PaymentNotDropped` |
| `recharge_live` | the same, one request at a time | `PaidEnds`, `PaidIsAnswered` |
| `recharge_latest` | one repay, two requests | violation of `LatestLinkCounts` |
| `tasks` | two tasks of any kinds, two executors, one retry, one restart | `WorkIsCovered`, `WorkAlone`, `WorkOnLiveInstance`, `ProcessingEnds` |
| `tasks_stuck` | one task | violation of `OverdueEnds` |
| `provisioning` | one purchase, one retry of its task, one crash | `DeliverOrCompensate`, `NoOrphan`, `CreatingEnds` |
| `lifecycle` | one instance, two requests, the four jobs, three of them at work at a time, three periods | `PeriodsDisjoint`, `LiveHasContainer`, `RefundedOnce`, `RefundedMeansGone`, `SparesPaid` |
| `traffic` | two instances of one user, two processes, one unit of traffic, one stop, clocks one off | `UserIsSum`, `OneAtATime`, `MeterSpec` |

Each passing run checks the `TypeOK` of its module as well.

**Why the bounds are enough.** The conflicts are between two actors on one row; the
third connection of `giftcards` is the one that changes the row behind both. In `transfers`
sweep and start-up clean-up are that third actor; its invariants are proved for any number of
requests, crashes and rows taken. `balance` has two connections, since its invariants are proved for
any number. Two transfers make a cancelled and a new one coexist; a third adds no new pair.
One repay gives a superseded and a current attempt. Amounts of 1 and 2 with the limit at
2 bring overdraft and limit within one step. In `tasks` two rows and two executors are the
pair every claim rule is about; the second instance gets light tasks and restores only,
since a task of another instance interacts through its class alone. The invariants of
`tasks` are proved for any number of either. One purchase has at most two creators, and a
second crash finds the same states as the first; the invariants of `provisioning` are proved
for any number of retries and crashes. In `lifecycle` a conflict is between two requests, or
a request and a job, with a third process that changes the row behind both; time goes to 3 and versions to 3 when the expiry job claims, so that an
instance can be renewed before, at and after the moment its deletion was decided. In `traffic` two processes
contend for two locks, one unit of traffic is enough to be counted twice, and a restart makes
the counter go down; two samples in time are an accepted one and one that is late. Its
properties are proved for any traffic, time and skew. Symmetry is used only for
interchangeable users, requests, instances and processes of runs without liveness
properties.

**Fairness.** `FairSpec` says that a request that has begun goes on (every `await`
settles: transactions time out, the Incus client gives up after 30 minutes) and that
timers fire. For tasks: executors go on, time passes, a sweep that is possible again and
again reads, and one that has read goes on; nothing makes a claim happen. For a purchase:
every process that has begun goes on, rows age, the sweep runs, and the database does not
refuse the gate for ever; nothing makes the worker claim, so it is the sweep that ends a
creation whose task is never taken. Lock waits get strong fairness because PostgreSQL serves waiters in order.
For recharge orders single requests may be lost, but the gateway repeats its
notification until it is answered and not all repetitions are lost. Nothing makes a
user act: no fairness on requests arriving.

### Disagreements between code and documentation

Three are `violation` runs of the name given:

1. `OnlyOwnInstance`: `createTransferWithFee` (`db/transfers.ts:118`) does not repeat the
   ownership test, so a create request that waited while another transfer was accepted
   offers an instance of the new owner.
2. `LatestLinkCounts`: `updateRechargeOrderMetadata` (`db/recharge-records.ts:269`)
   writes back details read before a gateway call; a repay in between is undone and the
   payment of the newest link is answered but never credited.
3. `OverdueEnds`: a restore or upload adds its id to the running set and then reads its
   row outside the `try` block (`workers/restoreTaskWorker.ts:213`,
   `workers/backupUploadWorker.ts:217`). If that read fails the id stays, every sweep
   takes the row for running, and a PROCESSING restore or upload lets no other task on
   the host until the process restarts; the comment at `workers/restoreTaskWorker.ts:72`
   says that overdue rows are failed every minute.

The models show more, which the runs do not ask about:

4. Destroying an instance (`routes/instance-destroy.ts:757`) cancels its transfer without
   refunding the fee, and a failed refund after a rejection (`routes/transfers.ts:773`) is
   only logged; `src/docs/BEHAVIOR.md:40` and `schema.prisma:2060` promise the refund.
5. The administrator's sync (`routes/admin-billing.ts:3187`) and requests that read the
   order before a repay settle it by a superseded attempt.
6. The owner destroys an instance in error after the gate of a compensation and before its
   refund: the destruction pays the quote it read earlier, the compensation looks for its
   own refund only, and the purchase is refunded twice. The deletion on the instance's page,
   which quotes after it has deleted, pays in the same gap. The comment at
   `routes/instances.ts:6569` calls the gate the one switch of all compensation.
7. A create task that goes back into the queue was compensated already:
   `createInstanceAsync` passes the gate before it throws, so the reservation and the money
   are gone while the task waits (`workers/instanceTaskWorker.ts:658` says that the customer
   keeps the reservation). The retry ends in `Discard`.
8. A delivered instance whose row cannot be read for the notification
   (`routes/instances.ts:6838`) ends in the catch block of the creation, which deletes the
   live container (line 6924). The hosting variant guards that read.
9. A clean-up that takes a transfer from a request at work makes it pending again; the receiver
   rejects it, the sender is refunded, and then the first request still writes `accepted`, for
   `executeTransfer` updates without looking at the status (`db/transfers.ts:557`). Two rejections
   around such a clean-up refund twice. `src/docs/DEFECTS.md:502` and `:601` (D-074, D-173) know
   the parts, `src/docs/FIX_PLAN.md:219` (FX-137) plans a condition on the status.

### Behaviours outside the properties

The models have these behaviours. The properties count or name them (in brackets), or do not
speak of them:

* Transfers: a clean-up takes the row of a request at work (`overtaken`: a settlement more of the
  fee for each).
* Lifecycle, `reopened`: suspending or unsuspending by hand, an extension, and the result or the
  failure of a recreation write over a row that was deleted meanwhile, which is back. `DELETE
  /api/instances/:id` claims and refunds a deleted row again; if another deletion is still at
  work on that row and fails, its undo returns an instance that was refunded.
* Lifecycle, `crossed`: an extension that read a running row and is written after the suspender
  leaves a suspended row with a paid expiry, which the expiry job deletes; one that is written
  after a renewal takes the renewal's time away.
* Lifecycle, `torn`: a deletion on the host that succeeds without an answer is undone in the row
  only; a recreation that fails, or whose server dies, after the old container was deleted leaves
  a row without container.
* Lifecycle, beside the properties: a renewal between the quote of a destruction and its claim is
  not refunded; the synchronisation marks a live recreated instance deleted
  (`services/status-scheduler.ts:295`).
* Provisioning, `left`: the container the host refused to delete, the one the server died over,
  and the one that appears when everybody has gone.
* Provisioning, beside the properties: the synchronisation revives a refunded row in error while
  its container is still there (`services/status-scheduler.ts:121`); the server dies between gate
  and refund, and nobody pays the purchase back; item 6 above.
* Traffic, `Doubtful`: a stamp ahead of its time makes later samples late, and what they bring is
  dropped or, after a baseline stamped behind its time, counted again; so may a reset that lost
  its lock.

## 4. What is proved

All proofs are for arbitrary constants, from the named assumption of the module.

**BalanceTx_proofs** (from `ConstantsAssumption`). The inductive invariant is
`IInv == TypeOK /\ NeverOverdrawn /\ LockInv /\ ClaimInv /\ ValueInv /\ SettledOnce /\
StatementAddsUp`. `LockInv` ties a program counter beyond the lock to the holder of that
lock; `ClaimInv` says that a slot which has claimed a document found it pending and
nobody else has claimed it; `ValueInv` says what `before` and `after` are between the
statements. Without them the promised properties are not inductive: a commit publishes
values that only these parts connect to the committed row. `InitEstablishes`, one lemma
per action and a final PTL step give

* `TypeCorrect`, `BalanceNeverNegative`, `StatementsAddUp`, `SnapshotsStayFresh`,
  `DocumentsSettleOnce`: `Spec => []` of the invariant that `balance` checks;
* `ImplementsLedger`: `Spec => LedgerSpec`. Every step but `Commit` of a posting leaves
  balance and statement alone; that `Commit` is `Ledger!Post`, for which `SettledOnce`
  supplies the guard that the document is not settled yet.

**GiftCards_proofs** (from `GiftCardsAssumption`). The inductive invariant is
`TypeOK /\ TxInv /\ CardInv /\ PastInv /\ OwedInv`. `CardInv` says what the status of a card
tells of what it has paid; `PastInv` is what a transaction knows of its card at each of its
statements, which holds because the card's lock is its own (`TxInv`) and the one operation
without a lock, `Enable`, touches only cards that no user paid for.
`OwedInv` says that a refund still owed was not paid.

For the money the invariant grows by `EndedInv` (a user's card does not expire, and when it
ends unused it was paid back), `OwesInv` (who is about to end a user's card either pays or
finds that somebody paid) and `Balanced`, which is `MoneyConserved` with its sums named.
`MoneyMoves` lists the four ways in which money moves; without `EndedInv` a card that is
disabled twice would be refunded out of nothing, without `OwesInv` it would end unpaid.

* `TypeCorrect`, `CardPaysOnce`, `MoneyIsConserved`: `Spec => []` of `TypeOK`, `PaysOnce`
  and `MoneyConserved`.

**Sums.** `MoneyConserved` and `UserIsSum` add up a function over a set, which the library
does by a fold. What a fold computes would need induction with an operator as parameter.
The two proof modules do it by hand: `SumParts` (or `ByName`) unfolds the library's
definition to `Parts`, a function on the subsets of the set; `UptoAll` builds such a function
one cardinality at a time, so that the `CHOOSE` in its definition has something to choose
(`PartsRound`); `FirstSubset` is the induction, a smallest subset that is an exception, from
the well-foundedness of `<` on `Nat`. `PartsChange` then says that a function changed at one
point changes its sum by as much, because the fold takes the elements of a set out in the
same order whatever the function. The assumptions `IsFiniteSet(Instances)`,
`IsFiniteSet(Users)` and `IsFiniteSet(Cards)` are needed here, and say that these are rows of
tables. The lemmas stand in both modules, since neither component knows the other.

**InstanceTransfer_proofs** (from `InstanceTransferAssumption`). The inductive invariant is
`TypeOK /\ FeeInv /\ EnvInv`. `FeeInv` counts, for each transfer, the refunds written and the
requests that may still settle it (`Settling`) against one more than the clean-ups that took the
row from a request at work; a row in `processing` that nobody works on leaves room for the next
claim. `EnvInv == UserInv /\ NameInv /\ DestroyInv`. `NameInv`: a request that
renames has the newest name there is, which nobody else has read; so of two requests on one row
only the one whose rename found the container has `hostName` as its new name, which is what
`HandsOverAlone` needs. `DestroyInv` speaks of a deletion that was overtaken by a transfer: the
name it is about is `Retired`, no container has it or gets it again. Without `Retired`, a failed
accept that renames the container back could make a stale deletion hit it.

* `TypeCorrect`, `OneHandsOver`, `FeesSettleOnce`: `Spec => []` of `TypeOK`, `HandsOverAlone`,
  `FeeSettledOnce`;
* `RecordedNamesAreReal`, `DestroysOnlyOwn`: `Spec => RecordedNameIsReal`,
  `Spec => DestroysOwn`.

**RechargeOrders_proofs** (from `RechargeAssumption`). The invariant is
`TypeOK /\ CreditedOnce`; the type invariant bounds every attempt by `issued`, which the
attempts read by requests need, since `issued` grows under them.

That no payment is dropped needs `ToldInv` besides. `OneLink`: as long as the user has one
link, every request that looked the attempt up found that one. `Honest`: a request that says
a payment failed asked the gateway, and one that saw the order completed saw what is final.
`Untold`: while the payment of that link is owed its credit, nobody has marked it or answered
for it, nor is about to (`Quiet`). Only with all three can a request that read the order
before it was credited not tell the gateway too much.

* `TypeCorrect`, `OrderCreditedOnce`, `ClosedOrderStays`, `NoPaymentDropped`:
  `Spec => []TypeOK`, `Spec => []CreditedOnce`, `Spec => FinalStatus`,
  `Spec => []PaymentNotDropped`.

**HostTasks_proofs** (from `HostTasksAssumption`). The inductive invariant is
`IInv == TypeOK /\ ClaimsInv /\ RowsExclusive /\ RunInv /\ SweepInv /\ EarlierInv /\
WorkIsCovered /\ WorkOnLiveInstance`. `ClaimsInv` carries the host's freedom from `Pick` to
`Mark`; `RunInv` gives a task at most one executor on its first run; `SweepInv` says that a
row a sweep has read is not claimed again unless it was retried, so what the filter let
through is safe to fail; `EarlierInv` orders the light tasks of an instance, including an
earlier one that was cancelled after it was picked. Without
`SweepInv`, for example, nothing excludes a `SweepWrite` that takes the row of a running
task.

* `TypeCorrect`, `HostExclusive`, `FirstRunCovered`, `FirstRunsApart`,
  `FirstRunOnLiveInstance`: `Spec => []` of the invariants that `tasks` checks. The
  fourth follows from `RowsExclusive`, `WorkIsCovered`, `RunInv` and `EarlierInv`.

**Provisioning_proofs** (from `ProvisioningAssumption`). Two inductive invariants.
`IInv == TypeOK /\ GateInv`, with `GateInv == Open /\ Closed /\ OneRefunds /\ ActsLate /\
DeliverOrCompensate`, is about the gate. `Unopened` is a row that is still to be created, also one
that a deletion claimed and may put back; `Open` says that it was given to nobody and that nobody
is about to pay it back, `OneRefunds` that one process at most is between the gate and the refund,
`ActsLate` that the synchronisation, and a deletion of a row past its creation, never
reopen the gate. `HostInv == BeforeUse /\ Flagged /\ Watched` is about the host: only who
reached it can have left something there, and a container that no row accounts for is watched by
a process that will delete it, or is `left`.

* `TypeCorrect`, `DeliveredOrCompensated`, `NothingOrphaned`: `Spec => []` of the invariants
  that `provisioning` checks. The second says *at most once*: after a crash behind the gate
  nobody pays, and what a deletion refunds is not counted (item 6 of section 3).

**InstanceLifecycle_proofs** (from `LifecycleAssumption`). The first inductive invariant is
`IInv == TypeOK /\ KindInv /\ GrantInv /\ (Extended \/ (RenewInv /\ PaidUntilExpiry /\
Disjoint))`. `RenewInv` is the argument for the version: a renewal that read the row's version
read the row's expiry, for whoever moves the expiry moves the version. The exception, `Extended`,
is an administrator's extension, which moves the one without the other.

The other properties follow from `DInv == IInv /\ Counted /\ Alone /\ Names /\ GoneInv /\
ExpiredInv`, which holds of every reachable state. `Counted`: the deletions that will still pay
(`Claimants`) and the refunds paid are together at most one for the row being deleted, and
`reopened`. Deletions claim the status they read, so only one that read `deleted` makes a second
claimant of one row, and `reopened` counts just that. `Alone`: as long as nothing was reopened,
one deletion at most holds the row, and the row stays deleted. `Names` orders the container names
the processes know, so that a recreation writes the name of the container that is there. `GoneInv`:
a container is there, or being built by a recreation, or gone with no deletion left that could be
undone. `ExpiredInv` says what the expiry job relies on without reading it: a row suspended on
expiry has expired, and a renewal at work that read this version renews an expired row, which takes
it out of the suspension and moves the version.

* `TypeCorrect`, `RenewalsDisjoint`: `Spec => []` of `TypeOK` and `PeriodsDisjoint`;
* `LiveKeepsContainer`, `RefundsOnce`, `RefundedStaysGone`: `Spec => []` of
  `LiveHasContainer`, `RefundedOnce` and `RefundedMeansGone`;
* `ExpirySparesPaid`: `Spec => SparesPaid`.

**TrafficLedger_proofs** (from `TrafficAssumption`). The invariant is
`TInv /\ HoldsLock /\ Alone` with `TInv == TypeOK /\ Counted /\ WorkInv`, and `InOrder(i)` of
every instance. `HoldsLock`: who is at work on an instance holds its lock, unless he is a reset.
`Alone`: who is at work beside another is in `crossed`, so everybody else may rely on the lock.
`InOrder(i)`: whatever can still become the baseline of an instance (the last report, the reports
being handled, what a collector or a reset has read) was once its counter, and is in order with the
baseline when the stamps of both are. Of true stamps the order of the moments follows (`Before`); a
sample the server reads itself is behind nothing that was accepted (`Behind`), because nobody else
moves the baseline meanwhile.

* `TypeCorrect`: `Spec => []TypeOK`;
* `OneProcess`: `Spec => []OneAtATime`. That the transactions do not overlap either comes from
  the user's lock (`UserHolder` below);
* `CountedOnce`: `Spec => MeterSpec`. `Apply` and `Reset` are `Meter!Account` or, with a late
  sample, change nothing; a doubtful sample is the step `TrafficMeter` has for it; `Send` is
  `Meter!Send`.

Neither has a condition on clocks or on how long a reset takes.

`SInv == TInv /\ UserIsSum /\ UserHolder /\ Remainder` is the invariant
for the user's row. `UserHolder`: who is between the read and the write of that row holds the
user's lock, and that lock is not lost in between, for nobody waits for a host while he has
it. `Remainder`: what a reset is about to write is the user's traffic without the instance's.

* `UserTrafficIsSum`: `Spec => []UserIsSum`.

**Only model-checked:** the liveness properties `TransactionEnds`, `RequestEnds`,
`ProcessingEnds` (of transfers and of tasks), `PaidEnds`, `PaidIsAnswered` and `CreatingEnds`:
the prover handles neither fairness nor ENABLED. Every other property of a passing run is a
theorem. The three runs that expect a violation refute what a comment says, so there is
nothing to prove of them.

## 5. What is not modelled

* More than one server process on one database. The start-up clean-ups of some
  components allow for it, the code as a whole does not say.
* Decimal arithmetic: amounts are integers.
* Prices, discounts, signatures, permissions and input validation.
* What a finished transfer deletes with the instance.
* What tasks do to remote storage, the delay before a retry, and the back-off of the workers
  after database failures.
* Calls to a host that take effect after their caller gave up, except the creations of
  `Provisioning`: a rename or deletion of `InstanceTransfer` happens before its answer or
  with the crash of its caller, and the failed creation of a recreation does so at once.
* Of provisioning: the choice of host, address and price, the replay of a request by its
  idempotency key, the hosting variant, cancelling an operation task, two deletions at a time, and
  the deletion of a row already deleted (it is in `InstanceLifecycle`).
* Of the lifecycle: changes of plan and price, the count of failed automatic renewals, grace
  and warning periods of different length, deletions in a batch by the owner of a host
  (`routes/hosts.ts:2520`), synchronisation by hand, and containers in an error status. The quote
  is an upper bound: refunds paid before reduce later quotes in some paths. The synchronisation
  asks the host and looks for active tasks in one step (`Look`): an answer given while a task is
  active is an answer given before or after it.
* Of traffic: limits and throttling, the multiplier, daily and hourly rows, the first sample
  of an instance, and that a transferred instance keeps its traffic with its old user.
* The components listed as `not_modelled` in `PROJECT.json`.

## 6. Plan

What is left, in this order.

1. Referral commissions as a further style of `BalanceTx` transaction: the commission lock
   and the balance lock are taken in either order (`db/aff.ts:676`,
   `db/billing-operations.ts:623`), and PostgreSQL has to end one of the two.
2. The hosting variant of provisioning, and snapshots and backups as far as they keep state.
