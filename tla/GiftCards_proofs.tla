--------------------------- MODULE GiftCards_proofs ---------------------------
(***************************************************************************)
(* For any number of users, cards and connections a card pays once: the    *)
(* card's lock keeps what a transaction has read true until it ends, but   *)
(* for the enabling of a card nobody paid for.  So money is conserved: a   *)
(* user's unspent card is worth what its issuer paid until it is redeemed, *)
(* or ended and paid back.                                                 *)
(***************************************************************************)
EXTENDS TLAPS, FiniteSetTheorems, GiftCards

\* A request under way concerns a card that exists, and holds its lock.
TxOf(t) ==
    pc[t] # "idle" =>
        /\ op[t] \in Ops
        /\ status[CardOf(t)] # "none"
        /\ pc[t] # "card" => cardLock[CardOf(t)] = t
        /\ pc[t] = "lookup" => op[t].kind # "redeem"

\* What a card has paid, its status tells.
CardInv ==
    \A c \in Cards :
        /\ refunds[c] > 0 => refunds[c] = 1 /\ owner[c] # None /\ status[c] \in {"disabled", "deleted"}
        /\ redeems[c] > 0 => redeems[c] = 1 /\ status[c] = "used"

\* A transaction that is to end a card and has read it.
Past(t) == op[t].kind # "redeem" /\ pc[t] \in {"user", "lookup", "settle"}

\* What it has read still holds.
PastOf(t) ==
    Past(t) =>
        /\ status[CardOf(t)] \in {"active", "disabled", "expired"}
        /\ pc[t] # "settle" => owner[CardOf(t)] # None
        /\ owner[CardOf(t)] # None => seen[t] = status[CardOf(t)]
        /\ op[t].kind = "disable" => seen[t] = "active"

\* What is owed was not paid.
OwedOf(t) ==
    owed[t] =>
        /\ pc[t] = "settle" /\ Past(t)
        /\ owner[CardOf(t)] # None /\ refunds[CardOf(t)] = 0

TxInv == \A t \in Slots : TxOf(t)
PastInv == \A t \in Slots : PastOf(t)
OwedInv == \A t \in Slots : OwedOf(t)

IInv == TypeOK /\ TxInv /\ CardInv /\ PastInv /\ OwedInv

-------------------------------------------------------------------------------
\* There are no cards yet.
LEMMA InitInv == Init => IInv
<1> SUFFICES ASSUME Init PROVE IInv
  OBVIOUS
<1>1. TypeOK
  BY GiftCardsAssumption DEF Init, TypeOK, Statuses
<1>2. TxInv /\ CardInv /\ PastInv /\ OwedInv
  BY DEF Init, TxInv, TxOf, CardInv, PastInv, PastOf, OwedInv, OwedOf, Past
<1>3. QED
  BY <1>1, <1>2 DEF IInv

\* The operations of one step.
LEMMA SingleSteps ==
  ASSUME IInv, NEW c \in Cards,
         \/ CreateByAdmin(c) \/ Enable(c) \/ Expire(c)
         \/ \E u \in Users : Generate(c, u)
  PROVE  IInv'
<1>1. UNCHANGED txs /\ UNCHANGED <<refunds, redeems>>
  BY DEF CreateByAdmin, Enable, Expire, Generate
<1>2. TypeOK'
  <2>1. CASE CreateByAdmin(c) \/ Enable(c) \/ Expire(c)
    BY <2>1 DEF CreateByAdmin, Enable, Expire, IInv, TypeOK, txs, Statuses
  <2>2. ASSUME NEW u \in Users, Generate(c, u) PROVE TypeOK'
    <3>1. balance[u] - Face \in Nat
      BY <2>2, GiftCardsAssumption DEF Generate, Covered, IInv, TypeOK
    <3>2. QED
      BY <2>2, <3>1 DEF Generate, IInv, TypeOK, txs, Statuses
  <2>3. QED
    BY <2>1, <2>2
<1>3. /\ \A d \in Cards : d # c => status'[d] = status[d] /\ owner'[d] = owner[d]
      /\ \/ status[c] = "none" /\ status'[c] = "active"
         \/ owner[c] = None /\ owner'[c] = None /\ status[c] = "disabled" /\ status'[c] = "active"
         \/ owner'[c] = owner[c] /\ status'[c] = status[c]
  BY DEF CreateByAdmin, Enable, Enableable, Expire, Generate, IInv, TypeOK
<1>4. \A t \in Slots : CardOf(t)' = CardOf(t) /\ Past(t)' = Past(t)
  BY <1>1 DEF txs, CardOf, Past
<1>5. \A t \in Slots : pc[t] # "idle" => CardOf(t) \in Cards
  BY DEF IInv, TxInv, TxOf, Ops, CardOf
<1>6. TxInv'
  BY <1>1, <1>3, <1>4, <1>5 DEF IInv, TxInv, TxOf, txs
<1>7. CardInv'
  BY <1>1, <1>3 DEF IInv, CardInv
<1>8. PastInv'
  <2>1. \A t \in Slots : Past(t) => pc[t] # "idle" /\ status[CardOf(t)] # "none"
    BY DEF Past, IInv, TxInv, TxOf
  <2>2. QED
    BY <1>1, <1>3, <1>4, <1>5, <2>1 DEF IInv, PastInv, PastOf, txs
<1>9. OwedInv'
  <2>1. \A t \in Slots : owed[t] => pc[t] # "idle" /\ status[CardOf(t)] # "none"
    BY DEF IInv, OwedInv, OwedOf, TxInv, TxOf
  <2>2. QED
    BY <1>1, <1>3, <1>4, <1>5, <2>1 DEF IInv, OwedInv, OwedOf, txs
<1>10. QED
  BY <1>2, <1>6, <1>7, <1>8, <1>9 DEF IInv

\* What the end of a transaction leaves.
LEMMA Ended ==
  ASSUME TypeOK, NEW t \in Slots, End(t)
  PROVE  /\ pc' \in [Slots -> {"idle", "card", "user", "read", "lookup", "settle"}]
         /\ op' \in [Slots -> Ops \cup {None}]
         /\ cardLock' \in [Cards -> Slots \cup {None}]
         /\ userLock' \in [Users -> Slots \cup {None}]
         /\ seen' \in [Slots -> Statuses] /\ owed' \in [Slots -> BOOLEAN]
         /\ pc'[t] = "idle" /\ owed'[t] = FALSE
         /\ \A s \in Slots : s # t => /\ pc'[s] = pc[s] /\ op'[s] = op[s] /\ CardOf(s)' = CardOf(s)
                                      /\ seen'[s] = seen[s] /\ owed'[s] = owed[s]
         /\ \A c \in Cards : cardLock[c] # t => cardLock'[c] = cardLock[c]
BY DEF End, Goto, UserLocksWithout, TypeOK, Statuses, CardOf

\* A transaction that ends, whatever it did to its card, which it holds.
LEMMA EndInv ==
  ASSUME IInv, NEW t \in Slots, pc[t] # "idle", End(t),
         status' \in [Cards -> Statuses], balance' \in [Users -> Nat],
         refunds' \in [Cards -> Nat], redeems' \in [Cards -> Nat], UNCHANGED <<owner, expired>>,
         \A c \in Cards : c # CardOf(t) \/ pc[t] = "card" =>
             /\ status'[c] = status[c] /\ refunds'[c] = refunds[c] /\ redeems'[c] = redeems[c],
         status'[CardOf(t)] # "none",
         LET c == CardOf(t) IN
             /\ refunds'[c] > 0 => refunds'[c] = 1 /\ owner[c] # None /\ status'[c] \in {"disabled", "deleted"}
             /\ redeems'[c] > 0 => redeems'[c] = 1 /\ status'[c] = "used"
  PROVE  IInv'
<1>1. TypeOK'
  BY Ended DEF IInv, TypeOK
<1>2. CardInv'
  BY DEF IInv, CardInv
<1>3. \A s \in Slots : pc[s] # "idle" => CardOf(s) \in Cards
  BY DEF IInv, TxInv, TxOf, Ops, CardOf
<1>4. \A s \in Slots : pc'[s] # "idle" => s # t /\ pc[s] = pc'[s] /\ CardOf(s) \in Cards /\ op'[s] = op[s]
  BY <1>3, Ended DEF IInv
<1>5. \A s \in Slots : s # t /\ pc[s] \notin {"idle", "card"} => CardOf(s) # CardOf(t) \/ pc[t] = "card"
  BY DEF IInv, TxInv, TxOf
<1>6. TxInv'
  <2>1. ASSUME NEW s \in Slots, pc'[s] # "idle"
        PROVE  /\ op'[s] \in Ops /\ status'[CardOf(s)] # "none"
               /\ pc'[s] # "card" => cardLock'[CardOf(s)] = s
               /\ pc'[s] = "lookup" => op'[s].kind # "redeem"
    <3>1. s # t /\ CardOf(s) \in Cards /\ pc[s] # "idle" /\ pc'[s] = pc[s] /\ op'[s] = op[s]
      BY <1>4, <2>1
    <3>2. status'[CardOf(s)] # "none"
      BY <3>1 DEF IInv, TxInv, TxOf
    <3>3. pc'[s] # "card" => cardLock'[CardOf(s)] = s
      <4>1. pc'[s] # "card" => cardLock[CardOf(s)] = s
        BY <3>1 DEF IInv, TxInv, TxOf
      <4>2. cardLock[CardOf(s)] # t => cardLock'[CardOf(s)] = cardLock[CardOf(s)]
        BY <3>1, Ended DEF IInv
      <4>3. QED
        BY <3>1, <4>1, <4>2
    <3>4. QED
      BY <3>1, <3>2, <3>3 DEF IInv, TxInv, TxOf
  <2>2. \A s \in Slots : pc'[s] # "idle" => CardOf(s)' = CardOf(s)
    BY <1>4 DEF CardOf
  <2>3. QED
    BY <2>1, <2>2 DEF TxInv, TxOf
<1>7. \A s \in Slots : Past(s)' =>
        /\ Past(s) /\ s # t /\ CardOf(s)' = CardOf(s) /\ CardOf(s) \in Cards
        /\ pc'[s] = pc[s] /\ op'[s] = op[s] /\ seen'[s] = seen[s] /\ owed'[s] = owed[s]
        /\ status'[CardOf(s)] = status[CardOf(s)] /\ refunds'[CardOf(s)] = refunds[CardOf(s)]
  BY <1>4, <1>5, Ended DEF Past, IInv
<1>8. PastInv'
  <2>1. ASSUME NEW s \in Slots, Past(s)'
        PROVE  /\ status'[CardOf(s)] \in {"active", "disabled", "expired"}
               /\ pc'[s] # "settle" => owner'[CardOf(s)] # None
               /\ owner'[CardOf(s)] # None => seen'[s] = status'[CardOf(s)]
               /\ op'[s].kind = "disable" => seen'[s] = "active"
    BY <1>7, <2>1 DEF IInv, PastInv, PastOf
  <2>2. QED
    BY <1>7, <2>1 DEF PastInv, PastOf
<1>9. \A s \in Slots : owed'[s] => s # t /\ owed[s] /\ Past(s) /\ Past(s)'
  <2>1. ASSUME NEW s \in Slots, owed'[s]
        PROVE  s # t /\ owed[s]
    BY <2>1, Ended DEF IInv
  <2>2. ASSUME NEW s \in Slots, s # t, owed[s]
        PROVE  Past(s) /\ Past(s)'
    <3>1. Past(s)
      BY <2>2 DEF IInv, OwedInv, OwedOf
    <3>2. pc'[s] = pc[s] /\ op'[s] = op[s]
      BY <2>2, Ended DEF IInv
    <3>3. QED
      BY <3>1, <3>2 DEF Past
  <2>3. QED
    BY <2>1, <2>2
<1>10. OwedInv'
  BY <1>7, <1>9 DEF IInv, OwedInv, OwedOf
<1>11. QED
  BY <1>1, <1>2, <1>6, <1>8, <1>10 DEF IInv

\* A transaction that is rolled back.
LEMMA RollbackInv ==
  ASSUME IInv, NEW t \in Slots, pc[t] # "idle", Rollback(t)
  PROVE  IInv'
<1>1. CardOf(t) \in Cards /\ status[CardOf(t)] # "none"
  BY DEF IInv, TxInv, TxOf, Ops, CardOf
<1>2. End(t) /\ UNCHANGED <<status, owner, expired, refunds, redeems, balance>>
  BY DEF Rollback, cards
<1>3. QED
  BY <1>1, <1>2, EndInv DEF IInv, TypeOK, CardInv

\* A transaction that goes on and has written nothing yet.
LEMMA MoveInv ==
  ASSUME IInv, TypeOK', NEW t \in Slots, UNCHANGED <<cards, balance>>,
         \A s \in Slots : s # t => /\ pc'[s] = pc[s] /\ op'[s] = op[s]
                                   /\ seen'[s] = seen[s] /\ owed'[s] = owed[s],
         \A c \in Cards : cardLock[c] # None => cardLock'[c] = cardLock[c],
         TxOf(t)', PastOf(t)', OwedOf(t)'
  PROVE  IInv'
<1>1. UNCHANGED <<status, owner, refunds, redeems>>
  BY DEF cards
<1>2. CardInv'
  BY <1>1 DEF IInv, CardInv
<1>3. ASSUME NEW s \in Slots, s # t
      PROVE  TxOf(s)' /\ PastOf(s)' /\ OwedOf(s)'
  <2>1. pc'[s] = pc[s] /\ op'[s] = op[s] /\ seen'[s] = seen[s] /\ owed'[s] = owed[s]
    BY <1>3
  <2>2. TxOf(s) /\ PastOf(s) /\ OwedOf(s)
    BY DEF IInv, TxInv, PastInv, OwedInv, TxOf, PastOf, OwedOf
  <2>3. pc[s] # "idle" => CardOf(s) \in Cards
    BY <2>2 DEF TxOf, CardOf, Ops
  <2>4. TxOf(s)'
    BY <1>1, <2>1, <2>2, <2>3, GiftCardsAssumption DEF TxOf, CardOf
  <2>5. PastOf(s)'
    BY <1>1, <2>1, <2>2 DEF PastOf, Past, CardOf
  <2>6. CASE owed[s]
    <3>1. pc[s] = "settle" /\ Past(s) /\ owner[CardOf(s)] # None /\ refunds[CardOf(s)] = 0
      BY <2>2, <2>6 DEF OwedOf
    <3>2. OwedOf(s)'
      BY <1>1, <2>1, <3>1 DEF OwedOf, Past, CardOf
    <3>3. QED
      BY <2>4, <2>5, <3>2
  <2>7. CASE ~owed[s]
    <3>1. OwedOf(s)'
      BY <2>1, <2>7 DEF OwedOf
    <3>2. QED
      BY <2>4, <2>5, <3>1
  <2>8. QED
    BY <2>6, <2>7
<1>4. \A s \in Slots : TxOf(s)' /\ PastOf(s)' /\ OwedOf(s)'
  BY <1>3
<1>5. TxInv' /\ PastInv' /\ OwedInv'
  BY <1>4 DEF TxInv, PastInv, OwedInv, TxOf, PastOf, OwedOf
<1>6. QED
  BY <1>2, <1>5 DEF IInv

\* The parts of a transaction, from the whole.
LEMMA OfTx ==
  ASSUME IInv, NEW t \in Slots
  PROVE  TxOf(t) /\ PastOf(t) /\ OwedOf(t)
BY DEF IInv, TxInv, PastInv, OwedInv, TxOf, PastOf, OwedOf

\* A request arrives, and its first waits.
LEMMA WaitsInv ==
  ASSUME IInv, NEW t \in Slots, Begin(t) \/ LockCard(t) \/ LockUser(t)
  PROVE  IInv'
<1>1. TxOf(t) /\ PastOf(t) /\ OwedOf(t)
  BY OfTx
<1>2. owed[t] => pc[t] = "settle"
  BY <1>1 DEF OwedOf
<1>3. CASE Begin(t)
  <2>1. PICK o \in Ops : status[o.card] # "none" /\ op' = [op EXCEPT ![t] = o]
    BY <1>3 DEF Begin
  <2>2. pc' = [pc EXCEPT ![t] = "card"] /\ UNCHANGED <<cards, balance, cardLock, userLock, seen, owed>>
    BY <1>3 DEF Begin, Goto
  <2>3. TypeOK'
    BY <2>1, <2>2 DEF IInv, TypeOK, cards
  <2>4. pc'[t] = "card" /\ op'[t] = o
    BY <2>1, <2>2 DEF IInv, TypeOK
  <2>5. TxOf(t)' /\ PastOf(t)'
    BY <2>1, <2>2, <2>4 DEF TxOf, PastOf, Past, CardOf, cards
  <2>6. ~owed[t]
    BY <1>2, <1>3 DEF Begin
  <2>7. OwedOf(t)'
    BY <2>2, <2>6 DEF OwedOf
  <2>8. QED
    BY <2>1, <2>2, <2>3, <2>5, <2>7, MoveInv DEF IInv, TypeOK
<1>4. CASE LockCard(t)
  <2>1. PICK step \in {"user", "read"} :
          pc' = [pc EXCEPT ![t] = step] /\ (step = "user" => op[t].kind = "redeem")
    BY <1>4 DEF LockCard, Goto, AfterCardLock
  <2>2. /\ pc[t] = "card" /\ cardLock[CardOf(t)] = None /\ cardLock' = [cardLock EXCEPT ![CardOf(t)] = t]
        /\ UNCHANGED <<cards, balance, userLock, op, seen, owed>>
    BY <1>4 DEF LockCard, CardFree
  <2>3. CardOf(t) \in Cards /\ op[t] \in Ops /\ status[CardOf(t)] # "none"
    BY <1>1, <2>2 DEF TxOf, CardOf, Ops
  <2>4. TypeOK'
    BY <2>1, <2>2 DEF IInv, TypeOK, cards
  <2>5. pc'[t] = step /\ cardLock'[CardOf(t)] = t
    BY <2>1, <2>2, <2>3 DEF IInv, TypeOK
  <2>6. TxOf(t)' /\ PastOf(t)'
    BY <2>1, <2>2, <2>3, <2>5 DEF TxOf, PastOf, Past, CardOf, cards
  <2>7. ~owed[t]
    BY <1>2, <2>2
  <2>8. OwedOf(t)'
    BY <2>2, <2>7 DEF OwedOf
  <2>9. \A c \in Cards : cardLock[c] # None => cardLock'[c] = cardLock[c]
    BY <2>2 DEF IInv, TypeOK
  <2>10. QED
    BY <2>1, <2>2, <2>4, <2>6, <2>8, <2>9, MoveInv DEF IInv, TypeOK
<1>5. CASE LockUser(t)
  <2>1. PICK step \in {"read", "lookup"} :
          pc' = [pc EXCEPT ![t] = step] /\ (step = "lookup" <=> op[t].kind # "redeem")
    BY <1>5 DEF LockUser, Goto
  <2>2. pc[t] = "user" /\ UNCHANGED <<cards, balance, cardLock, op, seen, owed>>
    BY <1>5 DEF LockUser
  <2>3. userLock' \in [Users -> Slots \cup {None}]
    BY <1>5 DEF LockUser, IInv, TypeOK
  <2>4. TypeOK'
    BY <2>1, <2>2, <2>3 DEF IInv, TypeOK, cards
  <2>5. pc'[t] = step
    BY <2>1 DEF IInv, TypeOK
  <2>6. TxOf(t)' /\ PastOf(t)'
    BY <1>1, <2>1, <2>2, <2>5 DEF TxOf, PastOf, Past, CardOf, cards
  <2>7. ~owed[t]
    BY <1>2, <2>2
  <2>8. OwedOf(t)'
    BY <2>2, <2>7 DEF OwedOf
  <2>9. QED
    BY <2>1, <2>2, <2>4, <2>6, <2>8, MoveInv DEF IInv, TypeOK
<1>6. QED
  BY <1>3, <1>4, <1>5

\* The card and the refund rows are read.
LEMMA ReadsInv ==
  ASSUME IInv, NEW t \in Slots, ReadCard(t) \/ LookupRefund(t)
  PROVE  IInv'
<1>1. TxOf(t) /\ PastOf(t) /\ OwedOf(t)
  BY OfTx
<1>2. owed[t] => pc[t] = "settle"
  BY <1>1 DEF OwedOf
<1>3. CASE ReadCard(t) /\ Permitted(t)
  <2>1. PICK step \in {"settle", "user"} :
          /\ pc' = [pc EXCEPT ![t] = step]
          /\ step = "user" => op[t].kind # "redeem" /\ owner[CardOf(t)] # None
    BY <1>3 DEF ReadCard, Goto
  <2>2. /\ pc[t] = "read" /\ seen' = [seen EXCEPT ![t] = status[CardOf(t)]]
        /\ UNCHANGED <<cards, balance, cardLock, userLock, op, owed>>
    BY <1>3 DEF ReadCard
  <2>3. op[t] \in Ops /\ CardOf(t) \in Cards /\ status[CardOf(t)] # "none" /\ cardLock[CardOf(t)] = t
    BY <1>1, <2>2 DEF TxOf, CardOf, Ops
  <2>4. TypeOK'
    BY <2>1, <2>2, <2>3 DEF IInv, TypeOK, cards
  <2>5. pc'[t] = step /\ seen'[t] = status[CardOf(t)]
    BY <2>1, <2>2 DEF IInv, TypeOK
  <2>6. TxOf(t)'
    BY <2>1, <2>2, <2>3, <2>5 DEF TxOf, CardOf, cards
  <2>7. op[t].kind # "redeem" =>
          /\ status[CardOf(t)] \in {"active", "disabled", "expired"}
          /\ op[t].kind = "disable" => status[CardOf(t)] = "active"
    <3>1. status[CardOf(t)] \in Statuses
      BY <2>3 DEF IInv, TypeOK
    <3>2. op[t].kind \in Kinds
      BY <2>3 DEF Ops
    <3>3. QED
      BY <1>3, <2>3, <3>1, <3>2 DEF Permitted, Revocable, Statuses, Kinds
  <2>8. PastOf(t)'
    BY <2>1, <2>2, <2>5, <2>7 DEF PastOf, Past, CardOf, cards
  <2>9. ~owed[t]
    BY <1>2, <2>2
  <2>10. OwedOf(t)'
    BY <2>2, <2>9 DEF OwedOf
  <2>11. QED
    BY <2>1, <2>2, <2>4, <2>6, <2>8, <2>10, MoveInv DEF IInv, TypeOK
<1>4. CASE ReadCard(t) /\ ~Permitted(t)
  BY <1>4, RollbackInv DEF ReadCard
<1>5. CASE LookupRefund(t)
  <2>1. /\ pc[t] = "lookup" /\ pc' = [pc EXCEPT ![t] = "settle"]
        /\ owed' = [owed EXCEPT ![t] = ~RefundFound(CardOf(t))]
        /\ UNCHANGED <<cards, balance, cardLock, userLock, op, seen>>
    BY <1>5 DEF LookupRefund, Goto
  <2>2. op[t] \in Ops /\ CardOf(t) \in Cards /\ op[t].kind # "redeem" /\ Past(t)
    BY <1>1, <2>1 DEF TxOf, CardOf, Ops, Past
  <2>3. RefundFound(CardOf(t)) \in BOOLEAN
    BY DEF RefundFound
  <2>4. owed' \in [Slots -> BOOLEAN] /\ owed'[t] = ~RefundFound(CardOf(t))
    BY <2>1, <2>3 DEF IInv, TypeOK
  <2>5. TypeOK'
    BY <2>1, <2>4 DEF IInv, TypeOK, cards
  <2>6. pc'[t] = "settle"
    BY <2>1 DEF IInv, TypeOK
  <2>7. TxOf(t)' /\ PastOf(t)'
    BY <1>1, <2>1, <2>2, <2>6 DEF TxOf, PastOf, Past, CardOf, cards
  <2>8. owed'[t] => refunds[CardOf(t)] = 0
    BY <2>2, <2>4 DEF RefundFound, IInv, TypeOK
  <2>9. owner[CardOf(t)] # None
    BY <1>1, <2>1, <2>2 DEF PastOf
  <2>10. OwedOf(t)'
    BY <2>1, <2>2, <2>6, <2>8, <2>9 DEF OwedOf, Past, CardOf, cards
  <2>11. \A s \in Slots : s # t => owed'[s] = owed[s]
    BY <2>1 DEF IInv, TypeOK
  <2>12. QED
    BY <2>1, <2>5, <2>7, <2>10, <2>11, MoveInv DEF IInv, TypeOK
<1>6. QED
  BY <1>3, <1>4, <1>5 DEF ReadCard

\* The writes that credit a redeemer.
LEMMA RedeemInv ==
  ASSUME IInv, NEW t \in Slots, SettleRedeem(t)
  PROVE  IInv'
<1>1. TxOf(t)
  BY OfTx
<1>2. /\ pc[t] = "settle" /\ op[t].kind = "redeem" /\ End(t)
      /\ UNCHANGED <<owner, expired, refunds>>
  BY DEF SettleRedeem
<1>3. op[t] \in Ops /\ CardOf(t) \in Cards /\ op[t].user \in Users /\ status[CardOf(t)] # "none"
  BY <1>1, <1>2 DEF TxOf, CardOf, Ops
<1>4. CASE UNCHANGED <<status, balance, redeems>>
  BY <1>2, <1>3, <1>4, EndInv DEF IInv, TypeOK, CardInv
<1>5. CASE /\ status[CardOf(t)] = "active"
           /\ status' = [status EXCEPT ![CardOf(t)] = "expired"]
           /\ UNCHANGED <<balance, redeems>>
  BY <1>2, <1>3, <1>5, EndInv DEF IInv, TypeOK, CardInv, Statuses
<1>6. CASE /\ status[CardOf(t)] = "active"
           /\ status' = [status EXCEPT ![CardOf(t)] = "used"]
           /\ redeems' = [redeems EXCEPT ![CardOf(t)] = @ + 1]
           /\ balance' = [balance EXCEPT ![op[t].user] = @ + IF owner[CardOf(t)] = None THEN Worth ELSE Face]
  <2>1. redeems[CardOf(t)] = 0 /\ refunds[CardOf(t)] = 0
    BY <1>3, <1>6 DEF IInv, CardInv, TypeOK
  <2>2. PICK n \in Nat : balance' = [balance EXCEPT ![op[t].user] = @ + n]
    <3>1. (IF owner[CardOf(t)] = None THEN Worth ELSE Face) \in Nat
      BY GiftCardsAssumption
    <3>2. QED
      BY <1>6, <3>1
  <2>3. balance' \in [Users -> Nat]
    BY <1>3, <2>2 DEF IInv, TypeOK
  <2>4. redeems' \in [Cards -> Nat] /\ redeems'[CardOf(t)] = 1
    BY <1>3, <1>6, <2>1 DEF IInv, TypeOK
  <2>5. status' \in [Cards -> Statuses] /\ status'[CardOf(t)] = "used"
    BY <1>3, <1>6 DEF IInv, TypeOK, Statuses
  <2>6. \A c \in Cards : c # CardOf(t) => status'[c] = status[c] /\ redeems'[c] = redeems[c]
    BY <1>6 DEF IInv, TypeOK
  <2>7. refunds' \in [Cards -> Nat] /\ refunds'[CardOf(t)] = 0
    BY <1>2, <2>1 DEF IInv, TypeOK
  <2>8. QED
    BY <1>2, <2>3, <2>4, <2>5, <2>6, <2>7, EndInv
<1>7. QED
  BY <1>4, <1>5, <1>6 DEF SettleRedeem, CardOf

\* The writes that end a card and pay its issuer back.
LEMMA SettleInv ==
  ASSUME IInv, NEW t \in Slots, SettleEnd(t)
  PROVE  IInv'
<1>1. TxOf(t) /\ PastOf(t) /\ OwedOf(t)
  BY OfTx
<1>2. /\ pc[t] = "settle" /\ op[t].kind # "redeem" /\ End(t) /\ PayRefund(t)
      /\ status' = [status EXCEPT ![CardOf(t)] = EndedStatus(t)]
      /\ UNCHANGED <<owner, expired, redeems>>
  BY DEF SettleEnd
<1>3. op[t] \in Ops /\ CardOf(t) \in Cards /\ op[t].kind \in {"revoke", "disable", "delete"} /\ Past(t)
  BY <1>1, <1>2 DEF TxOf, CardOf, Ops, Kinds, Past
<1>4. /\ status[CardOf(t)] \in {"active", "disabled", "expired"}
      /\ owner[CardOf(t)] # None => seen[t] = status[CardOf(t)]
      /\ op[t].kind = "disable" => seen[t] = "active"
  BY <1>1, <1>3 DEF PastOf
<1>5. /\ EndedStatus(t) \in {"active", "disabled", "expired", "deleted"}
      /\ owner[CardOf(t)] # None => EndedStatus(t) \in {"disabled", "deleted"}
  BY <1>3, <1>4 DEF EndedStatus
<1>6. status' \in [Cards -> Statuses] /\ status'[CardOf(t)] = EndedStatus(t)
  BY <1>2, <1>3, <1>5 DEF IInv, TypeOK, Statuses
<1>7. redeems[CardOf(t)] = 0
  BY <1>3, <1>4 DEF IInv, CardInv, TypeOK
<1>8. /\ refunds' \in [Cards -> Nat] /\ balance' \in [Users -> Nat]
      /\ \A c \in Cards : c # CardOf(t) => refunds'[c] = refunds[c]
      /\ refunds'[CardOf(t)] > 0 => refunds'[CardOf(t)] = 1 /\ owner[CardOf(t)] # None
  <2>1. CASE owed[t]
    <3>1. owner[CardOf(t)] \in Users /\ refunds[CardOf(t)] = 0 /\ PayeeOf(t) = owner[CardOf(t)]
      BY <1>1, <1>2, <1>3, <2>1 DEF OwedOf, IInv, TypeOK, PayeeOf
    <3>2. /\ refunds' = [refunds EXCEPT ![CardOf(t)] = @ + 1]
          /\ balance' = [balance EXCEPT ![PayeeOf(t)] = @ + Face]
      BY <1>2, <2>1 DEF PayRefund
    <3>3. balance[PayeeOf(t)] + Face \in Nat
      BY <3>1, GiftCardsAssumption DEF IInv, TypeOK
    <3>4. refunds[CardOf(t)] + 1 = 1
      BY <3>1
    <3>5. balance' \in [Users -> Nat]
      BY <3>2, <3>3 DEF IInv, TypeOK
    <3>6. refunds' \in [Cards -> Nat] /\ refunds'[CardOf(t)] = 1
      BY <1>3, <3>2, <3>4 DEF IInv, TypeOK
    <3>7. QED
      BY <1>1, <2>1, <3>1, <3>2, <3>5, <3>6, GiftCardsAssumption DEF IInv, TypeOK
  <2>2. CASE ~owed[t]
    BY <1>2, <1>3, <2>2 DEF PayRefund, IInv, TypeOK, CardInv
  <2>3. QED
    BY <2>1, <2>2
<1>9. \A c \in Cards : c # CardOf(t) => status'[c] = status[c]
  BY <1>2 DEF IInv, TypeOK
<1>10. redeems' \in [Cards -> Nat] /\ redeems'[CardOf(t)] = 0
  BY <1>2, <1>7 DEF IInv, TypeOK
<1>11. QED
  BY <1>2, <1>5, <1>6, <1>8, <1>9, <1>10, EndInv

\* Every step keeps the invariant.
LEMMA NextInv == IInv /\ [Next]_vars => IInv'
<1> SUFFICES ASSUME IInv, [Next]_vars PROVE IInv'
  OBVIOUS
<1>1. CASE UNCHANGED vars
  BY <1>1 DEF vars, IInv, TypeOK, TxInv, TxOf, CardInv, PastInv, PastOf, OwedInv, OwedOf, Past, CardOf
<1>2. ASSUME NEW c \in Cards, CreateByAdmin(c) \/ Enable(c) \/ Expire(c) \/ \E u \in Users : Generate(c, u)
      PROVE  IInv'
  BY <1>2, SingleSteps
<1>3. ASSUME NEW t \in Slots, Begin(t) \/ Statement(t) \/ Abort(t)
      PROVE  IInv'
  BY <1>3, WaitsInv, ReadsInv, RedeemInv, SettleInv, RollbackInv DEF Statement, Abort
<1>4. QED
  BY <1>1, <1>2, <1>3 DEF Next

-------------------------------------------------------------------------------
\* The rows, the locks and what a transaction has read keep their types, and no
\* balance becomes negative: a card is generated from a balance that covers it.
THEOREM TypeCorrect == Spec => []TypeOK
<1>1. IInv => TypeOK
  BY DEF IInv
<1>2. QED
  BY <1>1, InitInv, NextInv, PTL DEF Spec

\* However redemptions, revocations, disabling, deletion and enabling interleave, a
\* card is credited to a redeemer or paid back to its issuer, once.
THEOREM CardPaysOnce == Spec => []PaysOnce
<1>1. IInv => PaysOnce
  BY DEF IInv, TypeOK, CardInv, PaysOnce
<1>2. QED
  BY <1>1, InitInv, NextInv, PTL DEF Spec

-------------------------------------------------------------------------------
(* Sums over a finite set, as in TrafficLedger_proofs: two sums are compared   *)
(* element by element, in the order the fold takes the elements out.           *)

\* The element the fold takes out of a set.
Chosen(s) == CHOOSE x \in s : TRUE

\* One round of the fold that adds up f, and the fold: the sums over all subsets.
Round(S, f, g) == [s \in SUBSET S |-> IF s = {} THEN 0 ELSE f[Chosen(s)] + g[s \ {Chosen(s)}]]
Parts(S, f) == CHOOSE g : g = Round(S, f, g)

LEMMA ChosenOne ==
  ASSUME NEW S, IsFiniteSet(S), NEW s \in SUBSET S
  PROVE  /\ Cardinality(s) \in Nat
         /\ s # {} => /\ Chosen(s) \in s
                      /\ s \ {Chosen(s)} \in SUBSET S
                      /\ Cardinality(s \ {Chosen(s)}) = Cardinality(s) - 1
         /\ Cardinality(s) = 0 <=> s = {}
         /\ Cardinality(s) <= Cardinality(S)
<1>1. IsFiniteSet(s)
  BY FS_Subset
<1>2. Cardinality(s) \in Nat /\ (Cardinality(s) = 0 <=> s = {})
  BY <1>1, FS_CardinalityType, FS_EmptySet
<1>3. ASSUME s # {} PROVE Chosen(s) \in s
  BY <1>3 DEF Chosen
<1>4. ASSUME s # {} PROVE Cardinality(s \ {Chosen(s)}) = Cardinality(s) - 1
  BY <1>1, <1>3, <1>4, FS_RemoveElement
<1>5. Cardinality(s) <= Cardinality(S)
  BY FS_Subset
<1>6. QED
  BY <1>2, <1>3, <1>4, <1>5

\* The natural numbers have no set without a least element.
LEMMA Least ==
  ASSUME NEW T \in SUBSET Nat, T # {}
  PROVE  \E n \in T : \A m \in Nat : m < n => m \notin T
<1>1. \E x \in T : \A y \in T : ~ (<<y, x>> \in OpToRel(<, Nat))
  BY NatLessThanWellFounded, WFMin
<1>2. PICK x \in T : \A y \in T : ~ (<<y, x>> \in OpToRel(<, Nat))
  BY <1>1
<1>3. ASSUME NEW m \in Nat, m < x, m \in T PROVE FALSE
  <2>1. <<m, x>> \in OpToRel(<, Nat)
    BY <1>3 DEF OpToRel
  <2>2. QED
    BY <1>2, <1>3, <2>1
<1>4. QED
  BY <1>3

\* A function that agrees with its own round on the sets of at most n elements.
Upto(S, f, n) ==
    \E g \in [SUBSET S -> Int] :
        \A s \in SUBSET S : Cardinality(s) <= n => g[s] = Round(S, f, g)[s]

LEMMA UptoStep ==
  ASSUME NEW S, IsFiniteSet(S), NEW f \in [S -> Int], NEW n \in Nat, Upto(S, f, n)
  PROVE  Upto(S, f, n + 1)
<1>1. PICK g \in [SUBSET S -> Int] :
        \A s \in SUBSET S : Cardinality(s) <= n => g[s] = Round(S, f, g)[s]
  BY DEF Upto
<1> DEFINE h == Round(S, f, g)
<1>2. \A s \in SUBSET S : s # {} => Chosen(s) \in S /\ s \ {Chosen(s)} \in SUBSET S
  BY ChosenOne
<1>3. h \in [SUBSET S -> Int]
  BY <1>2 DEF Round
<1>4. ASSUME NEW s \in SUBSET S, Cardinality(s) <= n + 1 PROVE h[s] = Round(S, f, h)[s]
  <2>1. CASE s = {}
    BY <2>1 DEF Round
  <2>2. CASE s # {}
    <3> DEFINE r == s \ {Chosen(s)}
    <3>1. r \in SUBSET S /\ Cardinality(r) <= n
      BY <2>2, <1>4, ChosenOne
    <3>2. g[r] = h[r]
      BY <3>1, <1>1
    <3>3. h[s] = f[Chosen(s)] + g[r] /\ Round(S, f, h)[s] = f[Chosen(s)] + h[r]
      BY <2>2 DEF Round
    <3>4. QED
      BY <3>2, <3>3
  <2>3. QED
    BY <2>1, <2>2
<1>5. QED
  BY <1>3, <1>4 DEF Upto

LEMMA UptoAll ==
  ASSUME NEW S, IsFiniteSet(S), NEW f \in [S -> Int], NEW n \in Nat
  PROVE  Upto(S, f, n)
<1> DEFINE T == {m \in Nat : ~Upto(S, f, m)}
<1>1. Upto(S, f, 0)
  <2> DEFINE z == [s \in SUBSET S |-> 0]
  <2>1. z \in [SUBSET S -> Int]
    OBVIOUS
  <2>2. ASSUME NEW s \in SUBSET S, Cardinality(s) <= 0 PROVE z[s] = Round(S, f, z)[s]
    <3>1. Cardinality(s) \in Nat /\ (Cardinality(s) = 0 <=> s = {})
      BY ChosenOne
    <3>2. s = {}
      BY <2>2, <3>1
    <3>3. QED
      BY <3>2 DEF Round
  <2>3. QED
    BY <2>1, <2>2 DEF Upto
<1>2. SUFFICES ASSUME T # {} PROVE FALSE
  OBVIOUS
<1>3. PICK m \in T : \A k \in Nat : k < m => k \notin T
  BY <1>2, Least
<1>4. m # 0 /\ m \in Nat /\ m - 1 \in Nat /\ m - 1 < m
  BY <1>1, <1>3
<1>5. Upto(S, f, m - 1)
  BY <1>3, <1>4
<1>6. Upto(S, f, (m - 1) + 1)
  BY <1>4, <1>5, UptoStep
<1>7. QED
  BY <1>3, <1>4, <1>6

\* The fold exists.
LEMMA PartsRound ==
  ASSUME NEW S, IsFiniteSet(S), NEW f \in [S -> Int]
  PROVE  Parts(S, f) = Round(S, f, Parts(S, f))
<1>1. Cardinality(S) \in Nat
  BY FS_CardinalityType
<1>2. PICK g \in [SUBSET S -> Int] :
        \A s \in SUBSET S : Cardinality(s) <= Cardinality(S) => g[s] = Round(S, f, g)[s]
  BY <1>1, UptoAll DEF Upto
<1>3. \A s \in SUBSET S : g[s] = Round(S, f, g)[s]
  BY <1>2, ChosenOne
<1>4. g = Round(S, f, g)
  BY <1>3 DEF Round
<1>5. QED
  BY <1>4 DEF Parts

\* It is computed as it is written, from the empty set on.
LEMMA PartsDef ==
  ASSUME NEW S, IsFiniteSet(S), NEW f \in [S -> Int], NEW s \in SUBSET S
  PROVE  Parts(S, f)[s] = IF s = {} THEN 0 ELSE f[Chosen(s)] + Parts(S, f)[s \ {Chosen(s)}]
<1>1. Parts(S, f) = Round(S, f, Parts(S, f))
  BY PartsRound
<1>2. Parts(S, f)[s] = Round(S, f, Parts(S, f))[s]
  BY <1>1
<1>3. QED
  BY <1>2 DEF Round

\* Among some subsets of a finite set, one is empty or is left by taking one
\* element out of it.
LEMMA FirstSubset ==
  ASSUME NEW S, IsFiniteSet(S), NEW T \in SUBSET (SUBSET S), T # {}
  PROVE  \E s \in T : s = {} \/ (/\ Chosen(s) \in s
                                 /\ s \ {Chosen(s)} \in SUBSET S
                                 /\ s \ {Chosen(s)} \notin T)
<1> DEFINE N == {n \in Nat : \E s \in T : Cardinality(s) = n}
<1>1. N # {} /\ N \in SUBSET Nat
  <2>1. PICK s \in T : TRUE
    OBVIOUS
  <2>2. Cardinality(s) \in Nat
    BY <2>1, ChosenOne
  <2>3. QED
    BY <2>1, <2>2
<1>2. PICK n \in N : \A m \in Nat : m < n => m \notin N
  BY <1>1, Least
<1>3. PICK s \in T : Cardinality(s) = n
  BY <1>2
<1>4. s \in SUBSET S
  OBVIOUS
<1>5. CASE s # {}
  <2> DEFINE r == s \ {Chosen(s)}
  <2>1. Chosen(s) \in s /\ r \in SUBSET S /\ Cardinality(r) = n - 1
    BY <1>3, <1>4, <1>5, ChosenOne
  <2>2. Cardinality(r) \in Nat
    BY <2>1, ChosenOne
  <2>3. n \in Nat /\ n - 1 \in Nat /\ n - 1 < n
    BY <2>1, <2>2
  <2>4. n - 1 \notin N
    BY <1>2, <2>3
  <2>5. r \notin T
    BY <2>1, <2>3, <2>4
  <2>6. QED
    BY <2>1, <2>5
<1>6. QED
  BY <1>5

\* Sums are integers.
LEMMA PartsType ==
  ASSUME NEW S, IsFiniteSet(S), NEW f \in [S -> Int], NEW s \in SUBSET S
  PROVE  Parts(S, f)[s] \in Int
<1> DEFINE T == {r \in SUBSET S : Parts(S, f)[r] \notin Int}
<1>1. ASSUME T # {} PROVE FALSE
  <2>1. PICK r \in T : r = {} \/ (/\ Chosen(r) \in r
                                  /\ r \ {Chosen(r)} \in SUBSET S
                                  /\ r \ {Chosen(r)} \notin T)
    BY <1>1, FirstSubset
  <2>2. Parts(S, f)[r] = IF r = {} THEN 0 ELSE f[Chosen(r)] + Parts(S, f)[r \ {Chosen(r)}]
    BY PartsDef
  <2>3. QED
    BY <2>1, <2>2
<1>2. QED
  BY <1>1

\* A function changed at one point changes the sum by as much.
LEMMA PartsChange ==
  ASSUME NEW S, IsFiniteSet(S), NEW f \in [S -> Int], NEW g \in [S -> Int],
         NEW i \in S, \A j \in S : j # i => g[j] = f[j], NEW s \in SUBSET S
  PROVE  Parts(S, g)[s] = Parts(S, f)[s] + (IF i \in s THEN g[i] - f[i] ELSE 0)
<1> DEFINE d == g[i] - f[i]
           T == {r \in SUBSET S : Parts(S, g)[r] # Parts(S, f)[r] + (IF i \in r THEN d ELSE 0)}
<1>1. g \in [S -> Int] /\ d \in Int
  OBVIOUS
<1>2. ASSUME T # {} PROVE FALSE
  <2>1. PICK r \in T : r = {} \/ (/\ Chosen(r) \in r
                                  /\ r \ {Chosen(r)} \in SUBSET S
                                  /\ r \ {Chosen(r)} \notin T)
    BY <1>2, FirstSubset
  <2>2. /\ Parts(S, f)[r] = IF r = {} THEN 0 ELSE f[Chosen(r)] + Parts(S, f)[r \ {Chosen(r)}]
        /\ Parts(S, g)[r] = IF r = {} THEN 0 ELSE g[Chosen(r)] + Parts(S, g)[r \ {Chosen(r)}]
    <3>1. r \in SUBSET S
      OBVIOUS
    <3>2. \A h \in [S -> Int] :
             Parts(S, h)[r] = IF r = {} THEN 0 ELSE h[Chosen(r)] + Parts(S, h)[r \ {Chosen(r)}]
      BY <3>1, PartsDef
    <3>3. QED
      BY <1>1, <3>2
  <2>3. CASE r = {}
    BY <2>1, <2>2, <2>3
  <2>4. CASE r # {}
    <3> DEFINE x == Chosen(r)  q == r \ {x}
    <3>1. x \in r /\ x \in S /\ q \in SUBSET S /\ q \notin T
      BY <2>1, <2>4
    <3>2. Parts(S, f)[q] \in Int
      BY <3>1, PartsType
    <3>3. Parts(S, g)[q] = Parts(S, f)[q] + (IF i \in q THEN d ELSE 0)
      BY <3>1
    <3>4. /\ g[x] = f[x] + (IF x = i THEN d ELSE 0)
          /\ f[x] \in Int /\ d \in Int
      BY <3>1
    <3>5. Parts(S, g)[r] = g[x] + Parts(S, g)[q] /\ Parts(S, f)[r] = f[x] + Parts(S, f)[q]
      BY <2>2, <2>4
    <3>6. i \in r <=> (i \in q \/ x = i)
      BY <3>1
    <3>7. ~(i \in q /\ x = i)
      OBVIOUS
    <3> HIDE DEF x, q, d
    <3>8. Parts(S, g)[r] = Parts(S, f)[r] + (IF i \in r THEN d ELSE 0)
      BY <3>2, <3>3, <3>4, <3>5, <3>6, <3>7
    <3>9. QED
      BY <2>1, <3>8
  <2>5. QED
    BY <2>3, <2>4
<1>3. QED
  BY <1>2

-------------------------------------------------------------------------------
(* The money *)

Total(f) == Parts(Users, f)[Users]

\* A user's card that is not spent, and an administrator's that was redeemed.
Unspent(c) == owner[c] # None /\ status[c] = "active"
Given(c) == owner[c] = None /\ redeems[c] > 0

\* The invariant by these names.
Balanced ==
    Total(balance) + Face * Cardinality({c \in Cards : Unspent(c)})
        = Total(InitBalance) + Worth * Cardinality({c \in Cards : Given(c)})

\* A user's card never expires, and when it ends unused it was paid back.
EndedInv ==
    \A c \in Cards :
        /\ status[c] = "none" => owner[c] = None /\ c \notin expired
        /\ owner[c] # None =>
               /\ c \notin expired
               /\ status[c] \in {"disabled", "expired", "deleted"} => refunds[c] > 0

\* Whoever is about to end a user's card pays what nobody has paid yet.
OwesOf(t) ==
    pc[t] = "settle" /\ op[t].kind # "redeem" /\ owner[CardOf(t)] # None =>
        owed[t] \/ refunds[CardOf(t)] > 0
OwesInv == \A t \in Slots : OwesOf(t)

MInv == IInv /\ EndedInv /\ OwesInv /\ Balanced

\* The sums of the model are these.
LEMMA ByName == (MoneyConserved <=> Balanced) /\ (MoneyConserved' <=> Balanced')
<1>1. MoneyConserved <=> Balanced
  BY DEF MoneyConserved, Balanced, Unspent, Given, Total, MapThenSumSet, MapThenFoldSet, Parts, Round, Chosen
<1>2. MoneyConserved' <=> Balanced'
  BY DEF MoneyConserved, Balanced, Unspent, Given, Total, MapThenSumSet, MapThenFoldSet, Parts, Round, Chosen
<1>3. QED
  BY <1>1, <1>2

\* One user's balance changes.
Moves(u, n) ==
    /\ balance' \in [Users -> Nat]
    /\ balance'[u] = balance[u] + n
    /\ \A v \in Users : v # u => balance'[v] = balance[v]

LEMMA TotalMoves ==
  ASSUME balance \in [Users -> Nat], NEW u \in Users, NEW n \in Int, Moves(u, n)
  PROVE  Total(balance) \in Int /\ Total(balance') = Total(balance) + n
<1>1. Users \in SUBSET Users /\ IsFiniteSet(Users)
  BY GiftCardsAssumption
<1>2. /\ balance \in [Users -> Int] /\ balance' \in [Users -> Int]
      /\ balance'[u] - balance[u] = n
  BY DEF Moves
<1>3. Total(balance) \in Int
  BY <1>1, <1>2, PartsType DEF Total
<1>4. \A s \in SUBSET Users :
         Parts(Users, balance')[s]
            = Parts(Users, balance)[s] + (IF u \in s THEN balance'[u] - balance[u] ELSE 0)
  BY <1>1, <1>2, PartsChange DEF Moves
<1>5. Total(balance') = Total(balance) + n
  BY <1>1, <1>2, <1>4 DEF Total
<1>6. QED
  BY <1>3, <1>5

\* Sets of cards that differ in one card at most.
LEMMA CardinalityChange ==
  ASSUME NEW A \in SUBSET Cards, NEW B \in SUBSET Cards, NEW c \in Cards,
         \A d \in Cards : d # c => (d \in A <=> d \in B)
  PROVE  /\ Cardinality(A) \in Nat /\ Cardinality(B) \in Nat
         /\ (c \in A <=> c \in B) => Cardinality(B) = Cardinality(A)
         /\ c \in B /\ c \notin A => Cardinality(B) = Cardinality(A) + 1
         /\ c \in A /\ c \notin B => Cardinality(B) = Cardinality(A) - 1
<1>1. IsFiniteSet(A) /\ IsFiniteSet(B)
  BY GiftCardsAssumption, FS_Subset
<1>2. Cardinality(A) \in Nat /\ Cardinality(B) \in Nat
  BY <1>1, FS_CardinalityType
<1>3. (c \in A <=> c \in B) => A = B
  OBVIOUS
<1>4. ASSUME c \in B, c \notin A PROVE Cardinality(B) = Cardinality(A) + 1
  <2>1. B = A \cup {c}
    BY <1>4
  <2>2. QED
    BY <1>1, <1>4, <2>1, FS_AddElement
<1>5. ASSUME c \in A, c \notin B PROVE Cardinality(B) = Cardinality(A) - 1
  <2>1. B = A \ {c}
    BY <1>5
  <2>2. QED
    BY <1>1, <1>5, <2>1, FS_RemoveElement
<1>6. QED
  BY <1>2, <1>3, <1>4, <1>5

\* The four ways in which money moves: not at all, into a card, out of a card, and
\* out of nothing when an administrator's card is redeemed.
LEMMA MoneyMoves ==
  ASSUME Balanced, balance \in [Users -> Nat], NEW c \in Cards,
         \A d \in Cards : d # c => (Unspent(d)' <=> Unspent(d)) /\ (Given(d)' <=> Given(d)),
         \/ UNCHANGED balance /\ (Unspent(c)' <=> Unspent(c)) /\ (Given(c)' <=> Given(c))
         \/ \E u \in Users :
               /\ Moves(u, 0 - Face)
               /\ ~Unspent(c) /\ Unspent(c)' /\ (Given(c)' <=> Given(c))
         \/ \E u \in Users :
               /\ Moves(u, Face)
               /\ Unspent(c) /\ ~Unspent(c)' /\ (Given(c)' <=> Given(c))
         \/ \E u \in Users :
               /\ Moves(u, Worth)
               /\ (Unspent(c)' <=> Unspent(c)) /\ ~Given(c) /\ Given(c)'
  PROVE  Balanced'
<1> DEFINE A == {d \in Cards : Unspent(d)}  B == {d \in Cards : Given(d)}
           a == Cardinality(A)  b == Cardinality(B)
<1>1. \A d \in Cards : d # c => (d \in A <=> d \in A') /\ (d \in B <=> d \in B')
  OBVIOUS
<1>2. /\ a \in Nat /\ a' \in Nat
      /\ (Unspent(c) <=> Unspent(c)') => a' = a
      /\ Unspent(c)' /\ ~Unspent(c) => a' = a + 1
      /\ Unspent(c) /\ ~Unspent(c)' => a' = a - 1
  <2>1. A \in SUBSET Cards /\ A' \in SUBSET Cards
    OBVIOUS
  <2>2. (c \in A <=> Unspent(c)) /\ (c \in A' <=> Unspent(c)')
    OBVIOUS
  <2> HIDE DEF A
  <2>3. QED
    BY <1>1, <2>1, <2>2, CardinalityChange
<1>3. /\ b \in Nat /\ b' \in Nat
      /\ (Given(c) <=> Given(c)') => b' = b
      /\ Given(c)' /\ ~Given(c) => b' = b + 1
  <2>1. B \in SUBSET Cards /\ B' \in SUBSET Cards
    OBVIOUS
  <2>2. (c \in B <=> Given(c)) /\ (c \in B' <=> Given(c)')
    OBVIOUS
  <2> HIDE DEF B
  <2>3. QED
    BY <1>1, <2>1, <2>2, CardinalityChange
<1>4. Face \in Nat /\ Worth \in Nat /\ Face \in Int /\ Worth \in Int
  BY GiftCardsAssumption
<1>5. \A x, n \in Nat : x * n \in Nat /\ x * (n + 1) = x * n + x
  OBVIOUS
<1>6. Total(balance) + Face * a = Total(InitBalance) + Worth * b
  BY DEF Balanced
<1>7. SUFFICES Total(balance') + Face * a' = Total(InitBalance) + Worth * b'
  BY DEF Balanced
<1>8. Total(InitBalance) \in Int
  <2>1. InitBalance \in [Users -> Int] /\ IsFiniteSet(Users) /\ Users \in SUBSET Users
    BY GiftCardsAssumption
  <2>2. QED
    BY <2>1, PartsType DEF Total
<1> HIDE DEF A, B, a, b
<1>9. CASE UNCHANGED balance /\ (Unspent(c)' <=> Unspent(c)) /\ (Given(c)' <=> Given(c))
  BY <1>2, <1>3, <1>6, <1>9
<1>10. ASSUME NEW u \in Users, NEW n \in Int, Moves(u, n)
       PROVE  Total(balance') = Total(balance) + n /\ Total(balance) \in Int
  BY <1>10, TotalMoves
<1>11. ASSUME NEW u \in Users,
              Moves(u, 0 - Face),
              ~Unspent(c), Unspent(c)', (Given(c)' <=> Given(c))
       PROVE  Total(balance') + Face * a' = Total(InitBalance) + Worth * b'
  <2>1. 0 - Face \in Int
    BY <1>4
  <2>2. Total(balance') = Total(balance) + (0 - Face) /\ Total(balance) \in Int
    BY <1>10, <1>11, <2>1
  <2>3. a' = a + 1 /\ b' = b
    BY <1>2, <1>3, <1>11
  <2>4. Face * a' = Face * a + Face /\ Face * a \in Nat
    BY <1>2, <1>4, <1>5, <2>3
  <2>5. QED
    BY <1>4, <1>6, <1>8, <2>2, <2>3, <2>4
<1>12. ASSUME NEW u \in Users,
              Moves(u, Face),
              Unspent(c), ~Unspent(c)', (Given(c)' <=> Given(c))
       PROVE  Total(balance') + Face * a' = Total(InitBalance) + Worth * b'
  <2>1. Total(balance') = Total(balance) + Face /\ Total(balance) \in Int
    BY <1>4, <1>10, <1>12
  <2>2. a = a' + 1 /\ b' = b
    BY <1>2, <1>3, <1>12
  <2>3. Face * a = Face * a' + Face /\ Face * a' \in Nat
    BY <1>2, <1>4, <1>5, <2>2
  <2>4. QED
    BY <1>4, <1>6, <2>1, <2>2, <2>3
<1>13. ASSUME NEW u \in Users,
              Moves(u, Worth),
              (Unspent(c)' <=> Unspent(c)), ~Given(c), Given(c)'
       PROVE  Total(balance') + Face * a' = Total(InitBalance) + Worth * b'
  <2>1. Total(balance') = Total(balance) + Worth /\ Total(balance) \in Int
    BY <1>4, <1>10, <1>13
  <2>2. a' = a /\ b' = b + 1
    BY <1>2, <1>3, <1>13
  <2>3. Worth * b' = Worth * b + Worth /\ Worth * b \in Nat /\ Face * a \in Nat
    BY <1>2, <1>3, <1>4, <1>5, <2>2
  <2>4. Total(balance') + Face * a = (Total(balance) + Face * a) + Worth
    BY <1>4, <2>1, <2>3
  <2>5. QED
    BY <1>4, <1>6, <1>8, <2>1, <2>2, <2>3, <2>4
<1>14. QED
  BY <1>9, <1>11, <1>12, <1>13

\* There is no card yet.
LEMMA InitMoney == Init => MInv
<1> SUFFICES ASSUME Init PROVE MInv
  OBVIOUS
<1>1. IInv
  BY InitInv
<1>2. EndedInv /\ OwesInv
  BY DEF Init, EndedInv, OwesInv, OwesOf
<1>3. /\ {c \in Cards : Unspent(c)} = {}
      /\ {c \in Cards : Given(c)} = {}
  BY DEF Init, Unspent, Given
<1>4. balance = InitBalance /\ Cardinality({}) = 0 /\ Face \in Nat /\ Worth \in Nat
  BY FS_EmptySet, GiftCardsAssumption DEF Init
<1>5. Total(InitBalance) \in Int
  <2>1. InitBalance \in [Users -> Int] /\ IsFiniteSet(Users) /\ Users \in SUBSET Users
    BY GiftCardsAssumption
  <2>2. QED
    BY <2>1, PartsType DEF Total
<1>6. /\ Cardinality({c \in Cards : Unspent(c)}) = 0
      /\ Cardinality({c \in Cards : Given(c)}) = 0
      /\ Face * 0 = 0 /\ Worth * 0 = 0
  BY <1>3, <1>4
<1>7. Balanced
  BY <1>4, <1>6 DEF Balanced
<1>8. QED
  BY <1>1, <1>2, <1>7 DEF MInv

\* Cards and balances as they were.
LEMMA SameMoney == Balanced /\ UNCHANGED <<cards, balance>> => Balanced'
BY DEF Balanced, Unspent, Given, cards

\* The operations of one step.
LEMMA SingleMoney ==
  ASSUME MInv, NEW c \in Cards,
         \/ CreateByAdmin(c) \/ Enable(c) \/ Expire(c)
         \/ \E u \in Users : Generate(c, u)
  PROVE  (EndedInv /\ OwesInv /\ Balanced)'
<1>1. UNCHANGED txs /\ UNCHANGED <<refunds, redeems>>
  BY DEF CreateByAdmin, Enable, Expire, Generate
<1>2. TypeOK /\ Balanced /\ balance \in [Users -> Nat] /\ Face \in Nat
  BY GiftCardsAssumption DEF MInv, IInv, TypeOK
<1>3. /\ \A d \in Cards : d # c =>
             status'[d] = status[d] /\ owner'[d] = owner[d] /\ (d \in expired' <=> d \in expired)
      /\ owner'[c] # owner[c] => status[c] = "none"
  BY <1>2 DEF CreateByAdmin, Enable, Expire, Generate, TypeOK
<1>4. \A d \in Cards : d # c => (Unspent(d)' <=> Unspent(d)) /\ (Given(d)' <=> Given(d))
  BY <1>1, <1>3 DEF Unspent, Given
<1>5. ASSUME NEW t \in Slots PROVE OwesOf(t)'
  <2>1. UNCHANGED <<pc[t], op[t], owed[t], refunds>> /\ CardOf(t)' = CardOf(t)
    BY <1>1 DEF txs, CardOf
  <2>2. pc[t] # "idle" => CardOf(t) \in Cards /\ status[CardOf(t)] # "none"
    BY DEF MInv, IInv, TxInv, TxOf, Ops, CardOf
  <2>3. pc[t] # "idle" => owner'[CardOf(t)] = owner[CardOf(t)]
    BY <1>3, <2>2
  <2>4. QED
    BY <2>1, <2>3 DEF MInv, OwesInv, OwesOf
<1>6. OwesInv'
  BY <1>5 DEF OwesInv
<1>7. refunds[c] \in Nat /\ redeems[c] \in Nat /\ (redeems[c] > 0 => status[c] = "used")
  BY <1>2 DEF MInv, IInv, CardInv, TypeOK
<1>8. CASE CreateByAdmin(c)
  <2>1. status[c] = "none" /\ owner[c] = None /\ status'[c] = "active" /\ UNCHANGED <<owner, balance, expired>>
    BY <1>2, <1>8 DEF CreateByAdmin, MInv, EndedInv, TypeOK
  <2>2. EndedInv'
    BY <1>1, <1>3, <2>1 DEF MInv, EndedInv
  <2>3. (Unspent(c)' <=> Unspent(c)) /\ (Given(c)' <=> Given(c))
    BY <1>1, <2>1 DEF Unspent, Given
  <2>4. Balanced'
    BY <1>2, <1>4, <2>1, <2>3, MoneyMoves
  <2>5. QED
    BY <1>6, <2>2, <2>4
<1>9. CASE Enable(c) \/ Expire(c)
  <2>1. /\ owner[c] = None /\ status[c] # "none" /\ status'[c] # "none" /\ UNCHANGED <<owner, balance>>
    BY <1>2, <1>9 DEF Enable, Enableable, Expire, TypeOK
  <2>2. EndedInv'
    BY <1>1, <1>3, <2>1 DEF MInv, EndedInv
  <2>3. (Unspent(c)' <=> Unspent(c)) /\ (Given(c)' <=> Given(c))
    BY <1>1, <2>1 DEF Unspent, Given
  <2>4. Balanced'
    BY <1>2, <1>4, <2>1, <2>3, MoneyMoves
  <2>5. QED
    BY <1>6, <2>2, <2>4
<1>10. ASSUME NEW u \in Users, Generate(c, u)
       PROVE  EndedInv' /\ Balanced'
  <2>1. /\ status[c] = "none" /\ status'[c] = "active" /\ owner'[c] = u /\ UNCHANGED expired
        /\ balance' = [balance EXCEPT ![u] = @ - Face] /\ balance[u] - Face \in Nat
    BY <1>2, <1>10 DEF Generate, Covered, TypeOK
  <2>2. u # None /\ owner[c] = None /\ c \notin expired
    BY <2>1, GiftCardsAssumption DEF MInv, EndedInv
  <2>3. EndedInv'
    BY <1>1, <1>3, <2>1, <2>2 DEF MInv, EndedInv
  <2>4. Moves(u, 0 - Face)
    <3>1. balance[u] - Face = balance[u] + (0 - Face)
      BY <1>2
    <3>2. QED
      BY <1>2, <2>1, <3>1 DEF Moves
  <2>5. ~Unspent(c) /\ Unspent(c)' /\ ~Given(c) /\ ~Given(c)'
    BY <1>1, <1>7, <2>1, <2>2 DEF Unspent, Given
  <2>6. Balanced'
    BY <1>2, <1>4, <2>4, <2>5, MoneyMoves
  <2>7. QED
    BY <2>3, <2>6
<1>11. QED
  BY <1>6, <1>8, <1>9, <1>10

\* A transaction that goes on and has written nothing yet.
LEMMA MoveMoney ==
  ASSUME MInv, NEW t \in Slots, UNCHANGED <<cards, balance>>,
         \A s \in Slots : s # t => /\ pc'[s] = pc[s] /\ op'[s] = op[s] /\ owed'[s] = owed[s],
         OwesOf(t)'
  PROVE  (EndedInv /\ OwesInv /\ Balanced)'
<1>1. UNCHANGED <<status, owner, expired, refunds>>
  BY DEF cards
<1>2. EndedInv'
  BY <1>1 DEF MInv, EndedInv
<1>3. ASSUME NEW s \in Slots, s # t PROVE OwesOf(s)'
  <2>1. pc'[s] = pc[s] /\ op'[s] = op[s] /\ owed'[s] = owed[s]
    BY <1>3
  <2>2. QED
    BY <1>1, <2>1 DEF MInv, OwesInv, OwesOf, CardOf
<1>4. OwesInv'
  BY <1>3 DEF OwesInv
<1>5. QED
  BY <1>2, <1>4, SameMoney DEF MInv

\* Requests that arrive, their waits and what they read.
LEMMA GoesOnMoney ==
  ASSUME MInv, NEW t \in Slots,
         \/ Begin(t) \/ LockCard(t) \/ LockUser(t) \/ LookupRefund(t)
         \/ ReadCard(t) /\ Permitted(t)
  PROVE  (EndedInv /\ OwesInv /\ Balanced)'
<1>1. TypeOK
  BY DEF MInv, IInv
<1>2. UNCHANGED <<cards, balance>>
  BY DEF Begin, LockCard, LockUser, LookupRefund, ReadCard
<1>3. \A s \in Slots : s # t => pc'[s] = pc[s] /\ op'[s] = op[s] /\ owed'[s] = owed[s]
  BY <1>1 DEF Begin, LockCard, LockUser, LookupRefund, ReadCard, Goto, TypeOK
<1>4. CASE Begin(t) \/ LockCard(t) \/ LockUser(t)
  <2>1. pc'[t] # "settle"
    BY <1>1, <1>4 DEF Begin, LockCard, AfterCardLock, LockUser, Goto, TypeOK
  <2>2. OwesOf(t)'
    BY <2>1 DEF OwesOf
  <2>3. QED
    BY <1>2, <1>3, <2>2, MoveMoney
<1>5. CASE LookupRefund(t)
  <2>1. /\ pc[t] = "lookup" /\ UNCHANGED <<op, refunds>>
        /\ owed' = [owed EXCEPT ![t] = ~RefundFound(CardOf(t))]
    BY <1>2, <1>5 DEF LookupRefund, cards
  <2>2. RefundFound(CardOf(t)) \in BOOLEAN /\ owed'[t] = ~RefundFound(CardOf(t))
    BY <1>1, <2>1 DEF RefundFound, TypeOK
  <2>3. CardOf(t)' = CardOf(t)
    BY <2>1 DEF CardOf
  <2>4. OwesOf(t)'
    BY <2>1, <2>2, <2>3 DEF OwesOf, RefundFound
  <2>5. QED
    BY <1>2, <1>3, <2>4, MoveMoney
<1>6. CASE ReadCard(t) /\ Permitted(t)
  <2>1. pc'[t] = IF op[t].kind = "redeem" \/ owner[CardOf(t)] = None THEN "settle" ELSE "user"
    BY <1>1, <1>6 DEF ReadCard, Goto, TypeOK
  <2>2. UNCHANGED <<op, owner>> /\ CardOf(t)' = CardOf(t)
    BY <1>2, <1>6 DEF ReadCard, cards, CardOf
  <2>3. OwesOf(t)'
    BY <2>1, <2>2 DEF OwesOf
  <2>4. QED
    BY <1>2, <1>3, <2>3, MoveMoney
<1>7. QED
  BY <1>4, <1>5, <1>6

\* A transaction that ends: refunds are never taken back.
LEMMA EndOwes ==
  ASSUME MInv, NEW t \in Slots, End(t), UNCHANGED owner,
         \A c \in Cards : refunds[c] > 0 => refunds'[c] > 0
  PROVE  OwesInv'
<1>1. TypeOK
  BY DEF MInv, IInv
<1>2. ASSUME NEW s \in Slots PROVE OwesOf(s)'
  <2>1. CASE s = t
    BY <1>1, <2>1, Ended DEF OwesOf
  <2>2. CASE s # t
    <3>1. pc'[s] = pc[s] /\ op'[s] = op[s] /\ CardOf(s)' = CardOf(s) /\ owed'[s] = owed[s]
      BY <1>1, <2>2, Ended
    <3>2. pc[s] # "idle" => CardOf(s) \in Cards
      BY DEF MInv, IInv, TxInv, TxOf, Ops, CardOf
    <3>3. QED
      BY <3>1, <3>2 DEF MInv, OwesInv, OwesOf
  <2>3. QED
    BY <2>1, <2>2
<1>3. QED
  BY <1>2 DEF OwesInv

\* A transaction that is rolled back.
LEMMA RollbackMoney ==
  ASSUME MInv, NEW t \in Slots, Rollback(t)
  PROVE  (EndedInv /\ OwesInv /\ Balanced)'
<1>1. End(t) /\ UNCHANGED <<status, owner, expired, refunds>> /\ UNCHANGED <<cards, balance>>
  BY DEF Rollback, cards
<1>2. EndedInv'
  BY <1>1 DEF MInv, EndedInv
<1>3. OwesInv'
  BY <1>1, EndOwes
<1>4. QED
  BY <1>1, <1>2, <1>3, SameMoney DEF MInv

\* The redeemer of a user's card gets what its issuer paid, that of an
\* administrator's card is credited out of nothing.
LEMMA RedeemMoney ==
  ASSUME MInv, NEW t \in Slots, SettleRedeem(t)
  PROVE  (EndedInv /\ OwesInv /\ Balanced)'
<1>t. TxOf(t) /\ pc[t] = "settle"
  BY OfTx DEF MInv, SettleRedeem
<1>c. PICK c \in Cards : c = CardOf(t)
  BY <1>t DEF TxOf, Ops, CardOf
<1>u. PICK u \in Users : u = op[t].user
  BY <1>t DEF TxOf, Ops
<1>1. TypeOK /\ CardInv /\ TxOf(t) /\ Balanced /\ balance \in [Users -> Nat]
  BY OfTx DEF MInv, IInv, TypeOK
<1>2. /\ pc[t] = "settle" /\ End(t) /\ UNCHANGED <<owner, expired, refunds>>
  BY DEF SettleRedeem
<1>3. OwesInv'
  BY <1>2, EndOwes
<1>4. CASE UNCHANGED <<status, balance, redeems>>
  <2>1. EndedInv'
    BY <1>2, <1>4 DEF MInv, EndedInv
  <2>2. Balanced'
    BY <1>1, <1>2, <1>4, SameMoney DEF cards
  <2>3. QED
    BY <1>3, <2>1, <2>2
<1>5. CASE /\ c \in expired
           /\ status' = [status EXCEPT ![c] = "expired"]
           /\ UNCHANGED <<balance, redeems>>
  <2>1. owner[c] = None
    BY <1>2, <1>5 DEF MInv, EndedInv
  <2>2. status'[c] = "expired" /\ \A d \in Cards : d # c => status'[d] = status[d]
    BY <1>1, <1>2, <1>5 DEF TypeOK
  <2>3. EndedInv'
    BY <1>2, <2>1, <2>2 DEF MInv, EndedInv
  <2>4. \A d \in Cards : (Unspent(d)' <=> Unspent(d)) /\ (Given(d)' <=> Given(d))
    BY <1>2, <1>5, <2>1, <2>2 DEF Unspent, Given
  <2>5. Balanced'
    BY <1>1, <1>2, <1>5, <2>4, MoneyMoves
  <2>6. QED
    BY <1>3, <2>3, <2>5
<1>6. CASE /\ status[c] = "active"
           /\ status' = [status EXCEPT ![c] = "used"]
           /\ redeems' = [redeems EXCEPT ![c] = @ + 1]
           /\ balance' = [balance EXCEPT ![u] = @ + IF owner[c] = None THEN Worth ELSE Face]
  <2>1. redeems[c] = 0 /\ redeems'[c] = 1 /\ status'[c] = "used"
    BY <1>1, <1>2, <1>6 DEF CardInv, TypeOK
  <2>2. \A d \in Cards : d # c => status'[d] = status[d] /\ redeems'[d] = redeems[d]
    BY <1>1, <1>6 DEF TypeOK
  <2>3. EndedInv'
    BY <1>2, <2>1, <2>2, <1>6 DEF MInv, EndedInv
  <2>4. \A d \in Cards : d # c => (Unspent(d)' <=> Unspent(d)) /\ (Given(d)' <=> Given(d))
    BY <1>2, <2>2 DEF Unspent, Given
  <2>5. CASE owner[c] = None
    <3>1. Worth \in Nat /\ balance' = [balance EXCEPT ![u] = balance[u] + Worth]
      BY <1>6, <2>5, GiftCardsAssumption
    <3>2. Moves(u, Worth)
      BY <1>1, <1>2, <3>1 DEF Moves
    <3>3. ~Unspent(c) /\ ~Unspent(c)' /\ ~Given(c) /\ Given(c)'
      BY <1>2, <2>1, <2>5 DEF Unspent, Given
    <3>4. QED
      BY <1>1, <1>3, <2>3, <2>4, <3>2, <3>3, MoneyMoves
  <2>6. CASE owner[c] # None
    <3>1. Face \in Nat /\ balance' = [balance EXCEPT ![u] = balance[u] + Face]
      BY <1>6, <2>6, GiftCardsAssumption
    <3>2. Moves(u, Face)
      BY <1>1, <1>2, <3>1 DEF Moves
    <3>3. Unspent(c) /\ ~Unspent(c)' /\ ~Given(c) /\ ~Given(c)'
      BY <1>2, <1>6, <2>1, <2>6 DEF Unspent, Given
    <3>4. QED
      BY <1>1, <1>3, <2>3, <2>4, <3>2, <3>3, MoneyMoves
  <2>7. QED
    BY <2>5, <2>6
<1>7. QED
  BY <1>c, <1>u, <1>4, <1>5, <1>6 DEF SettleRedeem

\* The issuer of a card that is ended gets back what he paid for it, unless it was
\* ended before.
LEMMA SettleMoney ==
  ASSUME MInv, NEW t \in Slots, SettleEnd(t)
  PROVE  (EndedInv /\ OwesInv /\ Balanced)'
<1>c. PICK c \in Cards : c = CardOf(t)
  <2>1. TxOf(t) /\ pc[t] = "settle"
    BY OfTx DEF MInv, SettleEnd
  <2>2. QED
    BY <2>1 DEF TxOf, Ops, CardOf
<1>1. /\ TypeOK /\ CardInv /\ TxOf(t) /\ PastOf(t) /\ OwedOf(t) /\ Balanced
      /\ balance \in [Users -> Nat] /\ OwesOf(t)
  BY OfTx DEF MInv, IInv, TypeOK, OwesInv, OwesOf
<1>2. /\ pc[t] = "settle" /\ op[t].kind # "redeem" /\ End(t) /\ PayRefund(t)
      /\ status' = [status EXCEPT ![c] = EndedStatus(t)]
      /\ UNCHANGED <<owner, expired, redeems>>
  BY <1>c DEF SettleEnd
<1>3. op[t] \in Ops /\ op[t].kind \in {"revoke", "disable", "delete"} /\ Past(t)
  BY <1>1, <1>2 DEF TxOf, CardOf, Ops, Kinds, Past
<1>4. /\ status[c] \in {"active", "disabled", "expired"}
      /\ owner[c] # None => seen[t] = status[c]
      /\ op[t].kind = "disable" => seen[t] = "active"
  BY <1>c, <1>1, <1>3 DEF PastOf
<1>5. /\ EndedStatus(t) \in {"active", "disabled", "expired", "deleted"}
      /\ owner[c] # None => EndedStatus(t) \in {"disabled", "deleted"}
  BY <1>c, <1>3, <1>4 DEF EndedStatus
<1>6. status'[c] = EndedStatus(t) /\ \A d \in Cards : d # c => status'[d] = status[d]
  BY <1>1, <1>2, <1>3 DEF TypeOK
<1>7. \A d \in Cards : d # c => (Unspent(d)' <=> Unspent(d)) /\ (Given(d)' <=> Given(d))
  BY <1>2, <1>6 DEF Unspent, Given
<1>8. (Given(c)' <=> Given(c)) /\ (owner[c] # None => ~Unspent(c)') /\ (owner[c] = None => (Unspent(c)' <=> Unspent(c)))
  BY <1>2, <1>5, <1>6 DEF Unspent, Given
<1>9. CASE owed[t]
  <2>1. owner[c] \in Users /\ owner[c] # None /\ refunds[c] = 0 /\ PayeeOf(t) = owner[c]
    BY <1>c, <1>1, <1>2, <1>3, <1>9 DEF OwedOf, TypeOK, PayeeOf
  <2>2. /\ refunds' = [refunds EXCEPT ![c] = @ + 1]
        /\ balance' = [balance EXCEPT ![owner[c]] = balance[owner[c]] + Face]
    BY <1>c, <1>2, <1>9, <2>1 DEF PayRefund
  <2>3. refunds'[c] = 1 /\ \A d \in Cards : d # c => refunds'[d] = refunds[d]
    BY <1>1, <1>3, <2>1, <2>2 DEF TypeOK
  <2>4. Moves(owner[c], Face)
    BY <1>1, <2>1, <2>2, GiftCardsAssumption DEF Moves
  <2>5. status[c] = "active"
    BY <1>3, <1>4, <2>1 DEF MInv, EndedInv
  <2>6. Unspent(c) /\ ~Unspent(c)'
    BY <1>8, <2>1, <2>5 DEF Unspent
  <2>7. Balanced'
    BY <1>1, <1>3, <1>7, <1>8, <2>1, <2>4, <2>6, MoneyMoves
  <2>8. EndedInv'
    BY <1>2, <1>5, <1>6, <2>3 DEF MInv, EndedInv
  <2>9. OwesInv'
    BY <1>2, <2>3, EndOwes
  <2>10. QED
    BY <2>7, <2>8, <2>9
<1>10. CASE ~owed[t]
  <2>1. UNCHANGED <<refunds, balance>>
    BY <1>2, <1>10 DEF PayRefund
  <2>2. owner[c] # None => refunds[c] > 0
    BY <1>c, <1>1, <1>2, <1>10 DEF OwesOf
  <2>3. ~Unspent(c)
    BY <1>3, <2>2, <1>1 DEF CardInv, Unspent
  <2>4. Balanced'
    BY <1>1, <1>3, <1>7, <1>8, <2>1, <2>3, MoneyMoves
  <2>5. EndedInv'
    BY <1>2, <1>4, <1>5, <1>6, <2>1, <2>2 DEF MInv, EndedInv
  <2>6. OwesInv'
    BY <1>2, <2>1, EndOwes
  <2>7. QED
    BY <2>4, <2>5, <2>6
<1>11. QED
  BY <1>9, <1>10, <1>1 DEF TypeOK

\* Whatever requests meet over whatever cards, balances and unspent cards of the
\* users are what they had, plus what administrators gave away.
THEOREM MoneyIsConserved == Spec => []MoneyConserved
<1>1. Init => MInv
  BY InitMoney
<1>2. MInv /\ [Next]_vars => MInv'
  <2> SUFFICES ASSUME MInv, [Next]_vars PROVE MInv'
    OBVIOUS
  <2>1. IInv'
    BY NextInv DEF MInv
  <2>2. CASE UNCHANGED vars
    <3>1. UNCHANGED <<cards, balance>> /\ Balanced'
      BY <2>2, SameMoney DEF vars, cards, MInv
    <3>2. EndedInv' /\ OwesInv'
      BY <2>2 DEF vars, MInv, EndedInv, OwesInv, OwesOf, CardOf
    <3>3. QED
      BY <2>1, <3>1, <3>2 DEF MInv
  <2>3. ASSUME NEW c \in Cards, CreateByAdmin(c) \/ Enable(c) \/ Expire(c) \/ \E u \in Users : Generate(c, u)
        PROVE  MInv'
    BY <2>1, <2>3, SingleMoney DEF MInv
  <2>4. ASSUME NEW t \in Slots, Begin(t) \/ Statement(t) \/ Abort(t)
        PROVE  MInv'
    <3>1. ReadCard(t) => (ReadCard(t) /\ Permitted(t)) \/ Rollback(t)
      BY DEF ReadCard
    <3>2. QED
      BY <2>1, <2>4, <3>1, GoesOnMoney, RollbackMoney, RedeemMoney, SettleMoney DEF MInv, Statement, Abort
  <2>5. QED
    BY <2>2, <2>3, <2>4 DEF Next
<1>3. MInv => MoneyConserved
  BY ByName DEF MInv
<1>4. QED
  BY <1>1, <1>2, <1>3, PTL DEF Spec
===============================================================================
