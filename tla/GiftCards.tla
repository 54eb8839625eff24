------------------------------- MODULE GiftCards -------------------------------
(***************************************************************************)
(* Gift cards.  A card is created by an administrator (no owner) or paid   *)
(* for out of a user's balance (that user is creator and owner).  Another  *)
(* user redeems it; its issuer or an administrator may revoke, disable or  *)
(* delete it, which gives an issuer the money back.                        *)
(*                                                                         *)
(* Every transaction that ends a card waits for the card's advisory lock   *)
(* first and for a user's balance lock second; enableGiftCard is a bare    *)
(* conditional update and takes neither.  A transaction's statements are   *)
(* separate steps up to the one that writes; its writes and its commit are *)
(* one step, since the rows it writes stay locked in between.              *)
(***************************************************************************)
EXTENDS Integers, FiniteSets, FiniteSetsExt

CONSTANTS
    Users,
    Cards,
    Slots,        \* database connections
    Face,         \* face value of every card
    Worth,        \* what an administrator's card credits, at most Face
    InitBalance,  \* the users' balances at the start
    None

ASSUME GiftCardsAssumption ==
    /\ IsFiniteSet(Users) /\ IsFiniteSet(Cards)
    /\ Face \in Nat \ {0}
    /\ Worth \in 1..Face
    /\ InitBalance \in [Users -> Nat]
    /\ None \notin Users \cup Slots

VARIABLES
    status,     \* gift_cards.status, "none" before creation, "deleted" after
    owner,      \* gift_cards.owner_id (and created_by_id of a user's own card)
    expired,    \* the cards whose expires_at has passed
    balance,    \* user.balance
    refunds,    \* number of refund rows whose remark quotes the card
    redeems,    \* number of redemption rows for the card
    cardLock, userLock,   \* advisory lock holders
    pc, op,     \* next statement and request of each connection
    seen,       \* the status the connection's re-read of the card returned
    owed        \* no refund row was found: the issuer is still owed the money

cards == <<status, owner, expired, refunds, redeems>>
vars == <<status, owner, expired, balance, refunds, redeems, cardLock, userLock,
          pc, op, seen, owed>>

Statuses == {"none", "active", "disabled", "used", "expired", "deleted"}
Kinds == {"redeem", "revoke", "disable", "delete"}
Ops == [kind : Kinds, card : Cards, user : Users]

TypeOK ==
    /\ status \in [Cards -> Statuses]
    /\ owner \in [Cards -> Users \cup {None}]
    /\ expired \subseteq Cards
    /\ balance \in [Users -> Nat]
    /\ refunds \in [Cards -> Nat]
    /\ redeems \in [Cards -> Nat]
    /\ cardLock \in [Cards -> Slots \cup {None}]
    /\ userLock \in [Users -> Slots \cup {None}]
    /\ pc \in [Slots -> {"idle", "card", "user", "read", "lookup", "settle"}]
    /\ op \in [Slots -> Ops \cup {None}]
    /\ seen \in [Slots -> Statuses]
    /\ owed \in [Slots -> BOOLEAN]

Init ==
    /\ status = [c \in Cards |-> "none"]
    /\ owner = [c \in Cards |-> None]
    /\ expired = {}
    /\ balance = InitBalance
    /\ refunds = [c \in Cards |-> 0]
    /\ redeems = [c \in Cards |-> 0]
    /\ cardLock = [c \in Cards |-> None]
    /\ userLock = [u \in Users |-> None]
    /\ pc = [t \in Slots |-> "idle"]
    /\ op = [t \in Slots |-> None]
    /\ seen = [t \in Slots |-> "none"]
    /\ owed = [t \in Slots |-> FALSE]

-------------------------------------------------------------------------------
(* Single-step operations *)

txs == <<cardLock, userLock, pc, op, seen, owed>>

\* An administrator creates a card; nobody pays for it.
CreateByAdmin(c) ==
    /\ status[c] = "none"
    /\ status' = [status EXCEPT ![c] = "active"]
    /\ UNCHANGED <<owner, expired, balance, refunds, redeems, txs>>

\* Mutant: the decrement is not conditional on the balance.
Covered_unchecked(u) == TRUE

Covered(u) == balance[u] >= Face

\* generateGiftCardFromBalance: waits for the user's lock, takes the face value
\* off the balance if it is covered, and creates the card.
Generate(c, u) ==
    /\ status[c] = "none"
    /\ userLock[u] = None
    /\ Covered(u)
    /\ balance' = [balance EXCEPT ![u] = @ - Face]
    /\ status' = [status EXCEPT ![c] = "active"]
    /\ owner' = [owner EXCEPT ![c] = u]
    /\ UNCHANGED <<expired, refunds, redeems, txs>>

\* Mutant: any disabled card can be enabled.
Enableable_anyOwner(c) == status[c] = "disabled" /\ c \notin expired

\* The WHERE clause of enableGiftCard.
Enableable(c) == status[c] = "disabled" /\ owner[c] = None /\ c \notin expired

\* enableGiftCard: one conditional update, no lock.
Enable(c) ==
    /\ Enableable(c)
    /\ status' = [status EXCEPT ![c] = "active"]
    /\ UNCHANGED <<owner, expired, balance, refunds, redeems, txs>>

\* The expiry of an administrator's card passes; a user's card has none.
Expire(c) ==
    /\ status[c] \notin {"none", "deleted"} /\ owner[c] = None
    /\ expired' = expired \cup {c}
    /\ UNCHANGED <<status, owner, balance, refunds, redeems, txs>>

-------------------------------------------------------------------------------
(* Transactions *)

Goto(t, statement) == pc' = [pc EXCEPT ![t] = statement]

CardOf(t) == op[t].card

\* The balance a transaction moves: the redeemer's, or the issuer's.
PayeeOf(t) == IF op[t].kind = "redeem" THEN op[t].user ELSE owner[CardOf(t)]

\* Mutant: the balance lock of a user outlives the transaction.
UserLocksWithout_kept(t) == userLock

UserLocksWithout(t) ==
    [u \in Users |-> IF userLock[u] = t THEN None ELSE userLock[u]]

\* The transaction is over and its locks go.
End(t) ==
    /\ Goto(t, "idle")
    /\ op' = [op EXCEPT ![t] = None]
    /\ cardLock' = [c \in Cards |-> IF cardLock[c] = t THEN None ELSE cardLock[c]]
    /\ userLock' = UserLocksWithout(t)
    /\ seen' = [seen EXCEPT ![t] = "none"]
    /\ owed' = [owed EXCEPT ![t] = FALSE]

Rollback(t) == End(t) /\ UNCHANGED <<cards, balance>>

\* A request finds the card's id and waits for its lock.
Begin(t) ==
    /\ pc[t] = "idle"
    /\ \E o \in Ops :
           /\ status[o.card] \notin {"none", "deleted"}
           /\ op' = [op EXCEPT ![t] = o]
    /\ Goto(t, "card")
    /\ UNCHANGED <<cards, balance, cardLock, userLock, seen, owed>>

\* Mutant: the card's lock is asked for but not waited for.
CardFree_ignored(c) == TRUE

CardFree(c) == cardLock[c] = None

\* redeem locks the user next, the others read the card first.
AfterCardLock(t) == IF op[t].kind = "redeem" THEN "user" ELSE "read"

LockCard(t) ==
    /\ pc[t] = "card"
    /\ CardFree(CardOf(t))
    /\ cardLock' = [cardLock EXCEPT ![CardOf(t)] = t]
    /\ Goto(t, AfterCardLock(t))
    /\ UNCHANGED <<cards, balance, userLock, op, seen, owed>>

LockUser(t) ==
    /\ pc[t] = "user"
    /\ userLock[PayeeOf(t)] = None
    /\ userLock' = [userLock EXCEPT ![PayeeOf(t)] = t]
    /\ Goto(t, IF op[t].kind = "redeem" THEN "read" ELSE "lookup")
    /\ UNCHANGED <<cards, balance, cardLock, op, seen, owed>>

Revocable(c) == status[c] \notin {"used", "deleted"}

\* The tests on the re-read card.
Permitted(t) ==
    LET c == CardOf(t) IN
    CASE op[t].kind = "redeem"  -> status[c] = "active" /\ owner[c] # op[t].user
      [] op[t].kind = "revoke"  -> Revocable(c) /\ owner[c] = op[t].user
      [] op[t].kind = "disable" -> status[c] = "active"
      [] op[t].kind = "delete"  -> Revocable(c)

\* The card is read again under its lock.  Ending a user's card goes on to lock
\* that user's balance; an administrator's card has nobody to refund.
ReadCard(t) ==
    /\ pc[t] = "read"
    /\ IF Permitted(t)
       THEN /\ seen' = [seen EXCEPT ![t] = status[CardOf(t)]]
            /\ Goto(t, IF op[t].kind = "redeem" \/ owner[CardOf(t)] = None
                       THEN "settle" ELSE "user")
            /\ UNCHANGED <<cards, balance, cardLock, userLock, op, owed>>
       ELSE Rollback(t)

RefundFound(c) == refunds[c] > 0

\* refundUserFundedGiftCard looks for an earlier refund row of this card.
LookupRefund(t) ==
    /\ pc[t] = "lookup"
    /\ owed' = [owed EXCEPT ![t] = ~RefundFound(CardOf(t))]
    /\ Goto(t, "settle")
    /\ UNCHANGED <<cards, balance, cardLock, userLock, op, seen>>

\* The redeemer is credited and the card used, if it still is active; a card
\* past its expiry becomes expired instead and nobody is credited.
SettleRedeem(t) ==
    LET c == CardOf(t)  u == op[t].user IN
    /\ pc[t] = "settle" /\ op[t].kind = "redeem"
    /\ End(t)
    /\ UNCHANGED <<owner, expired, refunds>>
    /\ \/ /\ status[c] # "active"
          /\ UNCHANGED <<status, balance, redeems>>
       \/ /\ status[c] = "active" /\ c \in expired
          /\ status' = [status EXCEPT ![c] = "expired"]
          /\ UNCHANGED <<balance, redeems>>
       \/ /\ status[c] = "active" /\ c \notin expired
          /\ status' = [status EXCEPT ![c] = "used"]
          /\ redeems' = [redeems EXCEPT ![c] = @ + 1]
          /\ balance' = [balance EXCEPT ![u] =
                 @ + IF owner[c] = None THEN Worth ELSE Face]

\* The issuer is paid what is owed, in the transaction that ends the card.
PayRefund(t) ==
    IF owed[t]
    THEN /\ refunds' = [refunds EXCEPT ![CardOf(t)] = @ + 1]
         /\ balance' = [balance EXCEPT ![PayeeOf(t)] = @ + Face]
    ELSE UNCHANGED <<refunds, balance>>

\* The status that ends a card.  disable and delete match only the statuses in
\* their WHERE clause; revoke skips its update when it read "disabled".
EndedStatus(t) ==
    LET now == status[CardOf(t)] IN
    CASE op[t].kind = "revoke"  -> IF seen[t] = "disabled" THEN now ELSE "disabled"
      [] op[t].kind = "disable" -> IF now = "active" THEN "disabled" ELSE now
      [] op[t].kind = "delete"  ->
             IF now \in {"active", "disabled", "expired"} THEN "deleted" ELSE now

SettleEnd(t) ==
    /\ pc[t] = "settle" /\ op[t].kind # "redeem"
    /\ PayRefund(t)
    /\ status' = [status EXCEPT ![CardOf(t)] = EndedStatus(t)]
    /\ End(t)
    /\ UNCHANGED <<owner, expired, redeems>>

\* A timeout, a lost connection or a crash.
Abort(t) ==
    /\ pc[t] # "idle"
    /\ Rollback(t)

Statement(t) ==
    \/ LockCard(t) \/ LockUser(t) \/ ReadCard(t) \/ LookupRefund(t)
    \/ SettleRedeem(t) \/ SettleEnd(t)

Next ==
    \/ \E c \in Cards : CreateByAdmin(c) \/ Enable(c) \/ Expire(c)
    \/ \E c \in Cards, u \in Users : Generate(c, u)
    \/ \E t \in Slots : Begin(t) \/ Statement(t) \/ Abort(t)

Spec == Init /\ [][Next]_vars

\* Connections keep executing; PostgreSQL serves lock waiters in order.
FairSpec ==
    /\ Spec
    /\ \A t \in Slots : /\ WF_vars(Statement(t))
                        /\ SF_vars(LockCard(t)) /\ SF_vars(LockUser(t))

-------------------------------------------------------------------------------
(* Properties *)

\* A card pays at most once: either somebody redeemed it or its issuer got the
\* money back, never both and never twice, however the requests interleave.
PaysOnce == \A c \in Cards : refunds[c] + redeems[c] <= 1

\* Only the redemption of an administrator's card creates money: balances plus
\* the users' unspent cards are what the users had plus those credits.
MoneyConserved ==
    MapThenSumSet(LAMBDA u : balance[u], Users)
        + Face * Cardinality({c \in Cards : owner[c] # None /\ status[c] = "active"})
    = MapThenSumSet(LAMBDA u : InitBalance[u], Users)
        + Worth * Cardinality({c \in Cards : owner[c] = None /\ redeems[c] > 0})

\* Every request ends: card lock before user lock, for everyone, so no two
\* transactions wait for each other.
RequestEnds == \A t \in Slots : []<>(pc[t] = "idle")
===============================================================================
