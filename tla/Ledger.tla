-------------------------------- MODULE Ledger --------------------------------
(***************************************************************************)
(* What the balance subsystem promises.  Each user has a balance and an    *)
(* append-only statement of balance_logs rows.  A posting is one           *)
(* indivisible step: it moves the balance and appends a row that quotes    *)
(* the balance before and after.  A posting may settle a document (a       *)
(* balance adjustment request or a recharge order); a document is settled  *)
(* by at most one posting, ever.                                           *)
(*                                                                         *)
(* Amounts are integers (cents).  BalanceTx shows how concurrent database  *)
(* transactions implement this module.                                     *)
(***************************************************************************)
EXTENDS Integers, Sequences

CONSTANTS
    Users,
    Docs,        \* adjustment requests and recharge orders
    NoDoc,       \* the posting settles no document
    MaxBalance   \* MAX_BALANCE_AMOUNT, also the limit of the Decimal column

VARIABLES
    balance,     \* user.balance
    balanceLog   \* the balance_logs rows of each user, oldest first

ledgerVars == <<balance, balanceLog>>

Entry == [amount : Int, before : Int, after : Int, doc : Docs \cup {NoDoc}]

\* The documents some row of some user's statement refers to.
Settled ==
    {d \in Docs : \E u \in Users : \E i \in DOMAIN balanceLog[u] :
                      balanceLog[u][i].doc = d}

Init ==
    /\ balance \in [Users -> 0..MaxBalance]
    /\ balanceLog = [u \in Users |-> <<>>]

\* A posting of amt to u, refused when it would leave the allowed range.
Post(u, amt, d) ==
    LET after == balance[u] + amt IN
    /\ after \in 0..MaxBalance
    /\ d \notin Settled
    /\ balance' = [balance EXCEPT ![u] = after]
    /\ balanceLog' = [balanceLog EXCEPT ![u] =
           Append(@, [amount |-> amt, before |-> balance[u],
                      after |-> after, doc |-> d])]

Next ==
    \E u \in Users, amt \in (-MaxBalance)..MaxBalance, d \in Docs \cup {NoDoc} :
        Post(u, amt, d)

Spec == Init /\ [][Next]_ledgerVars
===============================================================================
