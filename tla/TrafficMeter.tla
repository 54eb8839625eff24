---------------------------- MODULE TrafficMeter ----------------------------
(* What the accounting of traffic promises, per instance: it passes over    *)
(* the traffic once, in order; what it passes is counted or dropped, and    *)
(* what it has passed is never counted again.  Only where there is doubt in *)
(* which order two samples were taken may it go back, or count again at     *)
(* most what there has been.                                                *)
EXTENDS Integers

CONSTANT Instances

VARIABLES
    sent,      \* traffic there has been
    passed,    \* how much of it was dealt with
    counted,   \* how much of that is in the statistics
    doubtful   \* the instances of which a sample may be out of order
vars == <<sent, passed, counted, doubtful>>

Init ==
    /\ sent = [i \in Instances |-> 0]
    /\ passed = [i \in Instances |-> 0]
    /\ counted = [i \in Instances |-> 0]
    /\ doubtful = {}

Send(i) ==
    /\ sent' = [sent EXCEPT ![i] = @ + 1]
    /\ UNCHANGED <<passed, counted>>

Account(i) ==
    \E more \in 0..(sent[i] - passed[i]) : \E charged \in 0..more :
        /\ passed' = [passed EXCEPT ![i] = @ + more]
        /\ counted' = [counted EXCEPT ![i] = @ + charged]
        /\ UNCHANGED sent

\* A sample out of order.
Recount(i) ==
    /\ i \in doubtful
    /\ \E to, charged \in 0..sent[i] :
          /\ passed' = [passed EXCEPT ![i] = to]
          /\ counted' = [counted EXCEPT ![i] = @ + charged]
    /\ UNCHANGED sent

\* Doubt comes and goes.
Doubt == UNCHANGED <<sent, passed, counted>>

Next ==
    /\ \/ Doubt
       \/ \E i \in Instances : Send(i) \/ Account(i) \/ Recount(i)
    /\ doubtful' \subseteq Instances

Spec == Init /\ [][Next]_vars
=============================================================================
