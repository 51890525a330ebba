--------------------------- MODULE AbstractOrders ---------------------------
(* What the orders service promises its callers: a set of orders from which  *)
(* a delete takes at most the order it names, in one instant, and says so.   *)
(* A "no such order" is only the truth about an order nobody else disturbed: *)
(* the answer may also be given when another delete took effect while this   *)
(* one was being served.                                                     *)

CONSTANTS
    Thread,     \* the requests being served
    OrderId,    \* every id a caller may name
    Seeded,     \* the ids present after a start, some of OrderId
    None        \* not an id

VARIABLES
    present,    \* the orders that exist
    wants,      \* the order each thread is to delete, None when it is idle
    outcome,    \* "none" until decided, then "deleted" or "not_found"
    disturbed   \* threads during whose service another delete took effect

vars == <<present, wants, outcome, disturbed>>

TypeOK ==
    /\ present \subseteq OrderId
    /\ wants \in [Thread -> OrderId \cup {None}]
    /\ outcome \in [Thread -> {"none", "deleted", "not_found"}]
    /\ disturbed \subseteq Thread

Init ==
    /\ present = Seeded
    /\ wants = [t \in Thread |-> None]
    /\ outcome = [t \in Thread |-> "none"]
    /\ disturbed = {}

Request(t, id) ==
    /\ wants[t] = None
    /\ wants' = [wants EXCEPT ![t] = id]
    /\ outcome' = [outcome EXCEPT ![t] = "none"]
    /\ disturbed' = disturbed \ {t}
    /\ UNCHANGED present

Undecided(t) == wants[t] # None /\ outcome[t] = "none"

Delete(t) ==
    /\ Undecided(t)
    /\ wants[t] \in present
    /\ present' = present \ {wants[t]}
    /\ outcome' = [outcome EXCEPT ![t] = "deleted"]
    /\ disturbed' = Thread
    /\ UNCHANGED wants

NotFound(t) ==
    /\ Undecided(t)
    /\ wants[t] \notin present \/ t \in disturbed
    /\ outcome' = [outcome EXCEPT ![t] = "not_found"]
    /\ wants' = [wants EXCEPT ![t] = None]
    /\ UNCHANGED <<present, disturbed>>

Finish(t) ==
    /\ wants[t] # None
    /\ outcome[t] = "deleted"
    /\ wants' = [wants EXCEPT ![t] = None]
    /\ UNCHANGED <<present, outcome, disturbed>>

Restart ==
    /\ present' = Seeded
    /\ wants' = [t \in Thread |-> None]
    /\ outcome' = [t \in Thread |-> "none"]
    /\ disturbed' = {}

Next ==
    \/ \E t \in Thread :
          \/ \E id \in OrderId : Request(t, id)
          \/ Delete(t) \/ NotFound(t) \/ Finish(t)
    \/ Restart

Spec == Init /\ [][Next]_vars
=============================================================================
