----------------------------- MODULE JitAccess ------------------------------
(* What just-in-time deletion promises, whatever goes on between the         *)
(* services: a manager is issued at most one short-lived credential for each *)
(* request, a deletion needs a grant, and a grant is for one order, given    *)
(* once, to a manager who brings another request's credential while it is    *)
(* alive, and worth one deletion.                                            *)

CONSTANTS
    Req,        \* requests
    Cred,       \* credentials
    OrderId,    \* the orders the lab starts with
    None        \* not a request

VARIABLES
    managers,   \* requests known to be a manager's
    owner,      \* whom a credential was issued for
    alive,      \* the credentials that are still good
    handed,     \* the credentials that were handed out
    granted,    \* requests that have been given their grant
    grants,     \* the grants that are open: a request, and the order it may delete
    orders      \* the orders that exist

vars == <<managers, owner, alive, handed, granted, grants, orders>>

Init ==
    /\ managers = {}
    /\ owner = [c \in Cred |-> None]
    /\ alive = {} /\ handed = {}
    /\ granted = {} /\ grants = {}
    /\ orders = OrderId

Ask(r) ==
    /\ managers' = managers \cup {r}
    /\ UNCHANGED <<owner, alive, handed, granted, grants, orders>>

Issue(c, r) ==
    /\ r \in managers
    /\ owner[c] = None
    /\ \A d \in Cred : owner[d] # r
    /\ owner' = [owner EXCEPT ![c] = r]
    /\ alive' = alive \cup {c}
    /\ UNCHANGED <<managers, handed, granted, grants, orders>>

HandOut(c) ==
    /\ owner[c] # None
    /\ handed' = handed \cup {c}
    /\ UNCHANGED <<managers, owner, alive, granted, grants, orders>>

\* Credentials die: of age, revoked, or with the memory of Vault.
Die ==
    /\ alive' \subseteq alive
    /\ UNCHANGED <<managers, owner, handed, granted, grants, orders>>

Grant(r, c, o) ==
    /\ r \in managers \ granted
    /\ c \in handed \cap alive
    /\ owner[c] # r
    /\ granted' = granted \cup {r}
    /\ grants' = grants \cup {<<r, o>>}
    /\ UNCHANGED <<managers, owner, alive, handed, orders>>

Use(r, o) ==
    /\ <<r, o>> \in grants
    /\ grants' = grants \ {<<r, o>>}
    /\ orders' = orders \ {o}
    /\ UNCHANGED <<managers, owner, alive, handed, granted>>

\* Grants lapse unused, with the request or with the service that held it.
Lapse ==
    /\ grants' \subseteq grants
    /\ UNCHANGED <<managers, owner, alive, handed, granted, orders>>

\* The orders are seeded again, and the grants orders was serving lapse.
Reseed ==
    /\ orders' = OrderId
    /\ grants' \subseteq grants
    /\ UNCHANGED <<managers, owner, alive, handed, granted>>

Next ==
    \/ \E r \in Req : Ask(r)
    \/ \E c \in Cred, r \in Req : Issue(c, r)
    \/ \E c \in Cred : HandOut(c)
    \/ Die
    \/ \E r \in Req, c \in Cred, o \in OrderId : Grant(r, c, o)
    \/ \E r \in Req, o \in OrderId : Use(r, o)
    \/ Lapse
    \/ Reseed

Spec == Init /\ [][Next]_vars
=============================================================================
