------------------------------- MODULE Orders -------------------------------
(* The orders service, orders/app.py: one list, ORDERS, shared by the        *)
(* threads Flask serves requests on, with no lock around it.                 *)
(*                                                                           *)
(* A step is what runs between two points where the interpreter (CPython     *)
(* 3.12, the image of orders/Dockerfile) may hand the GIL to another thread: *)
(* the back edge of the for loop and the return of a call.  So looking at an *)
(* element, comparing its id and popping it is one step, and the len() that  *)
(* follows the pop is another.                                               *)
EXTENDS Integers, Sequences

CONSTANTS
    Thread,     \* threads of the Flask server
    Seed,       \* the ids of the ORDERS literal, in order
    OrderId,    \* every id a caller may name
    None

Ids(list) == {list[i] : i \in DOMAIN list}

ASSUME SeedAssumption ==
    /\ Seed \in Seq(OrderId)
    /\ \A i, j \in DOMAIN Seed : Seed[i] = Seed[j] => i = j
ASSUME NoneAssumption == None \notin OrderId

VARIABLES
    ORDERS,     \* the list: ids only, item and qty never change
    pc,         \* "idle", "scan" or "popped"
    wants,      \* order_id of the request a thread serves
    index,      \* where the iterator of enumerate(ORDERS) stands
    answer,     \* the last answer of each thread
    left,       \* len(ORDERS) right after a thread's pop (history)
    disturbed,  \* threads during whose scan another thread popped (history)
    told        \* the orders answered as deleted since the start (history)

vars == <<ORDERS, pc, wants, index, answer, left, disturbed, told>>

NoAnswer == [status |-> 0, deleted |-> None, remaining |-> 0]

Answer == [status : {0, 200, 404}, deleted : OrderId \cup {None}, remaining : Nat]

TypeOK ==
    /\ ORDERS \in Seq(OrderId)
    /\ pc \in [Thread -> {"idle", "scan", "popped"}]
    /\ wants \in [Thread -> OrderId \cup {None}]
    /\ index \in [Thread -> Nat]
    /\ answer \in [Thread -> Answer]
    /\ left \in [Thread -> Nat]
    /\ disturbed \subseteq Thread
    /\ told \subseteq OrderId

Init ==
    /\ ORDERS = Seed
    /\ pc = [t \in Thread |-> "idle"]
    /\ wants = [t \in Thread |-> None]
    /\ index = [t \in Thread |-> 0]
    /\ answer = [t \in Thread |-> NoAnswer]
    /\ left = [t \in Thread |-> 0]
    /\ disturbed = {}
    /\ told = {}

\* DELETE /orders/<id> reaches delete_order: the iterator is made.
Begin(t, id) ==
    /\ pc[t] = "idle"
    /\ pc' = [pc EXCEPT ![t] = "scan"]
    /\ wants' = [wants EXCEPT ![t] = id]
    /\ index' = [index EXCEPT ![t] = 0]
    /\ answer' = [answer EXCEPT ![t] = NoAnswer]
    /\ disturbed' = disturbed \ {t}
    /\ UNCHANGED <<ORDERS, left, told>>

\* The element the iterator is about to yield: it keeps a position, not an
\* element, and asks the list for its length every time.
More(t) == index[t] < Len(ORDERS)
Element(t) == ORDERS[index[t] + 1]

\* Mutant: an id is compared, but the position popped counts from one.
PopAfter(list, i) == SubSeq(list, 1, i + 1) \o SubSeq(list, i + 3, Len(list))

\* Mutant: the order is answered but stays in the list.
PopCopy(list, i) == list

\* list.pop(i), i counted from 0.
Pop(list, i) == SubSeq(list, 1, i) \o SubSeq(list, i + 2, Len(list))

Skip(t) ==
    /\ pc[t] = "scan"
    /\ More(t)
    /\ Element(t) # wants[t]
    /\ index' = [index EXCEPT ![t] = @ + 1]
    /\ UNCHANGED <<ORDERS, pc, wants, answer, left, disturbed, told>>

Match(t) ==
    /\ pc[t] = "scan"
    /\ More(t)
    /\ Element(t) = wants[t]
    /\ ORDERS' = Pop(ORDERS, index[t])
    /\ pc' = [pc EXCEPT ![t] = "popped"]
    /\ answer' = [answer EXCEPT ![t].deleted = Element(t)]
    /\ left' = [left EXCEPT ![t] = Len(ORDERS')]
    /\ disturbed' = Thread
    /\ told' = told \cup {Element(t)}
    /\ UNCHANGED <<wants, index>>

\* Mutant: the length is the one the deleted order still counted in.
RemainingStale(t) ==
    /\ pc[t] = "popped"
    /\ answer' = [answer EXCEPT ![t].status = 200, ![t].remaining = Len(ORDERS) + 1]
    /\ pc' = [pc EXCEPT ![t] = "idle"]
    /\ wants' = [wants EXCEPT ![t] = None]
    /\ UNCHANGED <<ORDERS, index, left, disturbed, told>>

\* Mutant: the deleted order is taken off once more.
RemainingShort(t) ==
    /\ pc[t] = "popped"
    /\ answer' = [answer EXCEPT ![t].status = 200, ![t].remaining = Len(ORDERS) - 1]
    /\ pc' = [pc EXCEPT ![t] = "idle"]
    /\ wants' = [wants EXCEPT ![t] = None]
    /\ UNCHANGED <<ORDERS, index, left, disturbed, told>>

Remaining(t) ==
    /\ pc[t] = "popped"
    /\ answer' = [answer EXCEPT ![t].status = 200, ![t].remaining = Len(ORDERS)]
    /\ pc' = [pc EXCEPT ![t] = "idle"]
    /\ wants' = [wants EXCEPT ![t] = None]
    /\ UNCHANGED <<ORDERS, index, left, disturbed, told>>

Exhausted(t) ==
    /\ pc[t] = "scan"
    /\ ~More(t)
    /\ answer' = [answer EXCEPT ![t].status = 404]
    /\ pc' = [pc EXCEPT ![t] = "idle"]
    /\ wants' = [wants EXCEPT ![t] = None]
    /\ UNCHANGED <<ORDERS, index, left, disturbed, told>>

\* The process starts again: the literal is evaluated anew, no request survives.
Restart ==
    /\ ORDERS' = Seed
    /\ pc' = [t \in Thread |-> "idle"]
    /\ wants' = [t \in Thread |-> None]
    /\ answer' = [t \in Thread |-> NoAnswer]
    /\ disturbed' = {}
    /\ told' = {}
    /\ UNCHANGED <<index, left>>

DeleteOrder(t) == Skip(t) \/ Match(t) \/ Remaining(t) \/ Exhausted(t)

Next ==
    \/ \E t \in Thread :
          \/ \E id \in OrderId : Begin(t, id)
          \/ DeleteOrder(t)
    \/ Restart

Spec == Init /\ [][Next]_vars

-----------------------------------------------------------------------------

Outcome(t) ==
    IF answer[t].deleted # None THEN "deleted"
    ELSE IF answer[t].status = 404 THEN "not_found" ELSE "none"

Abstract == INSTANCE AbstractOrders WITH
    Seeded <- Ids(Seed),
    present <- Ids(ORDERS),
    outcome <- [t \in Thread |-> Outcome(t)]

\* The unlocked loop over a list that others shorten still takes out the order it
\* was asked for, that order only, in one instant; and it misses an order that
\* exists only if another delete popped one during the scan.
DeletesAtomically == Abstract!Spec

\* Nothing is deleted twice, lost or made up: every order seeded at the start is
\* in the list, once, or has been answered as deleted since, and never both; and
\* no two threads answer with the same one.
NeverTwice ==
    /\ \A i, j \in DOMAIN ORDERS : ORDERS[i] = ORDERS[j] => i = j
    /\ Ids(ORDERS) \cup told = Ids(Seed)
    /\ Ids(ORDERS) \cap told = {}
    /\ \A t \in Thread : answer[t].deleted \in told \cup {None}
    /\ \A t, u \in Thread :
          (t # u /\ answer[t].deleted # None) => answer[t].deleted # answer[u].deleted

\* "remaining" is read after other threads may have deleted too, so it can be
\* less than what this delete left, but it never counts an order that was gone.
RemainingNeverOvercounts ==
    \A t \in Thread : answer[t].status = 200 => answer[t].remaining <= left[t]

\* What the text of the 404 says, "no order <id>" (orders/app.py:50): when it is
\* given, the list holds no such order.
NotFoundMeansAbsent ==
    [][\A t \in Thread :
        (answer[t].status # 404 /\ answer'[t].status = 404) => wants[t] \notin Ids(ORDERS)]_vars
=============================================================================
