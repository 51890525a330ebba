---------------------------- MODULE OrdersProofs ----------------------------
(* What the unlocked list of orders promises, for any list and any number of *)
(* threads, and that its service is the one AbstractOrders describes.        *)
EXTENDS Orders, TLAPS

(* A thread that does not delete wants nothing; one that has not popped has  *)
(* no answer yet; and one that has, answers for its order.                   *)
ThreadInv ==
    \A t \in Thread :
        /\ pc[t] = "idle" <=> wants[t] = None
        /\ pc[t] = "scan" => answer[t].deleted = None /\ answer[t].status = 0
        /\ pc[t] = "popped" => answer[t].deleted # None /\ answer[t].status = 0

(* A scan has passed its order only if another thread's pop moved it.        *)
ScanInv ==
    \A t \in Thread : (pc[t] = "scan" /\ t \notin disturbed) =>
        \A i \in DOMAIN ORDERS : i <= index[t] => ORDERS[i] # wants[t]

(* A list only gets shorter after a pop.                                     *)
LeftInv == \A t \in Thread : pc[t] = "popped" => Len(ORDERS) <= left[t]

IInv == TypeOK /\ ThreadInv /\ ScanInv /\ LeftInv /\ NeverTwice /\ RemainingNeverOvercounts

(* Popping the element at i takes it out and moves the later ones up.        *)
LEMMA PopElements ==
    ASSUME NEW list \in Seq(OrderId), NEW i \in Nat, i < Len(list)
    PROVE  /\ Pop(list, i) \in Seq(OrderId)
           /\ Len(Pop(list, i)) = Len(list) - 1
           /\ \A j \in 1..(Len(list) - 1) :
                 Pop(list, i)[j] = IF j <= i THEN list[j] ELSE list[j + 1]
  <1> DEFINE front == SubSeq(list, 1, i)
             back == SubSeq(list, i + 2, Len(list))
  <1>1. /\ front \in Seq(OrderId) /\ Len(front) = i
        /\ \A j \in 1..i : front[j] = list[j]
    OBVIOUS
  <1>2. /\ back \in Seq(OrderId) /\ Len(back) = Len(list) - i - 1
        /\ \A j \in 1..(Len(list) - i - 1) : back[j] = list[i + 1 + j]
    OBVIOUS
  <1>3. Pop(list, i) = front \o back
    BY DEF Pop
  <1> HIDE DEF front, back
  <1>4. /\ front \o back \in Seq(OrderId)
        /\ Len(front \o back) = Len(front) + Len(back)
        /\ \A j \in 1..(Len(front) + Len(back)) :
              (front \o back)[j] = IF j <= Len(front) THEN front[j] ELSE back[j - Len(front)]
    BY <1>1, <1>2
  <1>5. Len(front) + Len(back) = Len(list) - 1
    BY <1>1, <1>2
  <1>6. ASSUME NEW j \in 1..(Len(list) - 1), j <= i
        PROVE  Pop(list, i)[j] = list[j]
    BY <1>1, <1>3, <1>4, <1>5, <1>6
  <1>7. ASSUME NEW j \in 1..(Len(list) - 1), ~(j <= i)
        PROVE  Pop(list, i)[j] = list[j + 1]
    <2>1. j - i \in 1..(Len(list) - i - 1) /\ i + 1 + (j - i) = j + 1
      BY <1>7
    <2>2. (front \o back)[j] = back[j - i]
      BY <1>1, <1>4, <1>5, <1>7
    <2>3. back[j - i] = list[i + 1 + (j - i)]
      BY <1>2, <2>1
    <2> QED BY <1>3, <2>1, <2>2, <2>3
  <1>8. Pop(list, i) \in Seq(OrderId) /\ Len(Pop(list, i)) = Len(list) - 1
    BY <1>3, <1>4, <1>5
  <1> QED BY <1>6, <1>7, <1>8

(* From a list without duplicates, that one id is gone and no other.         *)
LEMMA PopIds ==
    ASSUME NEW list \in Seq(OrderId), NEW i \in Nat, i < Len(list),
           \A j, k \in DOMAIN list : list[j] = list[k] => j = k
    PROVE  /\ Ids(Pop(list, i)) = Ids(list) \ {list[i + 1]}
           /\ \A j, k \in DOMAIN Pop(list, i) : Pop(list, i)[j] = Pop(list, i)[k] => j = k
  <1> DEFINE popped == Pop(list, i)
             n == Len(list)
  <1>1. /\ popped \in Seq(OrderId) /\ Len(popped) = n - 1 /\ n \in Nat
        /\ \A j \in 1..(n - 1) : popped[j] = IF j <= i THEN list[j] ELSE list[j + 1]
    <2>1. /\ popped \in Seq(OrderId) /\ Len(popped) = n - 1
          /\ \A j \in 1..(n - 1) : popped[j] = IF j <= i THEN list[j] ELSE list[j + 1]
      BY PopElements, Zenon
    <2>2. n \in Nat
      OBVIOUS
    <2> QED BY <2>1, <2>2, Zenon
  <1>2. DOMAIN popped = 1..(n - 1) /\ DOMAIN list = 1..n
    BY <1>1
  <1> HIDE DEF popped, n
  <1>3. i + 1 \in 1..n
    BY DEF n
  <1>4. \A j \in 1..(n - 1) : popped[j] \in Ids(list) \ {list[i + 1]}
    <2> SUFFICES ASSUME NEW j \in 1..(n - 1) PROVE popped[j] \in Ids(list) \ {list[i + 1]}
      OBVIOUS
    <2>1. CASE j <= i
      <3>1. j \in 1..n /\ j # i + 1 /\ popped[j] = list[j]
        BY <1>1, <2>1
      <3> QED BY <1>2, <1>3, <3>1 DEF Ids
    <2>2. CASE ~(j <= i)
      <3>1. j + 1 \in 1..n /\ j + 1 # i + 1 /\ popped[j] = list[j + 1]
        BY <1>1, <2>2
      <3> QED BY <1>2, <1>3, <3>1 DEF Ids
    <2> QED BY <2>1, <2>2
  <1>5. \A k \in 1..n : k # i + 1 => \E j \in 1..(n - 1) : popped[j] = list[k]
    <2> SUFFICES ASSUME NEW k \in 1..n, k # i + 1 PROVE \E j \in 1..(n - 1) : popped[j] = list[k]
      OBVIOUS
    <2>1. CASE k <= i
      <3>1. k \in 1..(n - 1) /\ popped[k] = list[k]
        BY <1>1, <1>3, <2>1
      <3> QED BY <3>1
    <2>2. CASE k > i
      <3>1. k - 1 \in 1..(n - 1) /\ ~(k - 1 <= i) /\ (k - 1) + 1 = k
        BY <1>1, <1>3, <2>2
      <3>2. popped[k - 1] = list[k]
        BY <1>1, <3>1
      <3> QED BY <3>1, <3>2
    <2> QED BY <2>1, <2>2
  <1>6. Ids(popped) = Ids(list) \ {list[i + 1]}
    BY <1>2, <1>4, <1>5 DEF Ids
  <1>7. ASSUME NEW j \in 1..(n - 1), NEW k \in 1..(n - 1), popped[j] = popped[k]
        PROVE  j = k
    <2> DEFINE at(m) == IF m <= i THEN m ELSE m + 1
    <2>1. at(j) \in 1..n /\ popped[j] = list[at(j)]
      BY <1>1
    <2>2. at(k) \in 1..n /\ popped[k] = list[at(k)]
      BY <1>1
    <2>3. at(j) = at(k)
      <3> HIDE DEF at
      <3> QED BY <1>2, <1>7, <2>1, <2>2
    <2> QED BY <2>3
  <1> QED BY <1>2, <1>6, <1>7 DEF popped

(* The elements of a list of ids are ids.                                     *)
LEMMA ListTyped ==
    ASSUME IInv
    PROVE  /\ ORDERS \in Seq(OrderId) /\ Len(ORDERS) \in Nat /\ DOMAIN ORDERS = 1..Len(ORDERS)
           /\ \A i \in 1..Len(ORDERS) : ORDERS[i] \in OrderId
           /\ Ids(ORDERS) \subseteq OrderId
  <1>1. ORDERS \in Seq(OrderId)
    BY DEF IInv, TypeOK
  <1> QED BY <1>1 DEF Ids

(* What the pop of a thread that found its order leaves.                      *)
LEMMA Popping ==
    ASSUME IInv, NEW t \in Thread, Match(t)
    PROVE  /\ ORDERS' \in Seq(OrderId) /\ Len(ORDERS') = Len(ORDERS) - 1
           /\ Ids(ORDERS') = Ids(ORDERS) \ {wants[t]}
           /\ \A i, j \in DOMAIN ORDERS' : ORDERS'[i] = ORDERS'[j] => i = j
           /\ wants[t] \in Ids(ORDERS) /\ wants[t] \in OrderId
  <1>1. /\ ORDERS \in Seq(OrderId) /\ index[t] \in Nat /\ index[t] < Len(ORDERS)
        /\ \A i, j \in DOMAIN ORDERS : ORDERS[i] = ORDERS[j] => i = j
    BY DEF Match, More, IInv, TypeOK, NeverTwice
  <1>2. ORDERS' = Pop(ORDERS, index[t]) /\ ORDERS[index[t] + 1] = wants[t]
    BY DEF Match, Element
  <1>3. index[t] + 1 \in 1..Len(ORDERS)
    BY <1>1
  <1>4. wants[t] \in Ids(ORDERS) /\ wants[t] \in OrderId
    BY <1>2, <1>3, ListTyped DEF Ids
  <1>5. Pop(ORDERS, index[t]) \in Seq(OrderId) /\ Len(Pop(ORDERS, index[t])) = Len(ORDERS) - 1
    BY <1>1, PopElements
  <1>6. /\ Ids(Pop(ORDERS, index[t])) = Ids(ORDERS) \ {ORDERS[index[t] + 1]}
        /\ \A i, j \in DOMAIN Pop(ORDERS, index[t]) :
              Pop(ORDERS, index[t])[i] = Pop(ORDERS, index[t])[j] => i = j
    BY <1>1, PopIds
  <1> QED BY <1>2, <1>4, <1>5, <1>6

(* The literal holds no order twice, and nobody has asked for one.            *)
LEMMA Initially == Init => IInv
  <1> SUFFICES ASSUME Init PROVE IInv
    OBVIOUS
  <1>1. NoAnswer \in Answer /\ NoAnswer.deleted = None /\ NoAnswer.status = 0
    BY DEF NoAnswer, Answer
  <1>2. \A t \in Thread : answer[t] = NoAnswer /\ pc[t] = "idle" /\ wants[t] = None
    BY DEF Init
  <1>3. TypeOK
    BY <1>1, SeedAssumption DEF Init, TypeOK
  <1>4. ThreadInv /\ ScanInv /\ LeftInv
    BY <1>2 DEF ThreadInv, ScanInv, LeftInv
  <1>5. NeverTwice
    BY <1>1, <1>2, SeedAssumption DEF Init, NeverTwice
  <1>6. RemainingNeverOvercounts
    BY <1>1, <1>2 DEF RemainingNeverOvercounts
  <1> QED BY <1>3, <1>4, <1>5, <1>6 DEF IInv

(* A new iterator has passed nothing yet.                                     *)
LEMMA Beginning == ASSUME IInv, NEW t \in Thread, NEW id \in OrderId, Begin(t, id) PROVE IInv'
  <1>1. NoAnswer \in Answer /\ NoAnswer.deleted = None /\ NoAnswer.status = 0
    BY DEF NoAnswer, Answer
  <1>2. TypeOK'
    BY <1>1 DEF IInv, TypeOK, Begin
  <1>3. /\ pc'[t] = "scan" /\ wants'[t] = id /\ index'[t] = 0 /\ answer'[t] = NoAnswer
        /\ \A u \in Thread : u # t =>
              /\ pc'[u] = pc[u] /\ wants'[u] = wants[u] /\ index'[u] = index[u]
              /\ answer'[u] = answer[u] /\ (u \in disturbed' <=> u \in disturbed)
        /\ ORDERS' = ORDERS /\ left' = left /\ told' = told
    BY DEF IInv, TypeOK, Begin
  <1>4. ThreadInv'
    BY <1>1, <1>3, NoneAssumption DEF IInv, ThreadInv
  <1>5. ScanInv'
    <2>1. \A i \in DOMAIN ORDERS : ~(i <= 0)
      BY ListTyped
    <2> QED BY <1>3, <2>1 DEF IInv, ScanInv
  <1>6. LeftInv' /\ RemainingNeverOvercounts'
    BY <1>1, <1>3 DEF IInv, LeftInv, RemainingNeverOvercounts
  <1>7. NeverTwice'
    BY <1>1, <1>3 DEF IInv, NeverTwice
  <1> QED BY <1>2, <1>4, <1>5, <1>6, <1>7 DEF IInv

(* The scan goes on past an order that is not the one wanted.                 *)
LEMMA Skipping == ASSUME IInv, NEW t \in Thread, Skip(t) PROVE IInv'
  <1>1. /\ index' = [index EXCEPT ![t] = @ + 1] /\ ORDERS' = ORDERS /\ pc' = pc
        /\ wants' = wants /\ answer' = answer /\ left' = left /\ disturbed' = disturbed
        /\ told' = told /\ ORDERS[index[t] + 1] # wants[t]
    BY DEF Skip, Element
  <1>2. index \in [Thread -> Nat]
    BY DEF IInv, TypeOK
  <1>3. TypeOK'
    BY <1>1, <1>2 DEF IInv, TypeOK
  <1>4. ThreadInv' /\ LeftInv' /\ NeverTwice' /\ RemainingNeverOvercounts'
    BY <1>1 DEF IInv, ThreadInv, LeftInv, NeverTwice, RemainingNeverOvercounts
  <1>5. ScanInv'
    <2>1. index'[t] = index[t] + 1 /\ \A u \in Thread : u # t => index'[u] = index[u]
      BY <1>1, <1>2
    <2>2. \A i \in DOMAIN ORDERS : i <= index[t] + 1 => i <= index[t] \/ i = index[t] + 1
      BY <1>2, ListTyped
    <2> QED BY <1>1, <2>1, <2>2 DEF IInv, ScanInv
  <1> QED BY <1>3, <1>4, <1>5 DEF IInv

(* A thread finds its order and pops it: every scan under way is disturbed.   *)
LEMMA Matching == ASSUME IInv, NEW t \in Thread, Match(t) PROVE IInv'
  <1>1. /\ wants' = wants /\ index' = index /\ disturbed' = Thread /\ pc[t] = "scan"
        /\ pc' = [pc EXCEPT ![t] = "popped"]
        /\ answer' = [answer EXCEPT ![t].deleted = wants[t]]
        /\ left' = [left EXCEPT ![t] = Len(ORDERS')]
        /\ told' = told \cup {wants[t]}
    BY DEF Match
  <1>2. Len(ORDERS') \in Nat /\ Len(ORDERS') < Len(ORDERS) /\ Len(ORDERS) \in Nat
    <2>1. ORDERS' \in Seq(OrderId) /\ Len(ORDERS') = Len(ORDERS) - 1
      BY Popping
    <2>2. Len(ORDERS') \in Nat
      BY <2>1
    <2>3. Len(ORDERS) \in Nat
      BY ListTyped
    <2> QED BY <2>1, <2>2, <2>3
  <1>3. /\ pc'[t] = "popped" /\ left'[t] = Len(ORDERS')
        /\ \A u \in Thread : u # t =>
              pc'[u] = pc[u] /\ left'[u] = left[u] /\ answer'[u] = answer[u]
    BY <1>1 DEF IInv, TypeOK
  <1>4. answer'[t].deleted = wants[t] /\ answer'[t].status = 0 /\ answer'[t] \in Answer
    <2>1. answer[t] \in Answer /\ answer[t].status = 0 /\ wants[t] \in OrderId
      BY <1>1, Popping DEF IInv, TypeOK, ThreadInv
    <2>2. answer'[t] = [answer[t] EXCEPT !.deleted = wants[t]]
      BY <1>1 DEF IInv, TypeOK
    <2> QED BY <2>1, <2>2 DEF Answer
  <1>5. answer' \in [Thread -> Answer]
    BY <1>1, <1>3, <1>4 DEF IInv, TypeOK
  <1>6. TypeOK'
    BY <1>1, <1>2, <1>5, Popping DEF IInv, TypeOK
  <1>7. ThreadInv'
    BY <1>1, <1>3, <1>4, Popping, NoneAssumption DEF IInv, ThreadInv
  <1>8. ScanInv'
    BY <1>1 DEF ScanInv
  <1>9. LeftInv'
    <2>1. \A u \in Thread : left[u] \in Nat
      BY DEF IInv, TypeOK
    <2> QED BY <1>2, <1>3, <2>1 DEF IInv, LeftInv
  <1>10. NeverTwice'
    <2>1. \A u \in Thread : u # t => answer'[u].deleted # wants[t]
      BY <1>3, Popping, NoneAssumption DEF IInv, NeverTwice
    <2>2. /\ Ids(ORDERS') \cup told' = Ids(Seed) /\ Ids(ORDERS') \cap told' = {}
          /\ \A u \in Thread : answer'[u].deleted \in told' \cup {None}
      BY <1>1, <1>3, <1>4, Popping DEF IInv, NeverTwice
    <2>3. \A u, v \in Thread :
             (u # v /\ answer'[u].deleted # None) => answer'[u].deleted # answer'[v].deleted
      BY <1>3, <1>4, <2>1 DEF IInv, NeverTwice
    <2> QED BY <2>2, <2>3, Popping DEF NeverTwice
  <1>11. RemainingNeverOvercounts'
    BY <1>3, <1>4 DEF IInv, RemainingNeverOvercounts
  <1> QED BY <1>6, <1>7, <1>8, <1>9, <1>10, <1>11 DEF IInv

(* The length is read when others may have popped since.                      *)
LEMMA Counting == ASSUME IInv, NEW t \in Thread, Remaining(t) PROVE IInv'
  <1>1. /\ ORDERS' = ORDERS /\ index' = index /\ left' = left /\ disturbed' = disturbed
        /\ told' = told /\ pc[t] = "popped"
        /\ pc' = [pc EXCEPT ![t] = "idle"] /\ wants' = [wants EXCEPT ![t] = None]
    BY DEF Remaining
  <1>2. answer' = [answer EXCEPT ![t] =
                      [answer[t] EXCEPT !.status = 200, !.remaining = Len(ORDERS)]]
    BY DEF Remaining, IInv, TypeOK
  <1>3. answer[t] \in Answer /\ Len(ORDERS) \in Nat
    BY ListTyped DEF IInv, TypeOK
  <1> DEFINE reply == [answer[t] EXCEPT !.status = 200, !.remaining = Len(ORDERS)]
  <1>4. reply \in Answer
    BY <1>3 DEF Answer
  <1>5. reply.deleted = answer[t].deleted
    BY <1>3 DEF Answer
  <1>6. reply.remaining = Len(ORDERS)
    BY <1>3 DEF Answer
  <1>7. answer' = [answer EXCEPT ![t] = reply]
    BY <1>2
  <1> HIDE DEF reply
  <1>8. /\ pc'[t] = "idle" /\ wants'[t] = None /\ answer'[t] = reply
        /\ \A u \in Thread : u # t =>
              pc'[u] = pc[u] /\ wants'[u] = wants[u] /\ answer'[u] = answer[u]
    BY <1>1, <1>7 DEF IInv, TypeOK
  <1>9. TypeOK'
    BY <1>1, <1>4, <1>7 DEF IInv, TypeOK
  <1>10. ThreadInv' /\ ScanInv' /\ LeftInv'
    BY <1>1, <1>8 DEF IInv, ThreadInv, ScanInv, LeftInv
  <1>11. NeverTwice'
    BY <1>1, <1>5, <1>8 DEF IInv, NeverTwice
  <1>12. RemainingNeverOvercounts'
    BY <1>1, <1>6, <1>8 DEF IInv, LeftInv, RemainingNeverOvercounts
  <1> QED BY <1>9, <1>10, <1>11, <1>12 DEF IInv

(* The iterator finds no more elements.                                       *)
LEMMA Exhausting == ASSUME IInv, NEW t \in Thread, Exhausted(t) PROVE IInv'
  <1>1. /\ ORDERS' = ORDERS /\ index' = index /\ left' = left /\ disturbed' = disturbed
        /\ told' = told /\ pc[t] = "scan"
        /\ pc' = [pc EXCEPT ![t] = "idle"] /\ wants' = [wants EXCEPT ![t] = None]
        /\ answer' = [answer EXCEPT ![t].status = 404]
    BY DEF Exhausted
  <1>2. /\ pc'[t] = "idle" /\ wants'[t] = None
        /\ \A u \in Thread : u # t =>
              pc'[u] = pc[u] /\ wants'[u] = wants[u] /\ answer'[u] = answer[u]
    BY <1>1 DEF IInv, TypeOK
  <1>3. answer[t] \in Answer
    BY DEF IInv, TypeOK
  <1>4. answer'[t] = [answer[t] EXCEPT !.status = 404]
    BY <1>1 DEF IInv, TypeOK
  <1>5. /\ answer'[t] \in Answer /\ answer'[t].deleted = answer[t].deleted
        /\ answer'[t].status = 404
    BY <1>3, <1>4 DEF Answer
  <1>6. answer' \in [Thread -> Answer]
    BY <1>1, <1>2, <1>5 DEF IInv, TypeOK
  <1>7. TypeOK'
    BY <1>1, <1>6 DEF IInv, TypeOK
  <1>8. ThreadInv' /\ ScanInv' /\ LeftInv'
    BY <1>1, <1>2 DEF IInv, ThreadInv, ScanInv, LeftInv
  <1>9. NeverTwice'
    BY <1>1, <1>2, <1>5 DEF IInv, NeverTwice
  <1>10. RemainingNeverOvercounts'
    BY <1>1, <1>2, <1>5 DEF IInv, RemainingNeverOvercounts
  <1> QED BY <1>7, <1>8, <1>9, <1>10 DEF IInv

(* A new process has the literal and no requests.                             *)
LEMMA Restarting == ASSUME IInv, Restart PROVE IInv'
  <1>1. NoAnswer \in Answer /\ NoAnswer.deleted = None /\ NoAnswer.status = 0
    BY DEF NoAnswer, Answer
  <1>2. \A t \in Thread : answer'[t] = NoAnswer /\ pc'[t] = "idle" /\ wants'[t] = None
    BY DEF Restart
  <1>3. TypeOK'
    BY <1>1, SeedAssumption DEF Restart, IInv, TypeOK
  <1>4. ThreadInv' /\ ScanInv' /\ LeftInv'
    BY <1>2 DEF ThreadInv, ScanInv, LeftInv
  <1>5. NeverTwice'
    BY <1>1, <1>2, SeedAssumption DEF Restart, NeverTwice
  <1>6. RemainingNeverOvercounts'
    BY <1>1, <1>2 DEF RemainingNeverOvercounts
  <1> QED BY <1>3, <1>4, <1>5, <1>6 DEF IInv

(* Every step of a thread keeps the invariant, and so does a restart.         *)
LEMMA Step == IInv /\ [Next]_vars => IInv'
  <1> SUFFICES ASSUME IInv, [Next]_vars PROVE IInv'
    OBVIOUS
  <1>1. CASE \E t \in Thread, id \in OrderId : Begin(t, id)
    BY <1>1, Beginning
  <1>2. CASE \E t \in Thread : Skip(t)
    BY <1>2, Skipping
  <1>3. CASE \E t \in Thread : Match(t)
    BY <1>3, Matching
  <1>4. CASE \E t \in Thread : Remaining(t)
    BY <1>4, Counting
  <1>5. CASE \E t \in Thread : Exhausted(t)
    BY <1>5, Exhausting
  <1>6. CASE Restart
    BY <1>6, Restarting
  <1>7. CASE UNCHANGED vars
    BY <1>7 DEF vars, IInv, TypeOK, ThreadInv, ScanInv, LeftInv, NeverTwice,
                RemainingNeverOvercounts
  <1> QED BY <1>1, <1>2, <1>3, <1>4, <1>5, <1>6, <1>7 DEF Next, DeleteOrder

(* The inductive invariant: what each thread's answer, its scan and its pop   *)
(* say of the list as it is now.                                              *)
THEOREM Invariance == Spec => []IInv
  <1>1. Init => IInv
    BY Initially
  <1>2. IInv /\ [Next]_vars => IInv'
    BY Step
  <1> QED BY <1>1, <1>2, PTL DEF Spec

(* The list stays a list of ids and every thread's record keeps its type.     *)
THEOREM TypeCorrect == Spec => []TypeOK
  <1>1. IInv => TypeOK
    BY DEF IInv
  <1> QED BY <1>1, Invariance, PTL

(* No order is deleted twice, answered to two threads, left in the list after *)
(* it was answered as deleted, or gone without having been.                   *)
THEOREM DeletedOnce == Spec => []NeverTwice
  <1>1. IInv => NeverTwice
    BY DEF IInv
  <1> QED BY <1>1, Invariance, PTL

(* The count that comes with an answer counts no order that was gone.         *)
THEOREM CountsAreSafe == Spec => []RemainingNeverOvercounts
  <1>1. IInv => RemainingNeverOvercounts
    BY DEF IInv
  <1> QED BY <1>1, Invariance, PTL

-----------------------------------------------------------------------------
(* The refinement of AbstractOrders: the pop is the delete, the end of the    *)
(* scan the not-found, and everything between is not to be seen.              *)

(* The literal is the seeded set, and nobody has asked for anything.          *)
LEMMA AbstractStart == Init => Abstract!Init
  BY NoneAssumption DEF Init, Abstract!Init, Outcome, NoAnswer

(* A request that is decided is not scanned for; an answer of one thread is   *)
(* the others' no business.                                                   *)
LEMMA Outcomes ==
    ASSUME NEW t \in Thread, \A u \in Thread : u # t => answer'[u] = answer[u]
    PROVE  [u \in Thread |-> Outcome(u)]' =
              [[u \in Thread |-> Outcome(u)] EXCEPT ![t] = Outcome(t)']
  <1>1. \A u \in Thread : u # t => Outcome(u)' = Outcome(u)
    BY DEF Outcome
  <1>2. [u \in Thread |-> Outcome(u)]' = [u \in Thread |-> Outcome(u)']
    OBVIOUS
  <1> QED BY <1>1, <1>2

(* Each step is one of the abstract service, or is not to be seen.            *)
LEMMA AbstractStep == IInv /\ [Next]_vars => [Abstract!Next]_(Abstract!vars)
  <1> SUFFICES ASSUME IInv, [Next]_vars
               PROVE  Abstract!Next \/ UNCHANGED Abstract!vars
    OBVIOUS
  <1>1. ASSUME NEW t \in Thread, NEW id \in OrderId, Begin(t, id)
        PROVE  Abstract!Next
    <2>1. /\ pc[t] = "idle" /\ wants' = [wants EXCEPT ![t] = id]
          /\ disturbed' = disturbed \ {t} /\ ORDERS' = ORDERS
          /\ answer' = [answer EXCEPT ![t] = NoAnswer]
      BY <1>1 DEF Begin
    <2>2. /\ \A u \in Thread : u # t => answer'[u] = answer[u]
          /\ answer'[t] = NoAnswer /\ wants[t] = None
      BY <2>1 DEF IInv, TypeOK, ThreadInv
    <2>3. Outcome(t)' = "none"
      BY <2>2 DEF Outcome, NoAnswer
    <2>4. Abstract!Request(t, id)
      BY <2>1, <2>2, <2>3, Outcomes DEF Abstract!Request
    <2> QED BY <2>4 DEF Abstract!Next
  <1>2. ASSUME NEW t \in Thread, Skip(t)
        PROVE  UNCHANGED Abstract!vars
    BY <1>2 DEF Skip, Abstract!vars, Outcome
  <1>3. ASSUME NEW t \in Thread, Match(t)
        PROVE  Abstract!Next
    <2>1. /\ pc[t] = "scan" /\ wants' = wants /\ disturbed' = Thread
          /\ answer' = [answer EXCEPT ![t].deleted = wants[t]]
      BY <1>3 DEF Match
    <2>2. /\ \A u \in Thread : u # t => answer'[u] = answer[u]
          /\ answer'[t].deleted = wants[t]
      BY <2>1 DEF IInv, TypeOK, Answer
    <2>3. wants[t] # None /\ wants[t] \in Ids(ORDERS) /\ Ids(ORDERS') = Ids(ORDERS) \ {wants[t]}
      BY <1>3, Popping, NoneAssumption
    <2>4. Outcome(t) = "none" /\ Outcome(t)' = "deleted"
      BY <2>1, <2>2, <2>3 DEF IInv, ThreadInv, Outcome
    <2>5. Abstract!Delete(t)
      BY <2>1, <2>2, <2>3, <2>4, Outcomes DEF Abstract!Delete, Abstract!Undecided
    <2> QED BY <2>5 DEF Abstract!Next
  <1>4. ASSUME NEW t \in Thread, Remaining(t)
        PROVE  Abstract!Next
    <2>1. /\ pc[t] = "popped" /\ ORDERS' = ORDERS /\ disturbed' = disturbed
          /\ wants' = [wants EXCEPT ![t] = None]
      BY <1>4 DEF Remaining
    <2>2. \A u \in Thread : u # t => answer'[u] = answer[u]
      BY <1>4 DEF Remaining, IInv, TypeOK
    <2>3. answer'[t].deleted = answer[t].deleted
      <3>1. answer[t] \in Answer
        BY DEF IInv, TypeOK
      <3>2. answer'[t] = [answer[t] EXCEPT !.status = 200, !.remaining = Len(ORDERS)]
        BY <1>4 DEF Remaining, IInv, TypeOK
      <3> QED BY <3>1, <3>2 DEF Answer
    <2>4. wants[t] # None /\ Outcome(t) = "deleted" /\ Outcome(t)' = "deleted"
      BY <2>1, <2>3 DEF IInv, ThreadInv, Outcome
    <2>5. Abstract!Finish(t)
      BY <2>1, <2>2, <2>4, Outcomes DEF Abstract!Finish
    <2> QED BY <2>5 DEF Abstract!Next
  <1>5. ASSUME NEW t \in Thread, Exhausted(t)
        PROVE  Abstract!Next
    <2>1. /\ pc[t] = "scan" /\ ORDERS' = ORDERS /\ disturbed' = disturbed
          /\ wants' = [wants EXCEPT ![t] = None] /\ ~(index[t] < Len(ORDERS))
          /\ answer' = [answer EXCEPT ![t].status = 404]
      BY <1>5 DEF Exhausted, More
    <2>2. /\ \A u \in Thread : u # t => answer'[u] = answer[u]
          /\ answer'[t].deleted = answer[t].deleted /\ answer'[t].status = 404
      BY <2>1 DEF IInv, TypeOK, Answer
    <2>3. wants[t] # None /\ Outcome(t) = "none" /\ Outcome(t)' = "not_found"
      BY <2>1, <2>2 DEF IInv, ThreadInv, Outcome
    <2>4. wants[t] \notin Ids(ORDERS) \/ t \in disturbed
      <3> SUFFICES ASSUME t \notin disturbed, NEW i \in DOMAIN ORDERS
                   PROVE  ORDERS[i] # wants[t]
        BY DEF Ids
      <3>1. i <= index[t]
        BY <2>1, ListTyped DEF IInv, TypeOK
      <3> QED BY <2>1, <3>1 DEF IInv, ScanInv
    <2>5. Abstract!NotFound(t)
      BY <2>1, <2>2, <2>3, <2>4, Outcomes DEF Abstract!NotFound, Abstract!Undecided
    <2> QED BY <2>5 DEF Abstract!Next
  <1>6. CASE Restart
    <2>1. [t \in Thread |-> Outcome(t)]' = [t \in Thread |-> "none"]
      BY <1>6 DEF Restart, Outcome, NoAnswer
    <2>2. Abstract!Restart
      BY <1>6, <2>1 DEF Restart, Abstract!Restart
    <2> QED BY <2>2 DEF Abstract!Next
  <1>7. CASE UNCHANGED vars
    BY <1>7 DEF vars, Abstract!vars, Outcome
  <1> QED BY <1>1, <1>2, <1>3, <1>4, <1>5, <1>6, <1>7 DEF Next, DeleteOrder

(* The unlocked loop implements the service that deletes in one instant.      *)
THEOREM ImplementsAbstractOrders == Spec => DeletesAtomically
  <1>1. Init => Abstract!Init
    BY AbstractStart
  <1>2. IInv /\ [Next]_vars => [Abstract!Next]_(Abstract!vars)
    BY AbstractStep
  <1> QED BY <1>1, <1>2, Invariance, PTL DEF Spec, Abstract!Spec, DeletesAtomically
=============================================================================
