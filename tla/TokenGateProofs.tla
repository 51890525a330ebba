-------------------------- MODULE TokenGateProofs ---------------------------
(* What the first gate promises of its key cache, for any number of threads, *)
(* keys and tokens, any lifespan and any timeout.                            *)
EXTENDS TokenGate, TLAPS

(* A fetch that is under way began no longer ago than its timeout.           *)
FetchInv ==
    \A t \in Thread : gate[t].at \in {"fetch", "put"} => now <= gate[t].began + FetchTime

(* An answer on its way lists only keys that were listed at some time since  *)
(* its fetch began; the cached set only keys that were listed no longer than *)
(* a fetch before it was cached.                                             *)
HeldInv ==
    /\ \A t \in Thread : gate[t].at = "put" =>
          \A k \in gate[t].got : k \in published \/ gate[t].began <= until[k]
    /\ \A k \in cache.keys : k \in published \/ cache.at <= until[k] + FetchTime

(* The kid of a signed token was listed when it came in, so an answer that   *)
(* does not list it was given after its key was withdrawn.                   *)
KidInv ==
    \A t \in Thread :
        /\ gate[t].at # "idle" => gate[t].token \in Token
        /\ (gate[t].at # "idle" /\ gate[t].token.signed) => gate[t].token.kid \in listed
        /\ (gate[t].at = "put" /\ gate[t].token.signed /\ gate[t].token.kid \in published)
              => gate[t].token.kid \in gate[t].got

(* Nothing is used, fetched or cached later than now.                        *)
UsedInv == \A t \in Thread : gate[t].at = "verified" => gate[t].usedAt <= now

BeganInv ==
    /\ \A t \in Thread : gate[t].at \in {"fetch", "put"} => gate[t].began <= now
    /\ cache.at <= now

IInv ==
    /\ TypeOK /\ FetchInv /\ HeldInv /\ KidInv /\ UsedInv /\ BeganInv
    /\ WithdrawnKeyDies /\ RotationPickedUp

(* What one thread's record may be, as the type invariant has it.            *)
LEMMA OneCheck ==
    ASSUME IInv, NEW t \in Thread
    PROVE  /\ gate[t] \in Check
           /\ DOMAIN gate = Thread
  BY DEF IInv, TypeOK

(* A fresh gateway in front of a Keycloak with one key.                       *)
LEMMA Initially == Init => IInv
  <1> SUFFICES ASSUME Init PROVE IInv
    OBVIOUS
  <1>1. \A t \in Thread : gate[t].at = "idle"
    BY DEF Init, Idle
  <1>2. TypeOK
    <2>1. Idle \in Check
      BY TimeAssumption DEF Idle, Check, Time
    <2>2. now \in Time /\ until \in [Key -> Time \cup {-1}]
      BY TimeAssumption DEF Init, Time
    <2> QED BY <2>1, <2>2 DEF Init, TypeOK
  <1>3. FetchInv /\ KidInv /\ UsedInv /\ WithdrawnKeyDies /\ RotationPickedUp
    BY <1>1 DEF FetchInv, KidInv, UsedInv, WithdrawnKeyDies, RotationPickedUp
  <1>4. HeldInv /\ BeganInv
    BY <1>1 DEF Init, NoKeySet, HeldInv, BeganInv
  <1> QED BY <1>2, <1>3, <1>4 DEF IInv

(* A step of one thread that leaves Keycloak and the clock alone keeps the    *)
(* invariant if the thread's new record and the new cached set are sound: the *)
(* invariant speaks of one thread at a time.                                  *)
LEMMA OneThread ==
    ASSUME IInv, NEW t \in Thread, NEW check \in Check, Becomes(t, check),
           cache' \in KeySet \cup {NoKeySet},
           \A k \in cache'.keys : k \in published \/ cache'.at <= until[k] + FetchTime,
           cache'.at <= now,
           check.at \in {"fetch", "put"} =>
               check.began <= now /\ now <= check.began + FetchTime,
           check.at = "put" => \A k \in check.got : k \in published \/ check.began <= until[k],
           check.at # "idle" =>
               /\ check.token \in Token
               /\ check.token.signed => check.token.kid \in listed,
           (check.at = "put" /\ check.token.signed /\ check.token.kid \in published)
               => check.token.kid \in check.got,
           check.at = "verified" =>
               /\ check.usedAt <= now
               /\ check.token.kid \notin published =>
                      check.usedAt <= until[check.token.kid] + Lifespan + FetchTime,
           (/\ check.at = "rejected"
            /\ check.token.signed /\ now < check.token.exp
            /\ check.token.kid \in published) => check.failed
    PROVE  IInv'
  <1>1. gate' = [gate EXCEPT ![t] = check] /\ DOMAIN gate = Thread
    BY OneCheck DEF Becomes
  <1>2. /\ published' = published /\ listed' = listed /\ until' = until /\ now' = now
    BY DEF Becomes, keycloak
  <1>3. gate'[t] = check /\ \A u \in Thread : u # t => gate'[u] = gate[u]
    BY <1>1
  <1>4. TypeOK'
    <2>1. gate' \in [Thread -> Check]
      BY <1>1 DEF IInv, TypeOK
    <2> QED BY <1>2, <2>1 DEF IInv, TypeOK
  <1>5. FetchInv' /\ UsedInv' /\ BeganInv'
    BY <1>2, <1>3 DEF IInv, FetchInv, UsedInv, BeganInv
  <1>6. HeldInv'
    BY <1>2, <1>3 DEF IInv, HeldInv
  <1>7. KidInv'
    BY <1>2, <1>3 DEF IInv, KidInv
  <1>8. WithdrawnKeyDies'
    BY <1>2, <1>3 DEF IInv, WithdrawnKeyDies
  <1>9. RotationPickedUp'
    BY <1>2, <1>3 DEF IInv, RotationPickedUp
  <1> QED BY <1>4, <1>5, <1>6, <1>7, <1>8, <1>9 DEF IInv

(* The key that decodes a token is in a fresh set: jwt.decode leaves a sound  *)
(* record, verified or not.                                                   *)
LEMMA DecodedSound ==
    ASSUME IInv, NEW t \in Thread, gate[t].at # "idle"
    PROVE  /\ Decoded(t) \in Check
           /\ Decoded(t).at \in {"verified", "rejected"}
           /\ Decoded(t).token = gate[t].token /\ Decoded(t).usedAt = now
           /\ Decoded(t).at = "rejected" =>
                  ~(gate[t].token.signed /\ now < gate[t].token.exp)
  <1>1. gate[t] \in Check /\ now \in Time
    BY OneCheck DEF IInv, TypeOK
  <1>2. Decoded(t) \in Check
    BY <1>1 DEF Decoded, Check
  <1>3. Decoded(t).token = gate[t].token /\ Decoded(t).usedAt = now
    BY <1>1 DEF Decoded, Check
  <1>4. Decoded(t).at =
           IF gate[t].token.signed /\ now < gate[t].token.exp THEN "verified" ELSE "rejected"
    BY <1>1 DEF Decoded, Check
  <1> QED BY <1>2, <1>3, <1>4

(* A fetch that begins now has its timeout ahead of it.                       *)
LEMMA FetchingSound ==
    ASSUME IInv, NEW t \in Thread, NEW more \in BOOLEAN
    PROVE  /\ Fetching(t, more) \in Check
           /\ Fetching(t, more).at = "fetch" /\ Fetching(t, more).began = now
           /\ Fetching(t, more).token = gate[t].token
  <1>1. gate[t] \in Check /\ now \in Time
    BY OneCheck DEF IInv, TypeOK
  <1>2. Fetching(t, more) \in Check
    BY <1>1 DEF Fetching, Check
  <1>3. Fetching(t, more).at = "fetch" /\ Fetching(t, more).began = now
    BY <1>1 DEF Fetching, Check
  <1>4. Fetching(t, more).token = gate[t].token
    BY <1>1 DEF Fetching, Check
  <1> QED BY <1>2, <1>3, <1>4

(* A thread that rejects its token keeps what else it knows.                  *)
LEMMA RejectedSound ==
    ASSUME IInv, NEW t \in Thread
    PROVE  /\ Rejected(t) \in Check
           /\ Rejected(t).at = "rejected" /\ Rejected(t).token = gate[t].token
           /\ Rejected(t).failed = gate[t].failed
  <1>1. gate[t] \in Check
    BY OneCheck
  <1>2. Rejected(t) =
           [at |-> "rejected", token |-> gate[t].token, got |-> gate[t].got,
            again |-> gate[t].again, began |-> gate[t].began,
            failed |-> gate[t].failed, usedAt |-> gate[t].usedAt]
    BY <1>1 DEF Rejected, Check
  <1> QED BY <1>1, <1>2 DEF Check

(* The lookup: what is decoded with a fresh cached key was cached no longer   *)
(* than a lifespan ago.                                                       *)
LEMMA Hitting == ASSUME IInv, NEW t \in Thread, LookupHit(t) PROVE IInv'
  <1>1. /\ gate[t].at # "idle" /\ Becomes(t, Decoded(t)) /\ cache' = cache
        /\ gate[t].token.kid \in cache.keys
        /\ cache # NoKeySet /\ now <= cache.at + Lifespan
    BY DEF LookupHit, Fresh
  <1>2. cache \in KeySet /\ cache.at \in Nat /\ now \in Nat
    BY <1>1 DEF IInv, TypeOK, KeySet, Time
  <1>3. gate[t].token.kid \notin published =>
           now <= until[gate[t].token.kid] + Lifespan + FetchTime
    <2> SUFFICES ASSUME gate[t].token.kid \notin published
                 PROVE  now <= until[gate[t].token.kid] + Lifespan + FetchTime
      OBVIOUS
    <2>1. cache.at <= until[gate[t].token.kid] + FetchTime
      BY <1>1 DEF IInv, HeldInv
    <2>2. until[gate[t].token.kid] \in Int
      BY <1>1, <1>2 DEF IInv, TypeOK, KeySet, Time
    <2> QED BY <1>1, <1>2, <2>1, <2>2, TimeAssumption
  <1>4. /\ gate[t].token \in Token
        /\ gate[t].token.signed => gate[t].token.kid \in listed
    BY <1>1 DEF IInv, KidInv
  <1>5. /\ cache'.at <= now
        /\ \A k \in cache'.keys : k \in published \/ cache'.at <= until[k] + FetchTime
    BY <1>1 DEF IInv, HeldInv, BeganInv
  <1> QED BY <1>1, <1>2, <1>3, <1>4, <1>5, DecodedSound, OneThread

(* No usable key is cached: a fetch begins.                                   *)
LEMMA Missing ==
    ASSUME IInv, NEW t \in Thread, LookupUnknownKid(t) \/ LookupMiss(t)
    PROVE  IInv'
  <1>1. PICK more \in BOOLEAN : Becomes(t, Fetching(t, more))
    BY DEF LookupUnknownKid, LookupMiss
  <1>2. gate[t].at # "idle" /\ cache' = cache
    BY DEF LookupUnknownKid, LookupMiss
  <1>3. now \in Nat /\ now <= now /\ now <= now + FetchTime
    BY TimeAssumption DEF IInv, TypeOK, Time
  <1>4. /\ cache' \in KeySet \cup {NoKeySet} /\ cache'.at <= now
        /\ \A k \in cache'.keys : k \in published \/ cache'.at <= until[k] + FetchTime
        /\ gate[t].token \in Token
        /\ gate[t].token.signed => gate[t].token.kid \in listed
    BY <1>2 DEF IInv, TypeOK, HeldInv, BeganInv, KidInv
  <1> QED BY <1>1, <1>2, <1>3, <1>4, FetchingSound, OneThread

(* Keycloak answers with what it lists at that moment.                        *)
LEMMA Answering == ASSUME IInv, NEW t \in Thread, FetchAnswered(t) PROVE IInv'
  <1> DEFINE check == [gate[t] EXCEPT !.at = "put", !.got = published]
  <1>1. gate[t].at = "fetch" /\ Becomes(t, check) /\ cache' = cache
    BY DEF FetchAnswered
  <1>2. gate[t] \in Check /\ published \subseteq Key
    BY OneCheck DEF IInv, TypeOK
  <1>3. check \in Check
    BY <1>2 DEF Check
  <1>4. /\ check.at = "put" /\ check.got = published /\ check.token = gate[t].token
        /\ check.began = gate[t].began
    BY <1>2 DEF Check
  <1>5. check.began <= now /\ now <= check.began + FetchTime
    BY <1>1, <1>4 DEF IInv, FetchInv, BeganInv
  <1>6. /\ cache' \in KeySet \cup {NoKeySet} /\ cache'.at <= now
        /\ \A k \in cache'.keys : k \in published \/ cache'.at <= until[k] + FetchTime
        /\ check.token \in Token
        /\ check.token.signed => check.token.kid \in listed
    BY <1>1, <1>4 DEF IInv, TypeOK, HeldInv, BeganInv, KidInv
  <1> HIDE DEF check
  <1> QED BY <1>1, <1>3, <1>4, <1>5, <1>6, OneThread

(* The fetch fails: the request is rejected for it, whatever its token.       *)
LEMMA Failing == ASSUME IInv, NEW t \in Thread, FetchFailed(t) PROVE IInv'
  <1> DEFINE check == [Rejected(t) EXCEPT !.failed = TRUE]
  <1>1. gate[t].at = "fetch" /\ Becomes(t, check) /\ cache' \in {cache, NoKeySet}
    BY DEF FetchFailed
  <1>2. check \in Check
    BY RejectedSound DEF Check
  <1>3. check.at = "rejected" /\ check.token = gate[t].token /\ check.failed
    BY RejectedSound DEF Check
  <1>4. /\ cache' \in KeySet \cup {NoKeySet} /\ cache'.at <= now
        /\ \A k \in cache'.keys : k \in published \/ cache'.at <= until[k] + FetchTime
    <2>1. NoKeySet.keys = {} /\ NoKeySet.at = -1 /\ -1 <= now
      BY DEF NoKeySet, IInv, TypeOK, Time
    <2> QED BY <1>1, <2>1 DEF IInv, TypeOK, HeldInv, BeganInv
  <1>5. /\ check.token \in Token
        /\ check.token.signed => check.token.kid \in listed
    BY <1>1, <1>3 DEF IInv, KidInv
  <1> HIDE DEF check
  <1> QED BY <1>1, <1>2, <1>3, <1>4, <1>5, OneThread

(* An answer is cached within a fetch's time of when its keys were listed,    *)
(* and decodes the token, or leads to another fetch, or to the rejection of a *)
(* token whose key it does not list.                                          *)
LEMMA Putting == ASSUME IInv, NEW t \in Thread, Put(t) PROVE IInv'
  <1>1. gate[t].at = "put" /\ cache' = Stamp(gate[t].got)
    BY DEF Put
  <1>2. gate[t] \in Check /\ now \in Time /\ now \in Nat /\ gate[t].began \in Nat
    BY OneCheck DEF IInv, TypeOK, Check, Time
  <1>3. cache' \in KeySet \cup {NoKeySet} /\ cache'.keys = gate[t].got /\ cache'.at = now
    BY <1>1, <1>2 DEF Stamp, KeySet, Check
  <1>4. \A k \in gate[t].got : k \in published \/ now <= until[k] + FetchTime
    <2> SUFFICES ASSUME NEW k \in gate[t].got, k \notin published
                 PROVE  now <= until[k] + FetchTime
      OBVIOUS
    <2>1. gate[t].began <= until[k] /\ now <= gate[t].began + FetchTime
      BY <1>1 DEF IInv, HeldInv, FetchInv
    <2>2. until[k] \in Int
      BY <1>2 DEF IInv, TypeOK, Check, Time
    <2> QED BY <1>2, <2>1, <2>2, TimeAssumption
  <1>5. \A k \in cache'.keys : k \in published \/ cache'.at <= until[k] + FetchTime
    BY <1>3, <1>4
  <1>10. cache'.at <= now /\ now <= now
    BY <1>2, <1>3
  <1>6. /\ gate[t].token \in Token
        /\ gate[t].token.signed => gate[t].token.kid \in listed
        /\ (gate[t].token.signed /\ gate[t].token.kid \in published)
               => gate[t].token.kid \in gate[t].got
    BY <1>1 DEF IInv, KidInv
  <1>7. CASE gate[t].token.kid \in gate[t].got
    <2>1. Becomes(t, Decoded(t))
      BY <1>7 DEF Put
    <2>2. gate[t].token.kid \notin published =>
             now <= until[gate[t].token.kid] + Lifespan + FetchTime
      <3>1. until[gate[t].token.kid] \in Int
        BY <1>2, <1>7 DEF IInv, TypeOK, Check, Time
      <3> QED BY <1>2, <1>4, <1>7, <3>1, TimeAssumption
    <2> QED
      BY <1>1, <1>3, <1>5, <1>6, <1>10, <2>1, <2>2, DecodedSound, OneThread
  <1>8. CASE gate[t].token.kid \notin gate[t].got /\ gate[t].again
    <2>1. Becomes(t, Fetching(t, FALSE))
      BY <1>8 DEF Put
    <2>2. now <= now + FetchTime
      BY <1>2, TimeAssumption
    <2> QED BY <1>3, <1>5, <1>6, <1>10, <2>1, <2>2, FetchingSound, OneThread
  <1>9. CASE gate[t].token.kid \notin gate[t].got /\ ~gate[t].again
    <2>1. Becomes(t, Rejected(t))
      BY <1>9 DEF Put
    <2> QED BY <1>3, <1>5, <1>6, <1>9, <1>10, <2>1, RejectedSound, OneThread
  <1> QED BY <1>7, <1>8, <1>9

(* A request comes in, or is done with.                                       *)
LEMMA Coming == ASSUME IInv, NEW t \in Thread, NEW tok \in Token, Begin(t, tok) PROVE IInv'
  <1> DEFINE check == [Idle EXCEPT !.at = "lookup", !.token = tok]
  <1>1. Becomes(t, check) /\ cache' = cache /\ (tok.signed => tok.kid \in listed)
    BY DEF Begin
  <1>2. Idle \in Check
    BY TimeAssumption DEF Idle, Check, Time
  <1>3. check \in Check
    BY <1>2 DEF Check
  <1>4. check.at = "lookup" /\ check.token = tok
    BY <1>2 DEF Check
  <1>5. /\ cache' \in KeySet \cup {NoKeySet} /\ cache'.at <= now
        /\ \A k \in cache'.keys : k \in published \/ cache'.at <= until[k] + FetchTime
    BY <1>1 DEF IInv, TypeOK, HeldInv, BeganInv
  <1> HIDE DEF check
  <1> QED BY <1>1, <1>3, <1>4, <1>5, OneThread

(* A thread that is done with its request is as good as new.                  *)
LEMMA Finishing == ASSUME IInv, NEW t \in Thread, Finish(t) PROVE IInv'
  <1>1. Becomes(t, Idle) /\ cache' = cache
    BY DEF Finish
  <1>2. Idle \in Check /\ Idle.at = "idle"
    BY TimeAssumption DEF Idle, Check, Time
  <1>3. /\ cache' \in KeySet \cup {NoKeySet} /\ cache'.at <= now
        /\ \A k \in cache'.keys : k \in published \/ cache'.at <= until[k] + FetchTime
    BY <1>1 DEF IInv, TypeOK, HeldInv, BeganInv
  <1> QED BY <1>1, <1>2, <1>3, OneThread

(* A new key: no token that is under way names it.                            *)
LEMMA Rotating == ASSUME IInv, NEW k \in Key, Rotate(k) PROVE IInv'
  <1>1. /\ k \notin listed /\ published' = published \cup {k} /\ listed' = listed \cup {k}
        /\ until' = until /\ cache' = cache /\ gate' = gate /\ now' = now
    BY DEF Rotate
  <1>2. TypeOK'
    BY <1>1 DEF IInv, TypeOK
  <1>3. FetchInv' /\ HeldInv' /\ UsedInv' /\ BeganInv' /\ WithdrawnKeyDies'
    BY <1>1 DEF IInv, FetchInv, HeldInv, UsedInv, BeganInv, WithdrawnKeyDies
  <1>4. KidInv'
    BY <1>1 DEF IInv, KidInv
  <1>5. \A t \in Thread : gate[t].at = "rejected" /\ gate[t].token.signed
                             => gate[t].token.kid # k
    BY <1>1 DEF IInv, KidInv
  <1>6. RotationPickedUp'
    BY <1>1, <1>5 DEF IInv, RotationPickedUp
  <1> QED BY <1>2, <1>3, <1>4, <1>6 DEF IInv

(* A key is withdrawn: whatever was fetched with it in it began by now, and   *)
(* whatever was cached or used was so by now.                                 *)
LEMMA Withdrawing == ASSUME IInv, NEW k \in Key, Withdraw(k) PROVE IInv'
  <1>1. /\ published' = published \ {k} /\ until' = [until EXCEPT ![k] = now]
        /\ listed' = listed /\ cache' = cache /\ gate' = gate /\ now' = now
        /\ k \in published
    BY DEF Withdraw
  <1>2. now \in Time /\ now \in Nat /\ until \in [Key -> Time \cup {-1}]
    BY DEF IInv, TypeOK, Time
  <1>3. TypeOK'
    BY <1>1, <1>2 DEF IInv, TypeOK
  <1>4. until'[k] = now /\ \A j \in Key : j # k => until'[j] = until[j]
    BY <1>1, <1>2
  <1>5. FetchInv' /\ UsedInv' /\ BeganInv'
    BY <1>1, <1>2, <1>4 DEF IInv, FetchInv, UsedInv, BeganInv
  <1>6. HeldInv'
    <2>1. ASSUME NEW t \in Thread, gate[t].at = "put", NEW j \in gate[t].got
          PROVE  j \in published' \/ gate[t].began <= until'[j]
      <3>1. gate[t] \in Check /\ j \in Key
        BY <2>1, OneCheck DEF Check
      <3>2. gate[t].began <= now
        BY <2>1 DEF IInv, BeganInv
      <3> QED BY <1>1, <1>4, <2>1, <3>1, <3>2 DEF IInv, HeldInv
    <2>2. ASSUME NEW j \in cache.keys
          PROVE  j \in published' \/ cache.at <= until'[j] + FetchTime
      <3>1. j \in Key /\ cache.at \in Int /\ cache.at <= now
        BY <2>2 DEF IInv, TypeOK, BeganInv, KeySet, NoKeySet, Time
      <3> QED BY <1>1, <1>2, <1>4, <2>2, <3>1, TimeAssumption DEF IInv, HeldInv
    <2> QED BY <1>1, <2>1, <2>2 DEF HeldInv
  <1>7. KidInv'
    BY <1>1 DEF IInv, KidInv
  <1>8. WithdrawnKeyDies'
    <2> SUFFICES ASSUME NEW t \in Thread, gate[t].at = "verified",
                        gate[t].token.kid \notin published'
                 PROVE  gate[t].usedAt <= until'[gate[t].token.kid] + Lifespan + FetchTime
      BY <1>1 DEF WithdrawnKeyDies
    <2>1. gate[t].token.kid \in Key
      BY DEF IInv, KidInv, Token
    <2>2. CASE gate[t].token.kid = k
      <3>1. gate[t].usedAt <= now /\ gate[t].usedAt \in Nat
        BY OneCheck DEF IInv, UsedInv, Check, Time
      <3> QED BY <1>2, <1>4, <2>2, <3>1, TimeAssumption
    <2>3. CASE gate[t].token.kid # k
      BY <1>1, <1>4, <2>1, <2>3 DEF IInv, WithdrawnKeyDies
    <2> QED BY <2>2, <2>3
  <1>9. RotationPickedUp'
    BY <1>1 DEF IInv, RotationPickedUp
  <1> QED BY <1>3, <1>5, <1>6, <1>7, <1>8, <1>9 DEF IInv

(* Time passes, while no fetch is at its timeout.                             *)
LEMMA Ticking == ASSUME IInv, Tick PROVE IInv'
  <1>1. /\ now < MaxTime /\ now' = now + 1
        /\ \A t \in Thread : gate[t].at \in {"fetch", "put"} => now < gate[t].began + FetchTime
        /\ gate' = gate /\ cache' = cache
        /\ published' = published /\ listed' = listed /\ until' = until
    BY DEF Tick, keycloak
  <1>2. now \in Nat /\ now' \in Time
    BY <1>1, TimeAssumption DEF IInv, TypeOK, Time
  <1>3. TypeOK'
    BY <1>1, <1>2 DEF IInv, TypeOK
  <1>4. \A t \in Thread : gate[t].began \in Nat /\ gate[t].usedAt \in Nat
    <2> SUFFICES ASSUME NEW t \in Thread PROVE gate[t].began \in Nat /\ gate[t].usedAt \in Nat
      OBVIOUS
    <2>1. gate[t] \in Check
      BY OneCheck
    <2> QED BY <2>1 DEF Check, Time
  <1>5. FetchInv'
    BY <1>1, <1>2, <1>4, TimeAssumption DEF FetchInv
  <1>7. UsedInv'
    BY <1>1, <1>2, <1>4 DEF IInv, UsedInv
  <1>8. BeganInv'
    <2>1. cache.at \in Int
      BY DEF IInv, TypeOK, KeySet, NoKeySet, Time
    <2> QED BY <1>1, <1>2, <1>4, <2>1 DEF IInv, BeganInv
  <1>9. HeldInv' /\ KidInv' /\ WithdrawnKeyDies'
    BY <1>1 DEF IInv, HeldInv, KidInv, WithdrawnKeyDies
  <1>10. RotationPickedUp'
    <2>1. \A t \in Thread : gate[t].at = "rejected" => gate[t].token.exp \in Nat
      BY TimeAssumption DEF IInv, KidInv, Token
    <2>2. \A t \in Thread :
             (gate[t].at = "rejected" /\ now' < gate[t].token.exp) => now < gate[t].token.exp
      BY <1>1, <1>2, <2>1
    <2> QED BY <1>1, <2>2 DEF IInv, RotationPickedUp
  <1> QED BY <1>3, <1>5, <1>7, <1>8, <1>9, <1>10 DEF IInv

(* A restarted gateway has neither requests nor a cache.                      *)
LEMMA Restarting == ASSUME IInv, Restart PROVE IInv'
  <1>1. /\ gate' = [t \in Thread |-> Idle] /\ cache' = NoKeySet
        /\ published' = published /\ listed' = listed /\ until' = until /\ now' = now
    BY DEF Restart, keycloak
  <1>2. Idle \in Check /\ Idle.at = "idle"
    BY TimeAssumption DEF Idle, Check, Time
  <1>3. NoKeySet.keys = {} /\ NoKeySet.at = -1 /\ -1 <= now
    BY DEF NoKeySet, IInv, TypeOK, Time
  <1>4. TypeOK'
    BY <1>1, <1>2 DEF IInv, TypeOK
  <1>6. \A t \in Thread : gate'[t].at = "idle"
    BY <1>1, <1>2
  <1>7. FetchInv' /\ KidInv' /\ UsedInv' /\ WithdrawnKeyDies' /\ RotationPickedUp'
    BY <1>6 DEF FetchInv, KidInv, UsedInv, WithdrawnKeyDies, RotationPickedUp
  <1>8. HeldInv' /\ BeganInv'
    BY <1>1, <1>3, <1>6 DEF HeldInv, BeganInv
  <1> QED BY <1>4, <1>7, <1>8 DEF IInv

(* Every step of a thread, of Keycloak and of the clock keeps the invariant.  *)
LEMMA Step == IInv /\ [Next]_vars => IInv'
  <1> SUFFICES ASSUME IInv, [Next]_vars PROVE IInv'
    OBVIOUS
  <1>1. CASE \E t \in Thread, tok \in Token : Begin(t, tok)
    BY <1>1, Coming
  <1>2. CASE \E t \in Thread : LookupHit(t)
    BY <1>2, Hitting
  <1>3. CASE \E t \in Thread : LookupUnknownKid(t) \/ LookupMiss(t)
    BY <1>3, Missing
  <1>4. CASE \E t \in Thread : FetchAnswered(t)
    BY <1>4, Answering
  <1>5. CASE \E t \in Thread : FetchFailed(t)
    BY <1>5, Failing
  <1>6. CASE \E t \in Thread : Put(t)
    BY <1>6, Putting
  <1>7. CASE \E t \in Thread : Finish(t)
    BY <1>7, Finishing
  <1>8. CASE \E k \in Key : Rotate(k)
    BY <1>8, Rotating
  <1>9. CASE \E k \in Key : Withdraw(k)
    BY <1>9, Withdrawing
  <1>10. CASE Tick
    BY <1>10, Ticking
  <1>11. CASE Restart
    BY <1>11, Restarting
  <1>12. CASE UNCHANGED vars
    BY <1>12 DEF vars, IInv, TypeOK, FetchInv, HeldInv, KidInv, UsedInv, BeganInv,
                 WithdrawnKeyDies, RotationPickedUp
  <1> QED
    BY <1>1, <1>2, <1>3, <1>4, <1>5, <1>6, <1>7, <1>8, <1>9, <1>10, <1>11, <1>12 DEF Next

(* The inductive invariant: when what is cached and what is on its way was    *)
(* listed, and what is known of the kids of the tokens under way.             *)
THEOREM Invariance == Spec => []IInv
  <1>1. Init => IInv
    BY Initially
  <1>2. IInv /\ [Next]_vars => IInv'
    BY Step
  <1> QED BY <1>1, <1>2, PTL DEF Spec

(* Keys, threads, the cache and the clock keep their types.                   *)
THEOREM TypeCorrect == Spec => []TypeOK
  <1>1. IInv => TypeOK
    BY DEF IInv
  <1> QED BY <1>1, Invariance, PTL

(* A token whose key was withdrawn is accepted for a lifespan and a fetch     *)
(* longer at most, whatever the threads store over each other's answers.      *)
THEOREM WithdrawnKeysDie == Spec => []WithdrawnKeyDies
  <1>1. IInv => WithdrawnKeyDies
    BY DEF IInv
  <1> QED BY <1>1, Invariance, PTL

(* A genuine token with a listed key is rejected only for a fetch that failed. *)
THEOREM RotationsArePickedUp == Spec => []RotationPickedUp
  <1>1. IInv => RotationPickedUp
    BY DEF IInv
  <1> QED BY <1>1, Invariance, PTL
=============================================================================
