----------------------------- MODULE TokenGate ------------------------------
(* The first gate from the inside: how a request thread gets the key that    *)
(* verifies its token (gateway/app.py:83-93 and 149-163).                    *)
(*                                                                           *)
(* One PyJWKClient, with one cached key set, serves every request thread;    *)
(* Keycloak rotates its keys meanwhile.  The client is a library: its cache, *)
(* its re-fetch for an unknown kid and its fetch are modelled as external,   *)
(* from the options line 93 gives it and the behaviour lines 91-92 rely on.  *)
(* A fetch that fails keeps the cached set or drops it, as versions differ.  *)
EXTENDS Integers

CONSTANTS
    Thread,     \* threads of the gateway's Flask server
    Key,        \* the signing keys (kid) Keycloak goes through
    Lifespan,   \* lifespan=300, in ticks
    FetchTime,  \* timeout=TIMEOUT, in ticks
    Expiry,     \* the exp claims of tokens
    MaxTime,    \* bound on the clock
    None

ASSUME TimeAssumption ==
    Lifespan \in Nat /\ FetchTime \in Nat \ {0} /\ MaxTime \in Nat /\ Expiry \subseteq Nat
ASSUME NoneAssumption == None \notin Key

Time == 0..MaxTime

\* signed: the signature verifies with the key the kid names, and the issuer and
\* required claims are right.
Token == [kid : Key, signed : BOOLEAN, exp : Expiry]

ASSUME TokenAssumption == None \notin Token

KeySet == [keys : SUBSET Key, at : Time]
NoKeySet == [keys |-> {}, at |-> -1]

VARIABLES
    published,  \* the keys Keycloak's JWKS endpoint lists
    listed,     \* the keys it ever listed (history)
    until,      \* when each key was withdrawn, -1 before (history)
    cache,      \* jwk_set_cache
    gate,       \* what each thread is doing
    now

vars == <<published, listed, until, cache, gate, now>>

keycloak == <<published, listed, until>>

\* at: where the thread is; got: the keys its fetch came back with; again:
\* whether an unknown kid leads to one more fetch; began: when the fetch began;
\* failed: whether one failed; usedAt: when it used a key (the last two history).
Check ==
    [at : {"idle", "lookup", "fetch", "put", "verified", "rejected"},
     token : Token \cup {None}, got : SUBSET Key, again : BOOLEAN,
     began : Time, failed : BOOLEAN, usedAt : Time]

Idle == [at |-> "idle", token |-> None, got |-> {}, again |-> FALSE,
         began |-> 0, failed |-> FALSE, usedAt |-> 0]

TypeOK ==
    /\ published \subseteq listed /\ listed \subseteq Key
    /\ until \in [Key -> Time \cup {-1}]
    /\ cache \in KeySet \cup {NoKeySet}
    /\ gate \in [Thread -> Check]
    /\ now \in Time

\* Keycloak starts with one key, the gateway with an empty cache.
Init ==
    /\ \E k \in Key : published = {k} /\ listed = {k}
    /\ until = [k \in Key |-> -1]
    /\ cache = NoKeySet
    /\ gate = [t \in Thread |-> Idle]
    /\ now = 0

Becomes(t, check) ==
    /\ gate' = [gate EXCEPT ![t] = check]
    /\ UNCHANGED <<keycloak, now>>

\* A bearer token comes in.  Keys sign only once they are listed; a forged token
\* may name any kid.
Begin(t, tok) ==
    /\ gate[t].at = "idle"
    /\ tok.signed => tok.kid \in listed
    /\ Becomes(t, [Idle EXCEPT !.at = "lookup", !.token = tok])
    /\ UNCHANGED cache

Fetching(t, more) ==
    [gate[t] EXCEPT !.at = "fetch", !.again = more, !.began = now, !.got = {}]

\* jwt.decode with the key of the token's kid; nothing shared is read after the
\* key is at hand.
Decoded(t) ==
    LET tok == gate[t].token IN
    [gate[t] EXCEPT !.at = IF tok.signed /\ now < tok.exp THEN "verified" ELSE "rejected",
                    !.usedAt = now]

Rejected(t) == [gate[t] EXCEPT !.at = "rejected"]

\* Mutant: the cached set never ages.
Forever(set) == set # NoKeySet

Fresh(set) == set # NoKeySet /\ now <= set.at + Lifespan

LookupHit(t) ==
    /\ gate[t].at = "lookup"
    /\ Fresh(cache)
    /\ gate[t].token.kid \in cache.keys
    /\ Becomes(t, Decoded(t))
    /\ UNCHANGED cache

\* Mutant: an unknown kid is believed, not looked up again.
UnknownKidRejected(t) ==
    /\ gate[t].at = "lookup"
    /\ Fresh(cache)
    /\ gate[t].token.kid \notin cache.keys
    /\ Becomes(t, Rejected(t))
    /\ UNCHANGED cache

\* The kid is not in the cached set: fetch, once.
LookupUnknownKid(t) ==
    /\ gate[t].at = "lookup"
    /\ Fresh(cache)
    /\ gate[t].token.kid \notin cache.keys
    /\ Becomes(t, Fetching(t, FALSE))
    /\ UNCHANGED cache

\* No usable set: fetch, and once more should the kid not be in it.
LookupMiss(t) ==
    /\ gate[t].at = "lookup"
    /\ ~Fresh(cache)
    /\ Becomes(t, Fetching(t, TRUE))
    /\ UNCHANGED cache

FetchAnswered(t) ==
    /\ gate[t].at = "fetch"
    /\ Becomes(t, [gate[t] EXCEPT !.at = "put", !.got = published])
    /\ UNCHANGED cache

\* Keycloak is down or slow: PyJWKClientError, a 401 like a bad token's.
FetchFailed(t) ==
    /\ gate[t].at = "fetch"
    /\ cache' \in {cache, NoKeySet}
    /\ Becomes(t, [Rejected(t) EXCEPT !.failed = TRUE])

\* Mutant: what is kept is when the set expires, not when it came.
StampExpiry(keys) == [keys |-> keys, at |-> now + Lifespan]

Stamp(keys) == [keys |-> keys, at |-> now]

\* The answer is cached when it arrives, whatever another thread cached since it
\* was sent, and counts as new from now on.
Put(t) ==
    /\ gate[t].at = "put"
    /\ cache' = Stamp(gate[t].got)
    /\ Becomes(t, IF gate[t].token.kid \in gate[t].got THEN Decoded(t)
                  ELSE IF gate[t].again THEN Fetching(t, FALSE)
                  ELSE Rejected(t))

\* The gate has spoken; the thread goes on to the policy or answers 401, and is
\* free for another request.
Finish(t) ==
    /\ gate[t].at \in {"verified", "rejected"}
    /\ Becomes(t, Idle)
    /\ UNCHANGED cache

-----------------------------------------------------------------------------

\* Keycloak begins to sign with a new key, and lists it beside the old ones.
Rotate(k) ==
    /\ k \notin listed
    /\ published' = published \cup {k}
    /\ listed' = listed \cup {k}
    /\ UNCHANGED <<until, cache, gate, now>>

\* A key is disabled or deleted; it does not come back.
Withdraw(k) ==
    /\ k \in published
    /\ published # {k}
    /\ published' = published \ {k}
    /\ until' = [until EXCEPT ![k] = now]
    /\ UNCHANGED <<listed, cache, gate, now>>

\* Time passes, but no further than a fetch's timeout while one is under way.
Tick ==
    /\ now < MaxTime
    /\ \A t \in Thread : gate[t].at \in {"fetch", "put"} => now < gate[t].began + FetchTime
    /\ now' = now + 1
    /\ UNCHANGED <<keycloak, cache, gate>>

\* A restarted gateway has an empty cache and no requests.
Restart ==
    /\ cache' = NoKeySet
    /\ gate' = [t \in Thread |-> Idle]
    /\ UNCHANGED <<keycloak, now>>

Next ==
    \/ \E t \in Thread :
          \/ \E tok \in Token : Begin(t, tok)
          \/ LookupHit(t) \/ LookupUnknownKid(t) \/ LookupMiss(t)
          \/ FetchAnswered(t) \/ FetchFailed(t) \/ Put(t)
          \/ Finish(t)
    \/ \E k \in Key : Rotate(k) \/ Withdraw(k)
    \/ Tick \/ Restart

Spec == Init /\ [][Next]_vars

-----------------------------------------------------------------------------

\* The price of the cache is bounded: a token whose key Keycloak has withdrawn is
\* accepted for one lifespan and one fetch longer and no more, also when threads
\* store older answers over newer ones (gateway/app.py:91-93).
WithdrawnKeyDies ==
    \A t \in Thread :
        (gate[t].at = "verified" /\ gate[t].token.kid \notin published) =>
            gate[t].usedAt <= until[gate[t].token.kid] + Lifespan + FetchTime

\* A rotation is picked up without a restart: a token that is genuine, unexpired
\* and signed with a listed key is turned away only if this request's own fetch
\* failed, however stale the cache is (gateway/app.py:91-92).
RotationPickedUp ==
    \A t \in Thread :
        (/\ gate[t].at = "rejected"
         /\ gate[t].token.signed /\ now < gate[t].token.exp
         /\ gate[t].token.kid \in published) => gate[t].failed
=============================================================================
