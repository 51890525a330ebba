------------------------------ MODULE Gateway ------------------------------
(* The policy enforcement point, gateway/app.py, with the services it calls. *)
(*                                                                           *)
(* Flask serves each HTTP request on a thread of its own, so a request r is  *)
(* a process that walks the gates of its route: token, policy, credential,   *)
(* then the view, which may call Vault or orders.  Every call to another     *)
(* service is a step of its own: it may be answered late, or never, and what *)
(* it changes over there stays changed when the gateway has stopped waiting. *)
(*                                                                           *)
(* Vault, OPA and orders are modelled from what the gateway uses of them;    *)
(* modules VaultInit and Orders look inside the two the repository writes.   *)
EXTENDS Integers, Authz

CONSTANTS
    Req,        \* HTTP requests; each is sent once
    Cred,       \* the tokens Vault can mint
    OrderId,    \* the ids orders is seeded with
    Token,      \* the access tokens callers may hold
    Input,      \* the requests that may arrive
    Policies,   \* the states the watched policy directory can be in
    CredTtl,    \* DELETE_CREDENTIAL_TTL
    MaxTime,    \* bound on the clock
    None,       \* an absent header, lease or request
    RootToken,  \* VAULT_DEV_ROOT_TOKEN_ID, a live token of another scope
    Garbage,    \* a credential Vault never issued
    NoId,       \* a delete body without an "id"
    UnknownId,  \* an integer id no order has
    NotAnInt,   \* an id the <int:order_id> route does not match
    NotAnObject \* a JSON body that is not an object

Method == {"GET", "HEAD", "POST"}
Path == {"/route-test", "/admin/mint-delete-credential", "/orders/delete"}
Presented == Cred \cup {None, RootToken, Garbage}
OrderArg == OrderId \cup {NoId, UnknownId, NotAnInt, NotAnObject}

ASSUME CredAssumption == {None, RootToken, Garbage} \cap Cred = {}
ASSUME NullAssumption == RootToken # None /\ Garbage # None /\ RootToken # Garbage
ASSUME OrderAssumption ==
    {NoId, UnknownId, NotAnInt, NotAnObject} \cap OrderId = {}
ASSUME TokenAssumption ==
    \A t \in Token : t # None /\ t.exp \in Int /\ t.genuine \in BOOLEAN
ASSUME PolicyAssumption == Policies \subseteq SUBSET Rule
ASSUME TimeAssumption == CredTtl \in Nat \ {0} /\ MaxTime \in Nat

\* A request that reaches a decorated view: Flask answers 404 and 405 itself,
\* and adds HEAD to every GET route.
Routed(method, path) ==
    IF path = "/orders/delete" THEN method = "POST" ELSE method \in {"GET", "HEAD"}

Request ==
    {q \in [method : Method, path : Path, token : Token \cup {None},
            credential : Presented, order : OrderArg] : Routed(q.method, q.path)}

ASSUME InputAssumption == Input \subseteq Request

Gate == {"token", "policy", "credential"}
Decision == {"silent", "allow", "deny", "error", "issue"}
NoTrail == [gate \in Gate |-> "silent"]

Time == 0..MaxTime

Lease == [by : Req, at : Time]

ASSUME NoneAssumption == None \notin Request /\ None \notin Lease /\ None \notin Req

VARIABLES
    pc,         \* where each request's thread is
    request,    \* what was asked, None before it arrives
    resp,       \* the "error" code of the answer, "ok" for a success
    audit,      \* the one line each gate may have logged for the request
    remote,     \* the call made for it that may change state elsewhere
    checkedAt,  \* when Vault confirmed its credential (history)
    timely,     \* whose token was not expired when it was verified (history)
    lease,      \* who minted a token and when (history, never erased)
    live,       \* the tokens in Vault's store
    setup,      \* what setup.sh has left in Vault: "policy", "approle"
    rules,      \* the rules OPA has loaded
    orders,     \* the orders that exist
    now

thread == <<pc, request, resp, audit>>
history == <<checkedAt, timely>>
store == <<lease, live, setup>>
vars == <<pc, request, resp, audit, remote, checkedAt, timely, lease, live,
          setup, rules, orders, now>>

Point == {"idle", "token", "policy", "credential", "view", "waiting", "done", "lost"}

\* "sent": on its way or being served; "ok": done over there; "refused" and
\* "garbled": answered without effect; "dropped": the service died first.
Call == {"none", "sent", "ok", "refused", "garbled", "dropped"}

Code == {"ok", "unauthorized", "forbidden", "policy_unavailable",
         "vault_credential_required", "vault_credential_invalid",
         "vault_credential_out_of_scope", "vault_unavailable",
         "bad_request", "internal_error", "not_found", "upstream_error"}

TypeOK ==
    /\ pc \in [Req -> Point]
    /\ request \in [Req -> Request \cup {None}]
    /\ resp \in [Req -> Code \cup {"none"}]
    /\ audit \in [Req -> [Gate -> Decision]]
    /\ remote \in [Req -> Call]
    /\ checkedAt \in [Req -> Time]
    /\ timely \subseteq Req
    /\ lease \in [Cred -> Lease \cup {None}]
    /\ live \subseteq Cred
    /\ setup \subseteq {"policy", "approle"}
    /\ rules \subseteq Rule
    /\ orders \subseteq OrderId
    /\ now \in Time

IsRead(q) == q.path = "/route-test"
IsMint(q) == q.path = "/admin/mint-delete-credential"
IsDelete(q) == q.path = "/orders/delete"

Init ==
    /\ pc = [r \in Req |-> "idle"]
    /\ request = [r \in Req |-> None]
    /\ resp = [r \in Req |-> "none"]
    /\ audit = [r \in Req |-> NoTrail]
    /\ remote = [r \in Req |-> "none"]
    /\ checkedAt = [r \in Req |-> 0]
    /\ timely = {}
    /\ lease = [c \in Cred |-> None]
    /\ live = {}
    /\ setup = {"policy", "approle"}    \* compose starts the gateway after vault-init
    /\ rules \in Policies
    /\ orders = OrderId
    /\ now = 0

-----------------------------------------------------------------------------
(* What a step of the gateway does to its own thread.                        *)

Goto(r, point) == pc' = [pc EXCEPT ![r] = point]

Audit(r, gate, decision) ==
    audit' = [audit EXCEPT ![r] = [@ EXCEPT ![gate] = decision]]

\* Log and go on to the next point.
Pass(r, gate, decision, point) ==
    /\ Audit(r, gate, decision)
    /\ Goto(r, point)
    /\ UNCHANGED <<request, resp>>

Answer(r, code) ==
    /\ resp' = [resp EXCEPT ![r] = code]
    /\ Goto(r, "done")

\* Log and answer; what comes after in the stack is not consulted.
Conclude(r, gate, decision, code) ==
    /\ Audit(r, gate, decision)
    /\ Answer(r, code)
    /\ UNCHANGED request

Reply(r, code) ==
    /\ Answer(r, code)
    /\ UNCHANGED <<request, audit>>

\* An exception nobody catches: Flask answers 500, and nothing is logged.
Raise(r) == Reply(r, "internal_error")

\* Nothing outside the thread moves.
OnlyThread == UNCHANGED <<remote, history, store, rules, orders, now>>

-----------------------------------------------------------------------------
(* A request arrives.  A credential is bearer material: whoever was answered *)
(* with it, or was given it since, may present it.                           *)

HandedOut(c) == lease[c] # None /\ resp[lease[c].by] = "ok"

Arrive(r, q) ==
    /\ pc[r] = "idle"
    /\ q.credential \in Cred => HandedOut(q.credential)
    /\ request' = [request EXCEPT ![r] = q]
    /\ Goto(r, "token")
    /\ UNCHANGED <<resp, audit>>
    /\ OnlyThread

-----------------------------------------------------------------------------
(* require_token_and_policy                                                  *)

BearerMissing(r) ==
    /\ pc[r] = "token"
    /\ request[r].token = None
    /\ Conclude(r, "token", "deny", "unauthorized")
    /\ OnlyThread

\* jwt.decode's checks; TokenGate has the fetch of the signing key.
Verified(t) == t.genuine /\ now < t.exp

\* Any token can be rejected: PyJWKClientError is caught with the bad tokens.
TokenRejected(r) ==
    /\ pc[r] = "token"
    /\ request[r].token # None
    /\ Conclude(r, "token", "deny", "unauthorized")
    /\ OnlyThread

\* The other exceptions of the key's fetch and of the claims are not caught.
TokenRaises(r) ==
    /\ pc[r] = "token"
    /\ request[r].token # None
    /\ Raise(r)
    /\ OnlyThread

\* The token gate lets a request through; whether its token was in its time is
\* recorded for what it is, not for what was checked.
PassToken(r, point) ==
    /\ Pass(r, "token", "allow", point)
    /\ timely' = timely \cup {q \in {r} : now < request[q].token.exp}
    /\ UNCHANGED <<remote, checkedAt, store, rules, orders, now>>

\* Mutant: the two decorators of orders_delete in the other order.
TokenVerifiedVaultFirst(r) ==
    /\ pc[r] = "token"
    /\ request[r].token # None
    /\ Verified(request[r].token)
    /\ PassToken(r, IF IsDelete(request[r]) THEN "credential" ELSE "policy")

TokenVerified(r) ==
    /\ pc[r] = "token"
    /\ request[r].token # None
    /\ Verified(request[r].token)
    /\ PassToken(r, "policy")

\* opa_allows: what OPA answers to the input the gateway builds.
OpaAllows(q) ==
    Allow(rules, [authenticated |-> TRUE, method |-> q.method, path |-> q.path,
                  claims |-> q.token])

\* Where an allowed request goes: to its view, behind require_vault_credential
\* on the delete route.
AfterPolicy(q) == IF IsDelete(q) THEN "credential" ELSE "view"

PolicyAllows(r) ==
    /\ pc[r] = "policy"
    /\ OpaAllows(request[r])
    /\ Pass(r, "policy", "allow", AfterPolicy(request[r]))
    /\ OnlyThread

PolicyDenies(r) ==
    /\ pc[r] = "policy"
    /\ ~OpaAllows(request[r])
    /\ Conclude(r, "policy", "deny", "forbidden")
    /\ OnlyThread

\* Mutant: no decision is taken for a yes.
PolicyFailsOpen(r) ==
    /\ pc[r] = "policy"
    /\ Pass(r, "policy", "error", AfterPolicy(request[r]))
    /\ OnlyThread

\* Mutant: without an answer of OPA's the request starts over.
PolicyStartsOver(r) ==
    /\ pc[r] = "policy"
    /\ Goto(r, "token")
    /\ UNCHANGED <<request, resp, audit, history, remote, store, rules, orders, now>>

\* OPA is down, late, or answers something that is not JSON: fail closed.
PolicyUnavailable(r) ==
    /\ pc[r] = "policy"
    /\ Conclude(r, "policy", "error", "policy_unavailable")
    /\ OnlyThread

\* OPA answers JSON that is not an object: body.get is outside the try.
PolicyRaises(r) ==
    /\ pc[r] = "policy"
    /\ Raise(r)
    /\ OnlyThread

-----------------------------------------------------------------------------
(* require_vault_credential, on the delete route only.                       *)

Expiry(c) == lease[c].at + CredTtl

\* Mutant: the TTL is left to whoever holds the token.
RecognisedForever(c) ==
    \/ c = RootToken
    \/ /\ c \in live
       /\ "policy" \in setup

\* Vault answers lookup-self with 200: the token is in its store, not past its
\* TTL, and a policy lets it look itself up.
Recognised(c) ==
    \/ c = RootToken
    \/ /\ c \in live
       /\ now < Expiry(c)
       /\ "policy" \in setup

\* DELETE_POLICY is among the policies the token carries: AppRole logins only.
InScope(c) == c \in Cred

\* Mutant: the early return forgets its audit line.
CredentialMissingUnlogged(r) ==
    /\ pc[r] = "credential"
    /\ request[r].credential = None
    /\ Reply(r, "vault_credential_required")
    /\ OnlyThread

CredentialMissing(r) ==
    /\ pc[r] = "credential"
    /\ request[r].credential = None
    /\ Conclude(r, "credential", "deny", "vault_credential_required")
    /\ OnlyThread

\* Any answer of Vault's but a 200 with data, an error of its own included.
CredentialInvalid(r) ==
    /\ pc[r] = "credential"
    /\ request[r].credential # None
    /\ Conclude(r, "credential", "deny", "vault_credential_invalid")
    /\ OnlyThread

CredentialOutOfScope(r) ==
    /\ pc[r] = "credential"
    /\ request[r].credential # None
    /\ Recognised(request[r].credential)
    /\ ~InScope(request[r].credential)
    /\ Conclude(r, "credential", "deny", "vault_credential_out_of_scope")
    /\ OnlyThread

CredentialConfirmed(r) ==
    /\ pc[r] = "credential"
    /\ request[r].credential # None
    /\ Recognised(request[r].credential)
    /\ InScope(request[r].credential)
    /\ checkedAt' = [checkedAt EXCEPT ![r] = now]
    /\ Pass(r, "credential", "allow", "view")
    /\ UNCHANGED <<remote, timely, store, rules, orders, now>>

CredentialUnavailable(r) ==
    /\ pc[r] = "credential"
    /\ request[r].credential # None
    /\ Conclude(r, "credential", "error", "vault_unavailable")
    /\ OnlyThread

\* Vault answers JSON of another shape than its own: what reads body and data is
\* outside both try blocks.
CredentialRaises(r) ==
    /\ pc[r] = "credential"
    /\ request[r].credential # None
    /\ Raise(r)
    /\ OnlyThread

-----------------------------------------------------------------------------
(* The views.  A call that may change state is sent, served and answered in  *)
(* three steps; TIMEOUT, or a dead peer, ends the wait at any moment.        *)

Send(r) ==
    /\ remote' = [remote EXCEPT ![r] = "sent"]
    /\ Goto(r, "waiting")
    /\ UNCHANGED <<request, resp, audit, history, store, rules, orders, now>>

Served(r, outcome) ==
    /\ remote' = [remote EXCEPT ![r] = outcome]
    /\ UNCHANGED <<thread, history, setup, rules, now>>

\* route_test: whatever the two fetches return, errors included, it is a 200.
RouteTest(r) ==
    /\ pc[r] = "view"
    /\ IsRead(request[r])
    /\ Reply(r, "ok")
    /\ OnlyThread

MintSend(r) ==
    /\ pc[r] = "view"
    /\ IsMint(request[r])
    /\ Send(r)

\* Vault serves the AppRole login, whether or not the gateway still waits.
VaultLogin(r, c) ==
    /\ remote[r] = "sent"
    /\ IsMint(request[r])
    /\ "approle" \in setup
    /\ lease[c] = None
    /\ lease' = [lease EXCEPT ![c] = [by |-> r, at |-> now]]
    /\ live' = live \cup {c}
    /\ Served(r, "ok")
    /\ UNCHANGED orders

\* The role, its role_id or its secret_id is not there: 400.
VaultLoginRefused(r) ==
    /\ remote[r] = "sent"
    /\ IsMint(request[r])
    /\ "approle" \notin setup
    /\ Served(r, "refused")
    /\ UNCHANGED <<lease, live, orders>>

MintReply(r) ==
    /\ pc[r] = "waiting"
    /\ IsMint(request[r])
    /\ remote[r] = "ok"
    /\ Conclude(r, "credential", "issue", "ok")
    /\ OnlyThread

\* Mutant: a login that failed is logged and tried again.
MintRetried(r) ==
    /\ pc[r] = "waiting"
    /\ IsMint(request[r])
    /\ Pass(r, "credential", "error", "view")
    /\ OnlyThread

\* No answer in time, no connection, or an HTTP error: all the same 503.
MintUnavailable(r) ==
    /\ pc[r] = "waiting"
    /\ IsMint(request[r])
    /\ Conclude(r, "credential", "error", "vault_unavailable")
    /\ OnlyThread

\* Vault answers a login with JSON of another shape.  Its fields are read outside
\* the try, before the issue is logged; a TTL that is no number raises after that.
MintRaises(r) ==
    /\ pc[r] = "waiting"
    /\ IsMint(request[r])
    /\ Raise(r) \/ Conclude(r, "credential", "issue", "internal_error")
    /\ OnlyThread

DeleteNoId(r) ==
    /\ pc[r] = "view"
    /\ IsDelete(request[r])
    /\ request[r].order = NoId
    /\ Reply(r, "bad_request")
    /\ OnlyThread

\* body.get on a JSON list, string or number raises outside the try.
DeleteNotAnObject(r) ==
    /\ pc[r] = "view"
    /\ IsDelete(request[r])
    /\ request[r].order = NotAnObject
    /\ Raise(r)
    /\ OnlyThread

DeleteSend(r) ==
    /\ pc[r] = "view"
    /\ IsDelete(request[r])
    /\ request[r].order \notin {NoId, NotAnObject}
    /\ Send(r)

OrdersDelete(r) ==
    /\ remote[r] = "sent"
    /\ IsDelete(request[r])
    /\ request[r].order \in orders
    /\ orders' = orders \ {request[r].order}
    /\ Served(r, "ok")
    /\ UNCHANGED <<lease, live>>

\* Another delete's pop can hide an order from a scan that is under way
\* (module Orders), so a 404 does not need the order to be gone.
Disturbed(r) ==
    \E q \in Req \ {r} : request[q] # None /\ IsDelete(request[q]) /\ remote[q] = "ok"

OrdersNotFound(r) ==
    /\ remote[r] = "sent"
    /\ IsDelete(request[r])
    /\ request[r].order \in OrderId \cup {UnknownId}
    /\ request[r].order \notin orders \/ Disturbed(r)
    /\ Served(r, "refused")
    /\ UNCHANGED <<lease, live, orders>>

\* Flask's own 404 page: not JSON.
OrdersNoRoute(r) ==
    /\ remote[r] = "sent"
    /\ IsDelete(request[r])
    /\ request[r].order = NotAnInt
    /\ Served(r, "garbled")
    /\ UNCHANGED <<lease, live, orders>>

\* Mutant: what the call came back with is answered without a code of its own.
DeleteReplyRaw(r) ==
    /\ pc[r] = "waiting"
    /\ IsDelete(request[r])
    /\ remote[r] \in {"ok", "refused"} /\ Reply(r, remote[r])
    /\ OnlyThread

\* The status of orders is passed on as it is.
DeleteReply(r) ==
    /\ pc[r] = "waiting"
    /\ IsDelete(request[r])
    /\ \/ remote[r] = "ok" /\ Reply(r, "ok")
       \/ remote[r] = "refused" /\ Reply(r, "not_found")
    /\ OnlyThread

\* Mutant: the exception is not caught, and Flask turns it into a 500.
DeleteUncaught(r) ==
    /\ pc[r] = "waiting"
    /\ IsDelete(request[r])
    /\ Raise(r)
    /\ OnlyThread

\* Mutant: a delete that was not answered in time is sent again.
DeleteRetried(r) ==
    /\ pc[r] = "waiting"
    /\ IsDelete(request[r])
    /\ Goto(r, "view")
    /\ UNCHANGED <<request, resp, audit>>
    /\ OnlyThread

\* No answer in time, no connection, or a body that is not JSON.
DeleteUnavailable(r) ==
    /\ pc[r] = "waiting"
    /\ IsDelete(request[r])
    /\ Reply(r, "upstream_error")
    /\ OnlyThread

-----------------------------------------------------------------------------
(* Everything the gateway does not control.                                  *)

UnchangedThreads == UNCHANGED <<thread, history>>

Tick ==
    /\ now < MaxTime
    /\ now' = now + 1
    /\ UnchangedThreads
    /\ UNCHANGED <<remote, store, rules, orders>>

\* An edit under policies/, picked up by --watch.
EditPolicy ==
    /\ rules' \in Policies
    /\ UnchangedThreads
    /\ UNCHANGED <<remote, store, orders, now>>

\* setup.sh, on a rerun: it writes both parts, and takes the secret_id out for
\* a moment before it registers it again.
VaultSetup ==
    /\ \/ \E part \in {"policy", "approle"} : setup' = setup \cup {part}
       \/ setup' = setup \ {"approle"}
    /\ UnchangedThreads
    /\ UNCHANGED <<remote, lease, live, rules, orders, now>>

\* The calls of a kind of request die with the server that was serving them.
MintCalls == {r \in Req : remote[r] = "sent" /\ IsMint(request[r])}
DeleteCalls == {r \in Req : remote[r] = "sent" /\ IsDelete(request[r])}

Drop(calls) == remote' = [r \in Req |-> IF r \in calls THEN "dropped" ELSE remote[r]]

\* Dev mode: everything Vault knew is gone, the root token aside.
VaultRestart ==
    /\ live' = {}
    /\ setup' = {}
    /\ Drop(MintCalls)
    /\ UnchangedThreads
    /\ UNCHANGED <<lease, rules, orders, now>>

Revoke(c) ==
    /\ c \in live
    /\ live' = live \ {c}
    /\ UnchangedThreads
    /\ UNCHANGED <<remote, lease, setup, rules, orders, now>>

\* ORDERS is rebuilt when orders starts.
OrdersRestart ==
    /\ orders' = OrderId
    /\ Drop(DeleteCalls)
    /\ UnchangedThreads
    /\ UNCHANGED <<store, rules, now>>

\* The gateway keeps nothing: its threads die with their requests, the calls
\* they made do not.
GatewayRestart ==
    /\ \E r \in Req : pc[r] \notin {"idle", "done", "lost"}
    /\ pc' = [r \in Req |-> IF pc[r] \in {"idle", "done"} THEN pc[r] ELSE "lost"]
    /\ UNCHANGED <<request, resp, audit>>
    /\ OnlyThread

-----------------------------------------------------------------------------

\* The steps of r's thread in the gateway.
Thread(r) ==
    \/ BearerMissing(r) \/ TokenRejected(r) \/ TokenRaises(r) \/ TokenVerified(r)
    \/ PolicyAllows(r) \/ PolicyDenies(r) \/ PolicyUnavailable(r) \/ PolicyRaises(r)
    \/ CredentialMissing(r) \/ CredentialInvalid(r) \/ CredentialOutOfScope(r)
    \/ CredentialConfirmed(r) \/ CredentialUnavailable(r) \/ CredentialRaises(r)
    \/ RouteTest(r)
    \/ MintSend(r) \/ MintReply(r) \/ MintUnavailable(r) \/ MintRaises(r)
    \/ DeleteNoId(r) \/ DeleteNotAnObject(r) \/ DeleteSend(r)
    \/ DeleteReply(r) \/ DeleteUnavailable(r)

\* The steps Vault and orders take for r.
Server(r) ==
    \/ \E c \in Cred : VaultLogin(r, c)
    \/ VaultLoginRefused(r)
    \/ OrdersDelete(r) \/ OrdersNotFound(r) \/ OrdersNoRoute(r)

Environment ==
    \/ \E r \in Req, q \in Input : Arrive(r, q)
    \/ Tick \/ EditPolicy
    \/ VaultSetup \/ VaultRestart \/ \E c \in Cred : Revoke(c)
    \/ OrdersRestart \/ GatewayRestart

Next ==
    \/ \E r \in Req : Thread(r) \/ Server(r)
    \/ Environment

Spec == Init /\ [][Next]_vars

\* Every call a thread makes is bounded by TIMEOUT, so a thread always has a
\* next step and gets to take it.
FairSpec == Spec /\ \A r \in Req : WF_vars(Thread(r))

-----------------------------------------------------------------------------
(* What the gateway promises.                                                *)

Manager(r) ==
    /\ request[r] # None
    /\ request[r].token # None
    /\ request[r].token.genuine
    /\ HasRealmRole(request[r].token, "manager")

Said(trail, token, policy, credential) ==
    /\ trail["token"] = token
    /\ trail["policy"] = policy
    /\ trail["credential"] = credential

\* What the last gate of a route says when it is passed.
Granting(q) == IF IsRead(q) THEN "silent" ELSE IF IsMint(q) THEN "issue" ELSE "allow"

\* The audit lines that explain an answer: which gates were consulted, in their
\* order, and what the last of them said.
Explains(trail, q, code) ==
    \/ /\ code = "unauthorized"
       /\ Said(trail, "deny", "silent", "silent")
    \/ /\ code \in {"forbidden", "policy_unavailable"}
       /\ Said(trail, "allow", IF code = "forbidden" THEN "deny" ELSE "error", "silent")
    \/ /\ code \in {"vault_credential_required", "vault_credential_invalid",
                    "vault_credential_out_of_scope"}
       /\ IsDelete(q)
       /\ Said(trail, "allow", "allow", "deny")
    \/ /\ code = "vault_unavailable"
       /\ ~IsRead(q)
       /\ Said(trail, "allow", "allow", "error")
    \/ /\ code \in {"ok", "bad_request", "not_found", "upstream_error"}
       /\ code # "ok" => IsDelete(q)
       /\ Said(trail, "allow", "allow", Granting(q))
    \/ /\ code = "internal_error"
       /\ \/ Said(trail, "silent", "silent", "silent")
          \/ Said(trail, "allow", "silent", "silent")
          \/ ~IsRead(q) /\ Said(trail, "allow", "allow", "silent")
          \/ ~IsRead(q) /\ Said(trail, "allow", "allow", Granting(q))

\* Every answer the gateway composes can be reconstructed from the log: the lines
\* of its gates are there, in full and with nothing else, and only the gates that
\* were passed say "allow".  An uncaught exception, Flask's 500, leaves a gap where
\* it was raised and only there: the gates before it have said yes, in their order,
\* and none has said no.  (gateway/app.py:26-32; ZERO_TRUST_MAPPING.md:419-420 for
\* the three lines of a delete and the prefix a refusal leaves.)
AuditTrail ==
    \A r \in Req : pc[r] = "done" => Explains(audit[r], request[r], resp[r])

\* Neither Vault nor orders is ever asked for anything on behalf of a request
\* whose token was not a manager's or whose gates did not all say yes, and no
\* read ever changes anything, whatever fails on the way.
GatesBeforeEffects ==
    \A r \in Req : remote[r] # "none" =>
        /\ Manager(r)
        /\ ~IsRead(request[r])
        /\ audit[r]["token"] = "allow" /\ audit[r]["policy"] = "allow"
        /\ IsDelete(request[r]) => audit[r]["credential"] = "allow"

\* The just-in-time promise.  A delete is asked of orders only with a credential
\* that an earlier request of a manager was answered with, and that Vault
\* confirmed less than a TTL after it minted it.
DeletionJustified ==
    \A r \in Req : (remote[r] # "none" /\ IsDelete(request[r])) =>
        \E m \in Req :
            /\ m # r /\ Manager(m) /\ IsMint(request[m])
            /\ resp[m] = "ok" /\ audit[m]["credential"] = "issue"
            /\ LET c == request[r].credential IN
               /\ c \in Cred
               /\ lease[c].by = m
               /\ lease[c].at <= checkedAt[r] /\ checkedAt[r] < Expiry(c)

\* The answers that leave open whether a call had, or still will have, its effect.
LeavesOpen(q, code) ==
    \/ code = "ok" \/ code = "upstream_error"
    \/ IsMint(q) /\ code \in {"vault_unavailable", "internal_error"}

\* An answer that says no means that nothing was done and nothing will be: no
\* call is under way that could still mint or delete.  Only the 502 of a delete
\* and the 503 or 500 of a mint leave that open.
RefusalIsFinal ==
    \A r \in Req :
        (pc[r] = "done" /\ ~LeavesOpen(request[r], resp[r])) => remote[r] \in {"none", "refused"}

\* Vault's existence shows only to managers: nobody gets one of its error codes
\* whose token was not a manager's, genuine, and in its time when the gateway
\* verified it (gateway/app.py:315-316, SETUP.md:390).
VaultHidden ==
    \A r \in Req :
        resp[r] \in {"vault_credential_required", "vault_credential_invalid",
                     "vault_credential_out_of_scope", "vault_unavailable"}
        => Manager(r) /\ r \in timely

\* A mint that was answered with success has one token in Vault, and no more:
\* none that was made for another request, and none left over from a second login.
OneCredentialEach ==
    \A r \in Req : (resp[r] = "ok" /\ IsMint(request[r])) =>
        \E c \in Cred :
            /\ lease[c] # None /\ lease[c].by = r
            /\ \A d \in Cred \ {c} : lease[d] = None \/ lease[d].by # r

\* A decision is said once: no line of a request is replaced by another, and an
\* answer is never taken back, not even by a restart or a late reply.
SaidOnce ==
    [][\A r \in Req :
        /\ \A gate \in Gate : audit[r][gate] # "silent" => audit'[r][gate] = audit[r][gate]
        /\ resp[r] # "none" => resp'[r] = resp[r]]_vars

\* Every request is answered, unless the gateway goes down under it: no service
\* that hangs, restarts or answers nonsense leaves a caller waiting for ever.
EventuallyAnswered ==
    \A r \in Req : (pc[r] # "idle") ~> (pc[r] \in {"done", "lost"})

-----------------------------------------------------------------------------
(* The gateway, Vault and orders together implement JitAccess.               *)

\* The requests known to be a manager's, whom each token was minted for, the
\* tokens that are good, and those a caller has.
Managers == {r \in Req : Manager(r)}
Owner == [c \in Cred |-> IF lease[c] = None THEN None ELSE lease[c].by]
Alive == {c \in live : now < Expiry(c)}
Handed == {c \in Cred : HandedOut(c)}

\* The deletes that passed their last gate.  One may still be carried out while
\* its view has not sent it, or orders has not settled it.
Granted ==
    {r \in Req : /\ request[r] # None /\ IsDelete(request[r])
                 /\ request[r].order \in OrderId
                 /\ audit[r]["credential"] = "allow"}
Open(r) == pc[r] = "view" \/ remote[r] = "sent"
Grants == {<<r, request[r].order>> : r \in {q \in Granted : Open(q)}}

Jit == INSTANCE JitAccess WITH
    managers <- Managers, owner <- Owner, alive <- Alive, handed <- Handed,
    granted <- Granted, grants <- Grants

\* Seen from outside, nothing happens but what JitAccess allows: an order goes
\* only by a grant that its request got once, from the credential of another
\* manager's request while it lived; a timeout, a restart or a late answer
\* neither renews a grant nor adds one (gateway/app.py:297-341, 360-445).
JustInTime == Jit!Spec

-----------------------------------------------------------------------------
(* The inductive invariant behind those promises (proved in GatewayProofs).  *)

\* What is known of a thread at each point.
ThreadInv ==
    \A r \in Req :
        /\ pc[r] = "idle" => request[r] = None
        /\ pc[r] # "idle" => request[r] # None
        /\ pc[r] \in {"idle", "token"} => Said(audit[r], "silent", "silent", "silent")
        /\ (resp[r] # "none") <=> (pc[r] = "done")
        /\ pc[r] \in {"policy", "credential", "view", "waiting"} =>
               /\ request[r].token # None
               /\ request[r].token.genuine
               /\ r \in timely
        /\ pc[r] \in {"credential", "view", "waiting"} =>
               IsRead(request[r]) \/ Manager(r)
        /\ pc[r] = "policy" => Said(audit[r], "allow", "silent", "silent")
        /\ pc[r] = "credential" =>
               /\ IsDelete(request[r])
               /\ Said(audit[r], "allow", "allow", "silent")
        /\ pc[r] \in {"view", "waiting"} =>
               Said(audit[r], "allow", "allow",
                                IF IsDelete(request[r]) THEN "allow" ELSE "silent")
        /\ pc[r] = "waiting" => ~IsRead(request[r])

\* A call exists only for a thread that got as far as its view.
CallInv ==
    \A r \in Req :
        /\ remote[r] # "none" => pc[r] \in {"waiting", "done", "lost"}
        /\ (pc[r] = "done" /\ resp[r] = "ok" /\ IsMint(request[r])) => remote[r] = "ok"

\* Vault's store against the requests that filled it: each token belongs to the
\* one mint whose call succeeded, and each successful mint has its token.
LeaseInv ==
    /\ \A c \in live : lease[c] # None
    /\ \A c \in Cred : lease[c] # None =>
           /\ lease[c].at <= now
           /\ remote[lease[c].by] = "ok"
           /\ IsMint(request[lease[c].by])
           /\ \A d \in Cred : (lease[d] # None /\ lease[d].by = lease[c].by) => d = c
    /\ \A r \in Req : (remote[r] = "ok" /\ IsMint(request[r])) =>
           \E c \in Cred : lease[c] # None /\ lease[c].by = r

\* A credential on a request has been handed out, and one that was let through
\* was confirmed inside its TTL.
CredentialInv ==
    \A r \in Req : request[r] # None =>
        LET c == request[r].credential IN
        /\ c \in Cred => HandedOut(c)
        /\ (IsDelete(request[r]) /\ audit[r]["credential"] = "allow") =>
               /\ c \in Cred
               /\ lease[c].at <= checkedAt[r]
               /\ checkedAt[r] < Expiry(c)

IInv ==
    /\ TypeOK
    /\ ThreadInv /\ CallInv /\ LeaseInv /\ CredentialInv
    /\ AuditTrail /\ GatesBeforeEffects /\ RefusalIsFinal /\ VaultHidden
=============================================================================
