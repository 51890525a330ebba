------------------------- MODULE GatewayRefinement --------------------------
(* Gateway implements JitAccess, for any number of requests, credentials and *)
(* orders: each step is a step of JitAccess, or nothing.  IInv supplies what *)
(* a thread in the middle of its gates knows.                                *)
EXTENDS GatewayProofs

\* What a step leaves alone unless it touches requests, tokens or the clock.
LEMMA Quiet ==
    ASSUME IInv, UNCHANGED <<request, lease, live, now>>,
           \A r \in Req : (resp'[r] = "ok" <=> resp[r] = "ok") \/ ~IsMint(request[r])
    PROVE  UNCHANGED <<Managers, Owner, Alive, Handed>>
  <1>1. Managers' = Managers /\ Owner' = Owner /\ Alive' = Alive
    BY DEF Managers, Manager, Owner, Alive, Expiry
  <1>2. ASSUME NEW c \in Cred PROVE HandedOut(c)' <=> HandedOut(c)
    <2>1. CASE lease[c] = None
      BY <2>1 DEF HandedOut
    <2>2. CASE lease[c] # None
      <3>1. lease[c].by \in Req /\ IsMint(request[lease[c].by])
        BY <2>2 DEF IInv, LeaseInv, TypeOK, Lease
      <3> QED BY <2>2, <3>1 DEF HandedOut
    <2> QED BY <2>1, <2>2
  <1> QED BY <1>1, <1>2 DEF Handed

\* A step that gives no grant may close some.
LEMMA Closing ==
    ASSUME UNCHANGED request,
           \A r \in Req : IsDelete(request[r]) =>
               /\ audit'[r]["credential"] = "allow" <=> audit[r]["credential"] = "allow"
               /\ audit[r]["credential"] = "allow" => (Open(r)' => Open(r))
    PROVE  Granted' = Granted /\ Grants' \subseteq Grants
  <1>1. Granted' = Granted
    BY DEF Granted
  <1>2. \A r \in Granted : IsDelete(request[r]) /\ r \in Req /\ audit[r]["credential"] = "allow"
    BY DEF Granted
  <1> QED BY <1>1, <1>2 DEF Grants

LEMMA InitialGrants == Init => Jit!Init
  <1> SUFFICES ASSUME Init PROVE Jit!Init
    OBVIOUS
  <1>1. Managers = {} /\ Owner = [c \in Cred |-> None] /\ Alive = {} /\ Handed = {}
    BY DEF Init, Managers, Manager, Owner, Alive, Handed, HandedOut
  <1>2. Granted = {}
    BY DEF Init, Granted
  <1>3. Grants = {}
    BY <1>2 DEF Grants
  <1> QED BY <1>1, <1>2, <1>3 DEF Jit!Init, Init

\* Vault mints: the credential is issued to the manager who asked.
LEMMA MintIssues ==
    ASSUME IInv, NEW r \in Req, NEW c \in Cred, VaultLogin(r, c)
    PROVE  Jit!Issue(c, r)
  <1> USE DEF VaultLogin, Served, thread, history
  <1>0. /\ [by |-> r, at |-> now] # None /\ now \in Nat
        /\ lease \in [Cred -> Lease \cup {None}] /\ live \subseteq Cred
    BY NoneAssumption, TimeAssumption DEF IInv, TypeOK, Lease, Time
  <1>1. r \in Managers /\ Managers' = Managers
    BY DEF IInv, GatesBeforeEffects, Managers, Manager
  <1>2. Owner[c] = None /\ Owner' = [Owner EXCEPT ![c] = r]
    BY <1>0 DEF Owner
  <1>3. ASSUME NEW d \in Cred PROVE Owner[d] # r
    <2>1. lease[d] # None => lease[d].by # r
      BY DEF IInv, LeaseInv
    <2> QED BY <2>1, NoneAssumption DEF Owner
  <1>4. Alive' = Alive \cup {c}
    <2>1. now < Expiry(c)'
      BY <1>0, TimeAssumption DEF Expiry
    <2>2. \A d \in live : Expiry(d)' = Expiry(d) /\ d # c
      BY <1>0 DEF Expiry, IInv, LeaseInv
    <2> QED BY <2>1, <2>2 DEF Alive
  <1>5. Handed' = Handed
    <2>1. resp[r] # "ok"
      BY DEF IInv, ThreadInv, RefusalIsFinal, LeavesOpen, CallInv
    <2>2. \A d \in Cred : HandedOut(d)' <=> HandedOut(d)
      BY <1>0, <2>1 DEF HandedOut
    <2> QED BY <2>2 DEF Handed
  <1>6. Granted' = Granted /\ Grants' = Grants
    <2>1. Granted' = Granted /\ \A q \in Granted : q # r
      BY DEF Granted, IsMint, IsDelete
    <2>2. \A q \in Granted : Open(q)' <=> Open(q)
      BY <2>1 DEF Open, Granted, IInv, TypeOK
    <2> QED BY <2>1, <2>2 DEF Grants, Granted
  <1> QED BY <1>1, <1>2, <1>3, <1>4, <1>5, <1>6 DEF Jit!Issue

\* The answer to a mint hands out its credential.
LEMMA ReplyHandsOut ==
    ASSUME IInv, NEW r \in Req, MintReply(r)
    PROVE  \E c \in Cred : Jit!HandOut(c)
  <1> USE DEF MintReply, Conclude, Answer, Goto, OnlyThread, store, history
  <1>1. PICK c \in Cred : lease[c] # None /\ lease[c].by = r
    BY DEF IInv, LeaseInv
  <1>2. UNCHANGED <<Managers, Owner, Alive, orders>> /\ Owner[c] # None
    BY <1>1, NoneAssumption DEF Managers, Manager, Owner, Alive, Expiry
  <1>3. Handed' = Handed \cup {c}
    <2>1. resp[r]' = "ok" /\ \A q \in Req \ {r} : resp[q]' = resp[q]
      BY DEF IInv, TypeOK
    <2>2. \A d \in Cred \ {c} : lease[d] # None => lease[d].by \in Req \ {r}
      BY <1>1 DEF IInv, LeaseInv, TypeOK, Lease
    <2>3. HandedOut(c)' /\ \A d \in Cred \ {c} : HandedOut(d)' <=> HandedOut(d)
      BY <1>1, <2>1, <2>2 DEF HandedOut
    <2> QED BY <2>3 DEF Handed
  <1>4. Granted' = Granted /\ Grants' = Grants
    <2>1. \A q \in Req \ {r} : audit'[q] = audit[q] /\ pc'[q] = pc[q]
      BY DEF Audit, IInv, TypeOK
    <2>2. Granted' = Granted /\ \A q \in Granted : q \in Req \ {r}
      BY <2>1 DEF Granted, IsMint, IsDelete
    <2>3. \A q \in Granted : Open(q)' <=> Open(q)
      BY <2>1, <2>2 DEF Open
    <2> QED BY <2>2, <2>3 DEF Grants
  <1> QED BY <1>2, <1>3, <1>4 DEF Jit!HandOut

\* Vault's word on a credential gives the grant, unless there is no order to name.
LEMMA ConfirmGrants ==
    ASSUME IInv, NEW r \in Req, CredentialConfirmed(r)
    PROVE  \/ \E c \in Cred, o \in OrderId : Jit!Grant(r, c, o)
           \/ UNCHANGED Jit!vars
  <1> USE DEF CredentialConfirmed, Pass, Goto, store
  <1> DEFINE c == request[r].credential
             o == request[r].order
  <1>1. UNCHANGED <<Managers, Owner, Alive, Handed, orders>>
    BY Quiet
  <1>2. /\ request[r] # None /\ IsDelete(request[r])
        /\ audit[r]["credential"] = "silent" /\ remote[r] = "none"
    BY DEF IInv, ThreadInv, CallInv, Said
  <1>3. /\ \A q \in Req \ {r} : audit'[q] = audit[q] /\ pc'[q] = pc[q]
        /\ audit'[r]["credential"] = "allow" /\ pc'[r] = "view"
    BY DEF Audit, IInv, TypeOK, Gate
  <1>4. CASE o \notin OrderId
    <2>1. Granted' = Granted /\ \A q \in Granted : q \in Req \ {r}
      BY <1>3, <1>4 DEF Granted
    <2>2. \A q \in Granted : Open(q)' <=> Open(q)
      BY <1>3, <2>1 DEF Open
    <2>3. Grants' = Grants
      BY <2>1, <2>2 DEF Grants
    <2> QED BY <1>1, <2>1, <2>3 DEF Jit!vars
  <1>5. CASE o \in OrderId
    <2>1. Granted' = Granted \cup {r} /\ r \notin Granted
      BY <1>2, <1>3, <1>5 DEF Granted
    <2>2. Open(r)' /\ \A q \in Granted : q # r /\ (Open(q)' <=> Open(q))
      BY <1>3, <2>1 DEF Open, Granted
    <2>3. Grants' = Grants \cup {<<r, o>>}
      BY <2>1, <2>2 DEF Grants
    <2>4. r \in Managers
      BY <1>2 DEF IInv, ThreadInv, Managers, IsRead, IsDelete
    <2>5. c \in Cred /\ c \in Alive /\ c \in Handed
      BY <1>2, CredAssumption DEF Recognised, InScope, Alive, Handed, IInv, CredentialInv
    <2>6. Owner[c] # r
      <3>1. lease[c] # None /\ IsMint(request[lease[c].by])
        BY <2>5 DEF Handed, HandedOut, IInv, LeaseInv
      <3> QED BY <1>2, <2>5, <3>1 DEF Owner, IsMint, IsDelete
    <2>7. Jit!Grant(r, c, o)
      BY <1>1, <2>1, <2>3, <2>4, <2>5, <2>6 DEF Jit!Grant
    <2> QED BY <1>5, <2>5, <2>7
  <1> QED BY <1>4, <1>5

\* Every other step of a thread lets its own grant lapse at most.
LEMMA ThreadLapses ==
    ASSUME IInv, NEW r \in Req, Thread(r), ~MintReply(r), ~CredentialConfirmed(r)
    PROVE  Jit!Lapse
  <1> USE DEF Conclude, Reply, Pass, Answer, Goto, Send
  <1>0. /\ pc \in [Req -> Point] /\ audit \in [Req -> [Gate -> Decision]]
        /\ resp \in [Req -> Code \cup {"none"}] /\ remote \in [Req -> Call]
    BY DEF IInv, TypeOK
  <1>1. /\ UNCHANGED <<request, lease, live, now, orders>>
        /\ \A q \in Req \ {r} : /\ audit'[q] = audit[q] /\ pc'[q] = pc[q]
                                /\ resp'[q] = resp[q] /\ remote'[q] = remote[q]
        /\ IsMint(request[r]) => resp'[r] # "ok"
        /\ IsDelete(request[r]) =>
             /\ audit'[r]["credential"] = "allow" => audit[r]["credential"] = "allow"
             /\ audit[r]["credential"] = "allow" =>
                  audit'[r]["credential"] = "allow" /\ (Open(r)' => Open(r))
    <2> USE <1>0 DEF OnlyThread, store, history, Audit, Gate, Open
    <2>1. CASE BearerMissing(r) \/ TokenRejected(r) \/ TokenVerified(r)
      <3>1. audit[r]["credential"] = "silent" /\ resp[r] = "none"
        BY <2>1 DEF BearerMissing, TokenRejected, TokenVerified, IInv, ThreadInv, Said
      <3> QED BY <2>1, <3>1 DEF BearerMissing, TokenRejected, TokenVerified, PassToken
    <2>2. CASE PolicyAllows(r) \/ PolicyDenies(r) \/ PolicyUnavailable(r)
      <3>1. audit[r]["credential"] = "silent" /\ resp[r] = "none"
        BY <2>2 DEF PolicyAllows, PolicyDenies, PolicyUnavailable, IInv, ThreadInv, Said
      <3> QED BY <2>2, <3>1 DEF PolicyAllows, PolicyDenies, PolicyUnavailable
    <2>3. CASE \/ CredentialMissing(r) \/ CredentialInvalid(r)
               \/ CredentialOutOfScope(r) \/ CredentialUnavailable(r)
      <3>1. audit[r]["credential"] = "silent"
        BY <2>3 DEF CredentialMissing, CredentialInvalid, CredentialOutOfScope,
                    CredentialUnavailable, IInv, ThreadInv, Said
      <3> QED BY <2>3, <3>1 DEF CredentialMissing, CredentialInvalid, CredentialOutOfScope,
                                CredentialUnavailable
    <2>4. CASE RouteTest(r) \/ MintUnavailable(r)
      <3>1. ~IsDelete(request[r]) /\ (RouteTest(r) => ~IsMint(request[r]))
        BY <2>4 DEF RouteTest, MintUnavailable, IsRead, IsMint, IsDelete
      <3> QED BY <2>4, <3>1 DEF RouteTest, MintUnavailable
    <2>5. CASE \/ DeleteNoId(r) \/ DeleteNotAnObject(r)
               \/ DeleteReply(r) \/ DeleteUnavailable(r)
      <3>1. ~IsMint(request[r])
        BY <2>5 DEF DeleteNoId, DeleteNotAnObject, DeleteReply, DeleteUnavailable,
                    IsMint, IsDelete
      <3> QED BY <2>5, <3>1 DEF DeleteNoId, DeleteNotAnObject, DeleteReply, DeleteUnavailable,
                                Raise
    <2>6. CASE MintSend(r) \/ DeleteSend(r)
      <3>1. resp[r] = "none"
        BY <2>6 DEF MintSend, DeleteSend, IInv, ThreadInv
      <3> QED BY <2>6, <3>1 DEF MintSend, DeleteSend
    <2>7. CASE TokenRaises(r) \/ PolicyRaises(r) \/ CredentialRaises(r)
      <3>1. audit[r]["credential"] = "silent"
        BY <2>7 DEF TokenRaises, PolicyRaises, CredentialRaises, IInv, ThreadInv, Said
      <3> QED BY <2>7, <3>1 DEF TokenRaises, PolicyRaises, CredentialRaises, Raise
    <2>8. CASE MintRaises(r)
      <3>1. ~IsDelete(request[r])
        BY <2>8 DEF MintRaises, IsMint, IsDelete
      <3> QED BY <2>8, <3>1 DEF MintRaises, Raise
    <2> QED BY <2>1, <2>2, <2>3, <2>4, <2>5, <2>6, <2>7, <2>8 DEF Thread
  <1>2. resp[r] # "ok"
    <2>1. pc[r] # "done"
      BY DEF Thread, BearerMissing, TokenRejected, TokenVerified, PolicyAllows, PolicyDenies,
             PolicyUnavailable, CredentialMissing, CredentialInvalid, CredentialOutOfScope,
             CredentialConfirmed, CredentialUnavailable, RouteTest, MintSend, MintReply,
             MintUnavailable, DeleteNoId, DeleteNotAnObject, DeleteSend, DeleteReply,
             DeleteUnavailable, TokenRaises, PolicyRaises, CredentialRaises, MintRaises
    <2> QED BY <2>1 DEF IInv, ThreadInv
  <1>3. UNCHANGED <<Managers, Owner, Alive, Handed>>
    BY <1>1, <1>2, Quiet
  <1>4. Granted' = Granted /\ Grants' \subseteq Grants
    BY <1>1, Closing DEF Open
  <1> QED BY <1>1, <1>3, <1>4 DEF Jit!Lapse

\* Vault and orders: a token is issued, a grant is used, or lapses.
LEMMA ServerImplements ==
    ASSUME IInv, NEW r \in Req, Server(r)
    PROVE  Jit!Next
  <1> USE DEF Served, thread, history
  <1>0. remote \in [Req -> Call]
    BY DEF IInv, TypeOK
  <1>1. CASE \E c \in Cred : VaultLogin(r, c)
    BY <1>1, MintIssues DEF Jit!Next
  <1>2. CASE VaultLoginRefused(r) \/ OrdersNotFound(r) \/ OrdersNoRoute(r)
    <2>1. /\ UNCHANGED <<request, lease, live, now, orders, resp, audit, pc>>
          /\ \A q \in Req : remote'[q] = "sent" => remote[q] = "sent"
      BY <1>0, <1>2 DEF VaultLoginRefused, OrdersNotFound, OrdersNoRoute
    <2>2. UNCHANGED <<Managers, Owner, Alive, Handed>>
      BY <2>1, Quiet
    <2>3. Granted' = Granted /\ Grants' \subseteq Grants
      BY <2>1, Closing DEF Open
    <2> QED BY <2>1, <2>2, <2>3 DEF Jit!Lapse, Jit!Next
  <1>3. CASE OrdersDelete(r)
    <2> DEFINE o == request[r].order
    <2>1. UNCHANGED <<request, lease, live, now, resp, audit, pc>>
      BY <1>3 DEF OrdersDelete
    <2>2. UNCHANGED <<Managers, Owner, Alive, Handed>>
      BY <2>1, Quiet
    <2>3. /\ remote[r] = "sent" /\ remote'[r] = "ok" /\ o \in OrderId
          /\ \A q \in Req \ {r} : remote'[q] = remote[q]
          /\ orders' = orders \ {o}
      BY <1>0, <1>3 DEF OrdersDelete, IInv, TypeOK
    <2>4. r \in Granted /\ pc[r] # "view"
      BY <1>3, <2>3 DEF OrdersDelete, Granted, IInv, GatesBeforeEffects, CallInv, Manager
    <2>5. Granted' = Granted
      BY <2>1 DEF Granted
    <2>6. Open(r) /\ ~Open(r)' /\ \A q \in Req \ {r} : Open(q)' <=> Open(q)
      BY <2>1, <2>3, <2>4 DEF Open
    <2>7. Grants' = Grants \ {<<r, o>>} /\ <<r, o>> \in Grants
      BY <2>1, <2>4, <2>5, <2>6 DEF Grants, Granted
    <2>8. Jit!Use(r, o)
      BY <2>2, <2>3, <2>5, <2>7 DEF Jit!Use
    <2> QED BY <2>3, <2>8 DEF Jit!Next
  <1> QED BY <1>1, <1>2, <1>3 DEF Server

\* A request that arrives may show another manager.
LEMMA ArrivalAsks ==
    ASSUME IInv, NEW r \in Req, NEW q \in Input, Arrive(r, q)
    PROVE  Jit!Ask(r) \/ UNCHANGED Jit!vars
  <1> USE DEF Arrive, Goto, OnlyThread, store, history
  <1>0. /\ request \in [Req -> Request \cup {None}] /\ pc \in [Req -> Point]
        /\ request[r] = None /\ request'[r] = q /\ q # None
        /\ audit[r]["credential"] = "silent" /\ remote[r] = "none"
    BY InputAssumption, NoneAssumption DEF IInv, TypeOK, ThreadInv, CallInv, Said
  <1>1. \A p \in Req \ {r} : request'[p] = request[p] /\ pc'[p] = pc[p]
    BY <1>0
  <1>2. Managers' = Managers \/ Managers' = Managers \cup {r}
    BY <1>0, <1>1 DEF Managers, Manager
  <1>3. UNCHANGED <<Owner, Alive, Handed, orders>>
    BY DEF Owner, Alive, Expiry, Handed, HandedOut
  <1>4. Granted' = Granted /\ r \notin Granted
    BY <1>0, <1>1 DEF Granted
  <1>5. Grants' = Grants
    <2>1. \A p \in Granted : request'[p] = request[p] /\ (Open(p)' <=> Open(p))
      BY <1>1, <1>4 DEF Granted, Open
    <2> QED BY <1>4, <2>1 DEF Grants
  <1> QED BY <1>2, <1>3, <1>4, <1>5 DEF Jit!Ask, Jit!vars

\* Time, edits, reruns of the setup, revocations and restarts.
LEMMA EnvironmentImplements ==
    ASSUME IInv, Environment
    PROVE  Jit!Next \/ UNCHANGED Jit!vars
  <1> USE DEF UnchangedThreads, thread, history, store
  <1>0. /\ remote \in [Req -> Call] /\ pc \in [Req -> Point] /\ now \in Nat
        /\ \A r \in Req : request[r] # None => request[r] \in Request
        /\ \A c \in live : lease[c].at \in Nat
    BY TimeAssumption DEF IInv, TypeOK, LeaseInv, Lease, Time
  <1>1. CASE \E r \in Req, q \in Input : Arrive(r, q)
    BY <1>1, ArrivalAsks DEF Jit!Next
  <1>2. ASSUME UNCHANGED <<request, lease, resp, audit, pc>>
        PROVE  UNCHANGED <<Managers, Owner, Handed, Granted>>
    BY <1>2 DEF Managers, Manager, Owner, Handed, HandedOut, Granted
  <1>3. CASE Tick \/ VaultRestart \/ \E c \in Cred : Revoke(c)
    <2>1. UNCHANGED <<request, lease, resp, audit, pc, orders>> /\ live' \subseteq live
      BY <1>3 DEF Tick, VaultRestart, Revoke
    <2>2. now' = now \/ now' = now + 1
      BY <1>3 DEF Tick, VaultRestart, Revoke
    <2>3. Alive' \subseteq Alive
      BY <1>0, <2>1, <2>2, TimeAssumption DEF Alive, Expiry
    <2>4. \A r \in Req : IsDelete(request[r]) => remote'[r] = remote[r]
      BY <1>0, <1>3 DEF Tick, VaultRestart, Revoke, Drop, MintCalls, IsMint, IsDelete
    <2>5. Grants' = Grants
      <3>1. \A r \in Granted : Open(r)' <=> Open(r)
        BY <2>1, <2>4 DEF Granted, Open
      <3> QED BY <1>2, <2>1, <3>1 DEF Grants
    <2> QED BY <1>2, <2>1, <2>3, <2>5 DEF Jit!Die, Jit!Next
  <1>4. CASE EditPolicy \/ VaultSetup
    <2>1. UNCHANGED <<request, lease, live, now, resp, audit, pc, orders, remote>>
      BY <1>4 DEF EditPolicy, VaultSetup
    <2>2. UNCHANGED <<Alive, Grants>>
      BY <1>2, <2>1 DEF Alive, Expiry, Grants, Open
    <2> QED BY <1>2, <2>1, <2>2 DEF Jit!vars
  <1>5. CASE OrdersRestart \/ GatewayRestart
    <2>1. UNCHANGED <<request, lease, live, now, resp, audit>>
      BY <1>5 DEF OrdersRestart, GatewayRestart, OnlyThread
    <2>2. \A r \in Req : Open(r)' => Open(r)
      BY <1>0, <1>5 DEF OrdersRestart, GatewayRestart, OnlyThread, Drop, Open
    <2>3. UNCHANGED <<Managers, Owner, Alive, Handed>>
      BY <2>1, Quiet
    <2>4. Granted' = Granted /\ Grants' \subseteq Grants
      BY <2>1, <2>2, Closing
    <2>5. orders' = orders \/ orders' = OrderId
      BY <1>5 DEF OrdersRestart, GatewayRestart, OnlyThread
    <2> QED BY <2>3, <2>4, <2>5 DEF Jit!Lapse, Jit!Reseed, Jit!Next
  <1> QED BY <1>1, <1>3, <1>4, <1>5 DEF Environment

\* The gateway, with Vault and orders behind it, implements just-in-time access.
THEOREM ImplementsJitAccess ==
    Spec => JustInTime
  <1>1. ASSUME IInv, [Next]_vars
        PROVE  [Jit!Next]_(Jit!vars)
    <2>1. CASE \E r \in Req : Thread(r)
      <3> SUFFICES ASSUME NEW r \in Req, Thread(r) PROVE Jit!Next \/ UNCHANGED Jit!vars
        BY <2>1
      <3>1. CASE MintReply(r)
        BY <1>1, <3>1, ReplyHandsOut DEF Jit!Next
      <3>2. CASE CredentialConfirmed(r)
        BY <1>1, <3>2, ConfirmGrants DEF Jit!Next
      <3>3. CASE ~MintReply(r) /\ ~CredentialConfirmed(r)
        BY <1>1, <3>3, ThreadLapses DEF Jit!Next
      <3> QED BY <3>1, <3>2, <3>3
    <2>2. CASE \E r \in Req : Server(r)
      BY <1>1, <2>2, ServerImplements
    <2>3. CASE Environment
      BY <1>1, <2>3, EnvironmentImplements
    <2>4. CASE UNCHANGED vars
      <3>1. UNCHANGED <<Managers, Owner, Alive, Handed, Granted, Grants, orders>>
        BY <2>4 DEF vars, Managers, Manager, Owner, Alive, Expiry, Handed, HandedOut,
                    Granted, Grants, Open
      <3> QED BY <3>1 DEF Jit!vars
    <2> QED BY <1>1, <2>1, <2>2, <2>3, <2>4 DEF Next
  <1> QED BY Invariance, InitialGrants, <1>1, PTL DEF Spec, JustInTime, Jit!Spec
=============================================================================
