--------------------------- MODULE GatewayProofs ----------------------------
(* Every safety promise of Gateway, for any number of requests, tokens and   *)
(* orders.  The argument is the inductive invariant IInv; each kind of step  *)
(* has a lemma that says what it preserves IInv under, and the lemma `Steps` *)
(* has one leaf per action.                                                  *)
EXTENDS Gateway, TLAPS

-----------------------------------------------------------------------------
(* The policy.                                                               *)

\* Whatever part of the policy is loaded, it opens the two privileged routes to
\* the manager role only (authz.rego:33-48).
LEMMA PrivilegedNeedsManager ==
    ASSUME NEW q, OpaAllows(q), ~IsRead(q)
    PROVE  HasRealmRole(q.token, "manager")
  BY DEF OpaAllows, Allow, RuleHolds, IsRead, HasRealmRole

\* The three routes exclude each other.
LEMMA Routes ==
    ASSUME NEW q \in Request
    PROVE  /\ q.path \in Path
           /\ IsRead(q) \/ IsMint(q) \/ IsDelete(q)
           /\ ~(IsRead(q) /\ IsMint(q)) /\ ~(IsRead(q) /\ IsDelete(q))
           /\ ~(IsMint(q) /\ IsDelete(q))
  BY DEF Request, Path, IsRead, IsMint, IsDelete

-----------------------------------------------------------------------------
(* Lemmas for the kinds of step.                                             *)

\* A thread that answers, having logged a refusal, an issue, or nothing more.
LEMMA Answering ==
    ASSUME IInv, NEW r \in Req, NEW code \in Code,
           pc[r] \in {"token", "policy", "credential", "view", "waiting"},
           Answer(r, code), UNCHANGED request, OnlyThread,
           \/ UNCHANGED audit
           \/ \E gate \in Gate, decision \in Decision \ {"allow"} :
                 /\ audit[r][gate] = "silent"
                 /\ Audit(r, gate, decision),
           Explains(audit'[r], request[r], code),
           ~LeavesOpen(request[r], code) => remote[r] \in {"none", "refused"},
           (code = "ok" /\ IsMint(request[r])) => remote[r] = "ok",
           code \in {"vault_credential_required", "vault_credential_invalid",
                     "vault_credential_out_of_scope", "vault_unavailable"}
               => Manager(r) /\ r \in timely
    PROVE  IInv'
  <1> USE DEF Answer, Goto, OnlyThread, store, history
  <1>1. TypeOK'
    BY DEF IInv, TypeOK, Code, Point, Gate, Decision, Audit
  <1>2. ThreadInv'
    BY DEF IInv, TypeOK, ThreadInv, Manager, Said, Gate, Audit, Code
  <1>3. CallInv'
    BY DEF IInv, TypeOK, CallInv, ThreadInv
  <1>4. LeaseInv'
    BY DEF IInv, LeaseInv
  <1>5. CredentialInv'
    BY DEF IInv, TypeOK, CredentialInv, ThreadInv, LeaseInv, HandedOut, Expiry, Gate, Audit, Lease, Time
  <1>6. AuditTrail'
    BY DEF IInv, TypeOK, ThreadInv, AuditTrail, Explains, Granting, Said, Gate, Audit
  <1>7. GatesBeforeEffects'
    BY DEF IInv, TypeOK, GatesBeforeEffects, CallInv, Manager, Audit, Gate
  <1>8. RefusalIsFinal'
    BY DEF IInv, TypeOK, RefusalIsFinal, LeavesOpen, CallInv
  <1>9. VaultHidden'
    BY DEF IInv, TypeOK, VaultHidden, Manager
  <1> QED BY <1>1, <1>2, <1>3, <1>4, <1>5, <1>6, <1>7, <1>8, <1>9 DEF IInv

\* A thread that logs an allow and goes on.
LEMMA Passing ==
    ASSUME IInv, NEW r \in Req, NEW gate \in {"token", "policy"},
           NEW point \in {"policy", "credential", "view"},
           pc[r] \in {"token", "policy"},
           Pass(r, gate, "allow", point),
           UNCHANGED <<remote, checkedAt, store, rules, orders, now>>,
           timely \subseteq timely', timely' \subseteq Req, r \in timely',
           request[r].token # None, request[r].token.genuine,
           point = "policy" =>
               Said(audit'[r], "allow", "silent", "silent"),
           point # "policy" =>
               /\ IsRead(request[r]) \/ Manager(r)
               /\ IsDelete(request[r]) <=> point = "credential"
               /\ Said(audit'[r], "allow", "allow", "silent")
    PROVE  IInv'
  <1> USE DEF Pass, Goto, store
  <1>1. TypeOK'
    BY DEF IInv, TypeOK, Point, Gate, Decision, Audit
  <1>2. ThreadInv'
    BY DEF IInv, TypeOK, ThreadInv, Manager, Said, Gate, Audit
  <1>3. CallInv'
    BY DEF IInv, TypeOK, CallInv
  <1>4. LeaseInv'
    BY DEF IInv, LeaseInv
  <1>5. CredentialInv'
    BY DEF IInv, TypeOK, CredentialInv, ThreadInv, LeaseInv, HandedOut, Expiry, Gate, Audit, Lease, Time
  <1>6. AuditTrail'
    BY DEF IInv, TypeOK, ThreadInv, AuditTrail, Explains, Granting, Said, Gate, Audit
  <1>7. GatesBeforeEffects'
    BY DEF IInv, TypeOK, GatesBeforeEffects, CallInv, Manager, Audit, Gate
  <1>8. RefusalIsFinal'
    BY DEF IInv, TypeOK, RefusalIsFinal, LeavesOpen, CallInv
  <1>9. VaultHidden'
    BY DEF IInv, TypeOK, VaultHidden, Manager
  <1> QED BY <1>1, <1>2, <1>3, <1>4, <1>5, <1>6, <1>7, <1>8, <1>9 DEF IInv

\* The step behind the just-in-time promise: Vault confirms a credential.
LEMMA Confirming ==
    ASSUME IInv, NEW r \in Req, CredentialConfirmed(r)
    PROVE  IInv'
  <1> USE DEF CredentialConfirmed, Pass, Goto, store
  <1>1. TypeOK'
    BY DEF IInv, TypeOK, Point, Gate, Decision, Audit
  <1>2. ThreadInv'
    BY DEF IInv, TypeOK, ThreadInv, Manager, Said, Gate, Audit
  <1>3. CallInv'
    BY DEF IInv, TypeOK, CallInv
  <1>4. LeaseInv'
    BY DEF IInv, LeaseInv
  <1>5. CredentialInv'
    <2>1. LET c == request[r].credential IN
          /\ c \in live /\ now < Expiry(c) /\ lease[c] # None /\ lease[c].at <= now
      BY CredAssumption DEF Recognised, InScope, IInv, TypeOK, LeaseInv
    <2> QED
      BY <2>1 DEF IInv, TypeOK, CredentialInv, ThreadInv, LeaseInv, HandedOut, Expiry,
                  Gate, Audit, Lease, InScope
  <1>6. AuditTrail'
    BY DEF IInv, TypeOK, ThreadInv, AuditTrail, Explains, Granting, Said, Gate, Audit
  <1>7. GatesBeforeEffects'
    BY DEF IInv, TypeOK, GatesBeforeEffects, CallInv, Manager, Audit, Gate
  <1>8. RefusalIsFinal'
    BY DEF IInv, TypeOK, RefusalIsFinal, LeavesOpen, CallInv
  <1>9. VaultHidden'
    BY DEF IInv, TypeOK, VaultHidden, Manager
  <1> QED BY <1>1, <1>2, <1>3, <1>4, <1>5, <1>6, <1>7, <1>8, <1>9 DEF IInv

\* A view that makes its call.
LEMMA Sending ==
    ASSUME IInv, NEW r \in Req, pc[r] = "view", ~IsRead(request[r]), Send(r)
    PROVE  IInv'
  <1> USE DEF Send, Goto, store, history
  <1>0. request[r] # None /\ request[r] \in Request
    BY DEF IInv, ThreadInv, TypeOK
  <1>1. TypeOK'
    BY DEF IInv, TypeOK, Point, Call
  <1>2. ThreadInv'
    BY DEF IInv, TypeOK, ThreadInv, Manager, Said
  <1>3. CallInv'
    BY <1>0 DEF IInv, TypeOK, CallInv
  <1>4. LeaseInv'
    <2>1. \A c \in Cred : lease[c] # None => lease[c].by # r /\ lease[c].by \in Req
      BY DEF IInv, LeaseInv, CallInv, TypeOK, Lease, Time
    <2> QED BY <2>1 DEF IInv, TypeOK, LeaseInv
  <1>5. CredentialInv'
    BY DEF IInv, TypeOK, CredentialInv, HandedOut, Expiry
  <1>6. AuditTrail'
    BY DEF IInv, TypeOK, AuditTrail
  <1>7. GatesBeforeEffects'
    BY DEF IInv, TypeOK, ThreadInv, GatesBeforeEffects, Manager, Said
  <1>8. RefusalIsFinal'
    BY DEF IInv, TypeOK, RefusalIsFinal, LeavesOpen
  <1>9. VaultHidden'
    BY DEF IInv, TypeOK, VaultHidden, Manager
  <1> QED BY <1>1, <1>2, <1>3, <1>4, <1>5, <1>6, <1>7, <1>8, <1>9 DEF IInv

\* Vault mints a token.
LEMMA LoggingIn ==
    ASSUME IInv, NEW r \in Req, NEW c \in Cred, VaultLogin(r, c)
    PROVE  IInv'
  <1> USE DEF VaultLogin, Served, thread, history
  <1>0. request[r] # None /\ request[r] \in Request /\ [by |-> r, at |-> now] \in Lease
    BY DEF IInv, ThreadInv, CallInv, TypeOK, Lease, Time
  <1>1. TypeOK'
    BY <1>0 DEF IInv, TypeOK, Call
  <1>2. ThreadInv'
    BY DEF IInv, TypeOK, ThreadInv, Manager, Said
  <1>3. CallInv'
    BY <1>0 DEF IInv, TypeOK, CallInv
  <1>4. LeaseInv'
    <2>1. \A d \in Cred : lease[d] # None =>
             /\ lease[d].by # r /\ lease[d].by \in Req
             /\ lease'[d] = lease[d] /\ d # c
      BY DEF IInv, LeaseInv, TypeOK, Lease, Time
    <2>2. lease'[c].by = r /\ lease'[c].at = now /\ lease'[c] # None
      BY <1>0, NoneAssumption DEF IInv, TypeOK
    <2>3. \A d \in Cred : lease'[d] # None => d = c \/ lease[d] # None
      BY DEF IInv, TypeOK
    <2>4. \A d \in live' : lease'[d] # None
      BY <2>1, <2>2 DEF IInv, TypeOK, LeaseInv
    <2>5. \A d \in Cred : lease'[d] # None =>
             /\ lease'[d].at <= now'
             /\ remote'[lease'[d].by] = "ok"
             /\ IsMint(request'[lease'[d].by])
      BY <2>1, <2>2, <2>3, TimeAssumption DEF IInv, TypeOK, LeaseInv, Time
    <2>6. \A d, e \in Cred :
             (lease'[d] # None /\ lease'[e] # None /\ lease'[e].by = lease'[d].by) => e = d
      BY <2>1, <2>2, <2>3 DEF IInv, TypeOK, LeaseInv
    <2>7. \A q \in Req : (remote'[q] = "ok" /\ IsMint(request'[q])) =>
             \E d \in Cred : lease'[d] # None /\ lease'[d].by = q
      BY <2>1, <2>2, <2>3 DEF IInv, TypeOK, LeaseInv
    <2> QED BY <2>4, <2>5, <2>6, <2>7 DEF LeaseInv
  <1>5. CredentialInv'
    BY DEF IInv, TypeOK, CredentialInv, HandedOut, Expiry
  <1>6. AuditTrail'
    BY DEF IInv, TypeOK, AuditTrail
  <1>7. GatesBeforeEffects'
    BY DEF IInv, TypeOK, GatesBeforeEffects, Manager
  <1>8. RefusalIsFinal'
    BY DEF IInv, TypeOK, RefusalIsFinal, LeavesOpen
  <1>9. VaultHidden'
    BY DEF IInv, TypeOK, VaultHidden, Manager
  <1> QED BY <1>1, <1>2, <1>3, <1>4, <1>5, <1>6, <1>7, <1>8, <1>9 DEF IInv

\* A step that leaves the threads alone: a server settles calls without minting,
\* tokens die, time passes, the policy or the setup changes.
LEMMA Elsewhere ==
    ASSUME IInv, TypeOK', UNCHANGED <<thread, history, lease>>,
           live' \subseteq live, now <= now',
           \A r \in Req :
              \/ remote'[r] = remote[r]
              \/ /\ remote[r] = "sent"
                 /\ remote'[r] \in {"ok", "refused", "garbled", "dropped"}
                 /\ remote'[r] = "ok" => IsDelete(request[r])
    PROVE  IInv'
  <1> USE DEF thread, history
  <1>1. ThreadInv'
    BY DEF IInv, ThreadInv, Manager, Said
  <1>2. CallInv'
    BY DEF IInv, CallInv
  <1>3. LeaseInv'
    <2>1. \A r \in Req : request[r] # None => request[r] \in Request
      BY DEF IInv, TypeOK
    <2>2. \A r \in Req : (remote'[r] = "ok" /\ IsMint(request[r])) => remote[r] = "ok"
      BY <2>1 DEF IsMint, IsDelete
    <2>3. \A c \in Cred : lease[c] # None => lease[c].by \in Req /\ lease[c].at \in Time
      BY DEF IInv, TypeOK, Lease
    <2> QED BY <2>2, <2>3, TimeAssumption DEF IInv, LeaseInv, TypeOK, Time
  <1>4. CredentialInv'
    BY DEF IInv, CredentialInv, HandedOut, Expiry
  <1>5. AuditTrail'
    BY DEF IInv, AuditTrail
  <1>6. GatesBeforeEffects'
    BY DEF IInv, GatesBeforeEffects, Manager
  <1>7. RefusalIsFinal'
    BY DEF IInv, RefusalIsFinal, LeavesOpen
  <1>8. VaultHidden'
    BY DEF IInv, VaultHidden, Manager
  <1> QED BY <1>1, <1>2, <1>3, <1>4, <1>5, <1>6, <1>7, <1>8 DEF IInv

\* A request arrives with what it was given.
LEMMA Arriving ==
    ASSUME IInv, NEW r \in Req, NEW q \in Input, Arrive(r, q)
    PROVE  IInv'
  <1> USE DEF Arrive, Goto, OnlyThread, store, history
  <1>0. q \in Request /\ q # None
    BY InputAssumption, NoneAssumption
  <1>1. TypeOK'
    BY <1>0 DEF IInv, TypeOK, Point, Time
  <1>2. ThreadInv'
    BY <1>0 DEF IInv, TypeOK, ThreadInv, Manager, Said
  <1>3. CallInv'
    BY DEF IInv, TypeOK, CallInv
  <1>4. LeaseInv'
    <2>1. remote[r] = "none"
      BY DEF IInv, CallInv, TypeOK, Call
    <2>2. \A c \in Cred : lease[c] # None => lease[c].by # r /\ lease[c].by \in Req
      BY <2>1 DEF IInv, LeaseInv, TypeOK, Lease, Time
    <2> QED BY <2>1, <2>2 DEF IInv, TypeOK, LeaseInv
  <1>5. CredentialInv'
    BY <1>0 DEF IInv, TypeOK, CredentialInv, ThreadInv, Said, HandedOut, Expiry
  <1>6. AuditTrail'
    BY DEF IInv, TypeOK, AuditTrail
  <1>7. GatesBeforeEffects'
    BY DEF IInv, TypeOK, GatesBeforeEffects, CallInv, Manager
  <1>8. RefusalIsFinal'
    BY DEF IInv, TypeOK, RefusalIsFinal, LeavesOpen
  <1>9. VaultHidden'
    BY DEF IInv, TypeOK, ThreadInv, VaultHidden, Manager
  <1> QED BY <1>1, <1>2, <1>3, <1>4, <1>5, <1>6, <1>7, <1>8, <1>9 DEF IInv

\* The threads of a restarted gateway are gone.
LEMMA Restarting ==
    ASSUME IInv, GatewayRestart
    PROVE  IInv'
  <1> USE DEF GatewayRestart, OnlyThread, store, history
  <1>1. TypeOK'
    BY DEF IInv, TypeOK, Point
  <1>2. ThreadInv'
    BY DEF IInv, TypeOK, ThreadInv, Manager, Said
  <1>3. CallInv'
    BY DEF IInv, TypeOK, CallInv
  <1>4. LeaseInv'
    BY DEF IInv, LeaseInv
  <1>5. CredentialInv'
    BY DEF IInv, CredentialInv, HandedOut, Expiry
  <1>6. AuditTrail'
    BY DEF IInv, TypeOK, AuditTrail
  <1>7. GatesBeforeEffects'
    BY DEF IInv, GatesBeforeEffects, Manager
  <1>8. RefusalIsFinal'
    BY DEF IInv, TypeOK, RefusalIsFinal, LeavesOpen
  <1>9. VaultHidden'
    BY DEF IInv, VaultHidden, Manager
  <1> QED BY <1>1, <1>2, <1>3, <1>4, <1>5, <1>6, <1>7, <1>8, <1>9 DEF IInv

-----------------------------------------------------------------------------
(* The invariant.                                                            *)

LEMMA Initially ==
    Init => IInv
  <1> SUFFICES ASSUME Init PROVE IInv
    OBVIOUS
  <1>1. TypeOK
    BY TimeAssumption, PolicyAssumption
       DEF Init, TypeOK, Point, Code, NoTrail, Gate, Decision, Call, Time
  <1>2. ThreadInv /\ CallInv /\ LeaseInv /\ CredentialInv
    BY DEF Init, ThreadInv, CallInv, LeaseInv, CredentialInv, NoTrail, Said, Gate
  <1>3. AuditTrail /\ GatesBeforeEffects /\ RefusalIsFinal /\ VaultHidden
    BY DEF Init, AuditTrail, GatesBeforeEffects, RefusalIsFinal, VaultHidden
  <1> QED BY <1>1, <1>2, <1>3 DEF IInv

\* The steps of one request's thread.
LEMMA ThreadSteps ==
    ASSUME IInv, NEW r \in Req, Thread(r)
    PROVE  IInv'
  <1> DEFINE q == request[r]
  <1> USE DEF Conclude, Reply, Said
  <1>0. /\ pc[r] # "idle" => q \in Request /\ q # None
        /\ pc[r] \in {"token", "policy", "credential", "view"} => remote[r] = "none"
        /\ audit[r] \in [Gate -> Decision] /\ remote[r] \in Call
    BY DEF IInv, TypeOK, ThreadInv, CallInv
  <1> USE <1>0
  <1>1. CASE BearerMissing(r) \/ TokenRejected(r)
    <2>1. /\ pc[r] = "token" /\ remote[r] = "none"
          /\ Answer(r, "unauthorized") /\ Audit(r, "token", "deny")
          /\ UNCHANGED request /\ OnlyThread
      BY <1>1 DEF BearerMissing, TokenRejected
    <2>2. Explains(audit'[r], q, "unauthorized") /\ audit[r]["token"] = "silent"
      BY <2>1 DEF Explains, Granting, Audit, Gate, IInv, TypeOK, ThreadInv
    <2> QED BY <2>1, <2>2, Answering DEF LeavesOpen, Code, Gate, Decision
  <1>2. CASE TokenVerified(r)
    <2>1. /\ pc[r] = "token" /\ Pass(r, "token", "allow", "policy")
          /\ q.token # None /\ q.token.genuine
          /\ UNCHANGED <<remote, checkedAt, store, rules, orders, now>>
          /\ timely' = timely \cup {r}
      BY <1>2 DEF TokenVerified, Verified, PassToken
    <2>2. Said(audit'[r], "allow", "silent", "silent")
      BY <2>1 DEF Pass, Audit, Gate, IInv, TypeOK, ThreadInv
    <2>3. timely' \subseteq Req
      BY <2>1 DEF IInv, TypeOK
    <2> QED BY <2>1, <2>2, <2>3, Passing
  <1>3. CASE PolicyAllows(r)
    <2>1. IsRead(q) \/ Manager(r)
      BY <1>3, PrivilegedNeedsManager DEF PolicyAllows, Manager, IInv, ThreadInv
    <2>2. /\ pc[r] = "policy" /\ Pass(r, "policy", "allow", AfterPolicy(q)) /\ OnlyThread
          /\ q.token # None /\ q.token.genuine
      BY <1>3 DEF PolicyAllows, IInv, ThreadInv
    <2>3. Said(audit'[r], "allow", "allow", "silent")
      BY <2>2 DEF Pass, Audit, Gate, IInv, TypeOK, ThreadInv
    <2>4. UNCHANGED timely /\ r \in timely /\ timely \subseteq Req
      BY <2>2 DEF OnlyThread, history, IInv, TypeOK, ThreadInv
    <2> QED BY <2>1, <2>2, <2>3, <2>4, Passing DEF AfterPolicy, OnlyThread, history
  <1>4. CASE PolicyDenies(r)
    <2>1. /\ pc[r] = "policy" /\ remote[r] = "none"
          /\ Answer(r, "forbidden") /\ Audit(r, "policy", "deny")
          /\ UNCHANGED request /\ OnlyThread
      BY <1>4 DEF PolicyDenies
    <2>2. Explains(audit'[r], q, "forbidden") /\ audit[r]["policy"] = "silent"
      BY <2>1 DEF Explains, Granting, Audit, Gate, IInv, TypeOK, ThreadInv
    <2> QED BY <2>1, <2>2, Answering DEF LeavesOpen, Code, Gate, Decision
  <1>5. CASE PolicyUnavailable(r)
    <2>1. /\ pc[r] = "policy" /\ remote[r] = "none"
          /\ Answer(r, "policy_unavailable") /\ Audit(r, "policy", "error")
          /\ UNCHANGED request /\ OnlyThread
      BY <1>5 DEF PolicyUnavailable
    <2>2. Explains(audit'[r], q, "policy_unavailable") /\ audit[r]["policy"] = "silent"
      BY <2>1 DEF Explains, Granting, Audit, Gate, IInv, TypeOK, ThreadInv
    <2> QED BY <2>1, <2>2, Answering DEF LeavesOpen, Code, Gate, Decision
  <1>6. CASE CredentialMissing(r)
    <2>1. /\ pc[r] = "credential" /\ remote[r] = "none"
          /\ Answer(r, "vault_credential_required") /\ Audit(r, "credential", "deny")
          /\ UNCHANGED request /\ OnlyThread
      BY <1>6 DEF CredentialMissing
    <2>2. /\ Explains(audit'[r], q, "vault_credential_required") /\ audit[r]["credential"] = "silent"
          /\ Manager(r) /\ r \in timely
      BY <2>1 DEF Explains, Granting, Audit, Gate, IInv, TypeOK, ThreadInv, IsRead, IsDelete
    <2> QED BY <2>1, <2>2, Answering DEF LeavesOpen, Code, Gate, Decision
  <1>7. CASE CredentialInvalid(r)
    <2>1. /\ pc[r] = "credential" /\ remote[r] = "none"
          /\ Answer(r, "vault_credential_invalid") /\ Audit(r, "credential", "deny")
          /\ UNCHANGED request /\ OnlyThread
      BY <1>7 DEF CredentialInvalid
    <2>2. /\ Explains(audit'[r], q, "vault_credential_invalid") /\ audit[r]["credential"] = "silent"
          /\ Manager(r) /\ r \in timely
      BY <2>1 DEF Explains, Granting, Audit, Gate, IInv, TypeOK, ThreadInv, IsRead, IsDelete
    <2> QED BY <2>1, <2>2, Answering DEF LeavesOpen, Code, Gate, Decision
  <1>8. CASE CredentialOutOfScope(r)
    <2>1. /\ pc[r] = "credential" /\ remote[r] = "none"
          /\ Answer(r, "vault_credential_out_of_scope") /\ Audit(r, "credential", "deny")
          /\ UNCHANGED request /\ OnlyThread
      BY <1>8 DEF CredentialOutOfScope
    <2>2. /\ Explains(audit'[r], q, "vault_credential_out_of_scope") /\ audit[r]["credential"] = "silent"
          /\ Manager(r) /\ r \in timely
      BY <2>1 DEF Explains, Granting, Audit, Gate, IInv, TypeOK, ThreadInv, IsRead, IsDelete
    <2> QED BY <2>1, <2>2, Answering DEF LeavesOpen, Code, Gate, Decision
  <1>9. CASE CredentialUnavailable(r)
    <2>1. /\ pc[r] = "credential" /\ remote[r] = "none"
          /\ Answer(r, "vault_unavailable") /\ Audit(r, "credential", "error")
          /\ UNCHANGED request /\ OnlyThread
      BY <1>9 DEF CredentialUnavailable
    <2>2. /\ Explains(audit'[r], q, "vault_unavailable") /\ audit[r]["credential"] = "silent"
          /\ Manager(r) /\ r \in timely
      BY <2>1 DEF Explains, Granting, Audit, Gate, IInv, TypeOK, ThreadInv, IsRead, IsDelete
    <2> QED BY <2>1, <2>2, Answering DEF LeavesOpen, Code, Gate, Decision
  <1>10. CASE CredentialConfirmed(r)
    BY <1>10, Confirming
  <1>11. CASE RouteTest(r)
    <2>1. /\ pc[r] = "view" /\ IsRead(q)
          /\ Answer(r, "ok") /\ UNCHANGED <<request, audit>> /\ OnlyThread
      BY <1>11 DEF RouteTest
    <2>2. Explains(audit'[r], q, "ok") /\ ~IsMint(q)
      BY <2>1, Routes DEF Explains, Granting, IInv, ThreadInv
    <2> QED BY <2>1, <2>2, Answering DEF LeavesOpen, Code
  <1>12. CASE MintSend(r) \/ DeleteSend(r)
    BY <1>12, Sending, Routes DEF MintSend, DeleteSend
  <1>13. CASE MintReply(r)
    <2>1. /\ pc[r] = "waiting" /\ IsMint(q) /\ remote[r] = "ok"
          /\ Answer(r, "ok") /\ Audit(r, "credential", "issue")
          /\ UNCHANGED request /\ OnlyThread
      BY <1>13 DEF MintReply
    <2>2. Explains(audit'[r], q, "ok") /\ audit[r]["credential"] = "silent"
      BY <2>1, Routes DEF Explains, Granting, Audit, Gate, IInv, TypeOK, ThreadInv
    <2> QED BY <2>1, <2>2, Answering DEF LeavesOpen, Code, Gate, Decision
  <1>14. CASE MintUnavailable(r)
    <2>1. /\ pc[r] = "waiting" /\ IsMint(q)
          /\ Answer(r, "vault_unavailable") /\ Audit(r, "credential", "error")
          /\ UNCHANGED request /\ OnlyThread
      BY <1>14 DEF MintUnavailable
    <2>2. /\ Explains(audit'[r], q, "vault_unavailable")
          /\ audit[r]["credential"] = "silent" /\ Manager(r) /\ r \in timely
      BY <2>1, Routes DEF Explains, Granting, Audit, Gate, IInv, TypeOK, ThreadInv
    <2> QED BY <2>1, <2>2, Answering DEF LeavesOpen, Code, Gate, Decision
  <1>15. CASE TokenRaises(r) \/ PolicyRaises(r) \/ CredentialRaises(r)
    <2>1. /\ pc[r] \in {"token", "policy", "credential"} /\ remote[r] = "none"
          /\ Answer(r, "internal_error") /\ UNCHANGED <<request, audit>> /\ OnlyThread
      BY <1>15 DEF TokenRaises, PolicyRaises, CredentialRaises, Raise
    <2>2. Explains(audit'[r], q, "internal_error")
      BY <2>1 DEF Explains, IInv, ThreadInv, IsRead, IsDelete
    <2> QED BY <2>1, <2>2, Answering DEF Code
  <1>16. CASE MintRaises(r)
    <2>1. /\ pc[r] = "waiting" /\ IsMint(q) /\ ~IsRead(q) /\ ~IsDelete(q)
          /\ Answer(r, "internal_error") /\ UNCHANGED request /\ OnlyThread
          /\ UNCHANGED audit \/ Audit(r, "credential", "issue")
      BY <1>16, Routes DEF MintRaises, Raise
    <2>2. Said(audit[r], "allow", "allow", "silent")
      BY <2>1 DEF IInv, ThreadInv
    <2>3. Explains(audit'[r], q, "internal_error")
      BY <2>1, <2>2 DEF Explains, Granting, Audit, Gate, IInv, TypeOK
    <2> QED BY <2>1, <2>2, <2>3, Answering DEF LeavesOpen, Code, Gate, Decision
  <1>17. ASSUME IsDelete(q), NEW code \in {"ok", "bad_request", "not_found", "upstream_error", "internal_error"},
                pc[r] \in {"view", "waiting"}, Reply(r, code), OnlyThread,
                code \notin {"ok", "upstream_error"} => remote[r] \in {"none", "refused"}
         PROVE  IInv'
    <2>1. Explains(audit'[r], q, code) /\ ~IsMint(q)
      BY <1>17, Routes DEF Explains, Granting, IInv, ThreadInv
    <2> QED BY <1>17, <2>1, Answering DEF LeavesOpen, Code
  <1>18. CASE DeleteNoId(r)
    BY <1>17, <1>18 DEF DeleteNoId
  <1>19. CASE DeleteNotAnObject(r)
    BY <1>17, <1>19 DEF DeleteNotAnObject, Raise
  <1>20. CASE DeleteReply(r)
    BY <1>17, <1>20 DEF DeleteReply
  <1>21. CASE DeleteUnavailable(r)
    BY <1>17, <1>21 DEF DeleteUnavailable
  <1> QED
    BY <1>1, <1>2, <1>3, <1>4, <1>5, <1>6, <1>7, <1>8, <1>9, <1>10, <1>11, <1>12,
       <1>13, <1>14, <1>15, <1>16, <1>18, <1>19, <1>20, <1>21 DEF Thread

\* The steps of Vault and orders for one request.
LEMMA ServerSteps ==
    ASSUME IInv, NEW r \in Req, Server(r)
    PROVE  IInv'
  <1> USE DEF Served, thread, history
  <1>1. CASE \E c \in Cred : VaultLogin(r, c)
    BY <1>1, LoggingIn
  <1>2. CASE VaultLoginRefused(r)
    <2>1. TypeOK'
      BY <1>2 DEF VaultLoginRefused, IInv, TypeOK, Call
    <2> QED BY <1>2, <2>1, Elsewhere, TimeAssumption DEF VaultLoginRefused, IInv, TypeOK, Time
  <1>3. CASE OrdersDelete(r)
    <2>1. TypeOK'
      BY <1>3 DEF OrdersDelete, IInv, TypeOK, Call
    <2> QED BY <1>3, <2>1, Elsewhere, TimeAssumption DEF OrdersDelete, IInv, TypeOK, Time
  <1>4. CASE OrdersNotFound(r) \/ OrdersNoRoute(r)
    <2>1. TypeOK'
      BY <1>4 DEF OrdersNotFound, OrdersNoRoute, IInv, TypeOK, Call
    <2> QED
      BY <1>4, <2>1, Elsewhere, TimeAssumption
         DEF OrdersNotFound, OrdersNoRoute, IInv, TypeOK, Time
  <1> QED BY <1>1, <1>2, <1>3, <1>4 DEF Server

LEMMA EnvironmentSteps ==
    ASSUME IInv, Environment
    PROVE  IInv'
  <1> USE DEF UnchangedThreads, store, history
  <1>1. CASE \E r \in Req, q \in Input : Arrive(r, q)
    BY <1>1, Arriving
  <1>2. CASE GatewayRestart
    BY <1>2, Restarting
  <1>3. CASE Tick
    <2>1. TypeOK'
      BY <1>3, TimeAssumption DEF Tick, thread, IInv, TypeOK, Time
    <2> QED BY <1>3, <2>1, Elsewhere, TimeAssumption DEF Tick, IInv, TypeOK, Time
  <1>4. CASE EditPolicy
    <2>1. TypeOK'
      BY <1>4, PolicyAssumption DEF EditPolicy, thread, IInv, TypeOK
    <2> QED BY <1>4, <2>1, Elsewhere, TimeAssumption DEF EditPolicy, IInv, TypeOK, Time
  <1>5. CASE VaultSetup
    <2>1. TypeOK'
      BY <1>5 DEF VaultSetup, thread, IInv, TypeOK
    <2> QED BY <1>5, <2>1, Elsewhere, TimeAssumption DEF VaultSetup, IInv, TypeOK, Time
  <1>6. CASE \E c \in Cred : Revoke(c)
    <2>1. TypeOK'
      BY <1>6 DEF Revoke, thread, IInv, TypeOK
    <2> QED BY <1>6, <2>1, Elsewhere, TimeAssumption DEF Revoke, IInv, TypeOK, Time
  <1>7. CASE VaultRestart
    <2>1. TypeOK'
      BY <1>7 DEF VaultRestart, Drop, thread, IInv, TypeOK, Call
    <2> QED
      BY <1>7, <2>1, Elsewhere, TimeAssumption
         DEF VaultRestart, Drop, MintCalls, IInv, TypeOK, Time
  <1>8. CASE OrdersRestart
    <2>1. TypeOK'
      BY <1>8 DEF OrdersRestart, Drop, thread, IInv, TypeOK, Call
    <2> QED
      BY <1>8, <2>1, Elsewhere, TimeAssumption
         DEF OrdersRestart, Drop, DeleteCalls, IInv, TypeOK, Time
  <1> QED
    BY <1>1, <1>2, <1>3, <1>4, <1>5, <1>6, <1>7, <1>8 DEF Environment

\* IInv holds in every reachable state.
THEOREM Invariance ==
    Spec => []IInv
  <1>1. ASSUME IInv, [Next]_vars
        PROVE  IInv'
    <2>1. CASE Next
      BY <1>1, <2>1, ThreadSteps, ServerSteps, EnvironmentSteps DEF Next
    <2>2. CASE UNCHANGED vars
      <3>1. TypeOK'
        BY <1>1, <2>2 DEF vars, IInv, TypeOK
      <3> QED BY <1>1, <2>2, <3>1, Elsewhere, TimeAssumption DEF vars, thread, history, IInv, TypeOK, Time
    <2> QED BY <1>1, <2>1, <2>2
  <1> QED BY Initially, <1>1, PTL DEF Spec

-----------------------------------------------------------------------------
(* The promises.                                                             *)

\* The variables keep their types.
THEOREM TypeCorrect ==
    Spec => []TypeOK
  BY Invariance, PTL DEF IInv

\* Each answer has exactly its audit lines, and the 500 of an uncaught exception
\* those of the gates before it (audit, and where it is called).
THEOREM AnswersAreExplained ==
    Spec => []AuditTrail
  BY Invariance, PTL DEF IInv

\* No call to Vault or orders without a manager's token and every gate's yes.
THEOREM EffectsAreGated ==
    Spec => []GatesBeforeEffects
  BY Invariance, PTL DEF IInv

\* A refusal has no effect, then or later (the early returns of the wrappers).
THEOREM RefusalsAreFinal ==
    Spec => []RefusalIsFinal
  BY Invariance, PTL DEF IInv

\* Only managers, with tokens verified in their time, learn of Vault (the order of
\* the two decorators).
THEOREM VaultStaysHidden ==
    Spec => []VaultHidden
  BY Invariance, PTL DEF IInv

\* A delete is asked of orders only with a credential a manager was given and
\* Vault confirmed inside its TTL (require_vault_credential, the mint route).
THEOREM DeletionsAreJustified ==
    Spec => []DeletionJustified
  <1>1. IInv => DeletionJustified
    <2> SUFFICES ASSUME IInv, NEW r \in Req, remote[r] # "none", IsDelete(request[r])
                 PROVE  \E m \in Req :
                          /\ m # r /\ Manager(m) /\ IsMint(request[m])
                          /\ resp[m] = "ok" /\ audit[m]["credential"] = "issue"
                          /\ LET c == request[r].credential IN
                             /\ c \in Cred
                             /\ lease[c].by = m
                             /\ lease[c].at <= checkedAt[r] /\ checkedAt[r] < Expiry(c)
      BY DEF DeletionJustified
    <2> DEFINE c == request[r].credential
               m == lease[c].by
    <2>1. request[r] # None /\ request[r] \in Request
      BY DEF IInv, CallInv, ThreadInv, TypeOK
    <2>2. c \in Cred /\ lease[c].at <= checkedAt[r] /\ checkedAt[r] < Expiry(c) /\ HandedOut(c)
      BY <2>1 DEF IInv, GatesBeforeEffects, CredentialInv
    <2>3. m \in Req /\ resp[m] = "ok" /\ IsMint(request[m]) /\ remote[m] = "ok"
      BY <2>2 DEF HandedOut, IInv, LeaseInv, TypeOK, Lease
    <2>4. pc[m] = "done" /\ request[m] \in Request /\ Manager(m)
      BY <2>3 DEF IInv, ThreadInv, GatesBeforeEffects, TypeOK
    <2>5. audit[m]["credential"] = "issue"
      BY <2>3, <2>4, Routes DEF IInv, AuditTrail, Explains, Granting, Said
    <2>6. m # r
      BY <2>1, <2>3, Routes
    <2> QED BY <2>2, <2>3, <2>4, <2>5, <2>6
  <1> QED BY Invariance, <1>1, PTL

\* Each successful mint has one token of its own, and none has two.
THEOREM CredentialsAreNotShared ==
    Spec => []OneCredentialEach
  <1>1. IInv => OneCredentialEach
    <2> SUFFICES ASSUME IInv, NEW r \in Req, resp[r] = "ok", IsMint(request[r])
                 PROVE  \E c \in Cred :
                          /\ lease[c] # None /\ lease[c].by = r
                          /\ \A d \in Cred \ {c} : lease[d] = None \/ lease[d].by # r
      BY DEF OneCredentialEach
    <2>1. remote[r] = "ok"
      BY DEF IInv, ThreadInv, CallInv
    <2>2. PICK c \in Cred : lease[c] # None /\ lease[c].by = r
      BY <2>1 DEF IInv, LeaseInv
    <2>3. \A d \in Cred \ {c} : lease[d] = None \/ lease[d].by # r
      BY <2>2 DEF IInv, LeaseInv
    <2> QED BY <2>2, <2>3
  <1> QED BY Invariance, <1>1, PTL

\* No audit line and no answer is ever replaced.
THEOREM DecisionsAreSaidOnce ==
    Spec => SaidOnce
  <1> DEFINE Kept(r) ==
        /\ \A gate \in Gate : audit[r][gate] # "silent" => audit'[r][gate] = audit[r][gate]
        /\ resp[r] # "none" => resp'[r] = resp[r]
  <1>1. ASSUME IInv, NEW r \in Req, Thread(r)
        PROVE  \A p \in Req : Kept(p)
    <2> USE DEF Conclude, Reply, Pass, Answer, Audit, Send, Said, Gate, IInv, TypeOK, ThreadInv
    <2>1. CASE BearerMissing(r) \/ TokenRejected(r) \/ TokenVerified(r)
      BY <1>1, <2>1 DEF BearerMissing, TokenRejected, TokenVerified, PassToken
    <2>2. CASE PolicyAllows(r) \/ PolicyDenies(r) \/ PolicyUnavailable(r)
      BY <1>1, <2>2 DEF PolicyAllows, PolicyDenies, PolicyUnavailable
    <2>3. CASE \/ CredentialMissing(r) \/ CredentialInvalid(r) \/ CredentialOutOfScope(r)
               \/ CredentialConfirmed(r) \/ CredentialUnavailable(r)
      BY <1>1, <2>3 DEF CredentialMissing, CredentialInvalid, CredentialOutOfScope,
                        CredentialConfirmed, CredentialUnavailable
    <2>4. CASE RouteTest(r) \/ DeleteNoId(r) \/ DeleteNotAnObject(r)
               \/ DeleteReply(r) \/ DeleteUnavailable(r)
      BY <1>1, <2>4 DEF RouteTest, DeleteNoId, DeleteNotAnObject, DeleteReply,
                        DeleteUnavailable, Raise
    <2>5. CASE MintSend(r) \/ DeleteSend(r)
      BY <1>1, <2>5 DEF MintSend, DeleteSend
    <2>6. CASE MintReply(r) \/ MintUnavailable(r) \/ MintRaises(r)
      <3>1. ~IsDelete(request[r]) /\ pc[r] = "waiting"
        BY <2>6 DEF MintReply, MintUnavailable, MintRaises, IsMint, IsDelete
      <3>2. audit[r]["credential"] = "silent" /\ resp[r] = "none"
        BY <1>1, <3>1
      <3> QED BY <1>1, <2>6, <3>2 DEF MintReply, MintUnavailable, MintRaises, Raise
    <2>7. CASE TokenRaises(r) \/ PolicyRaises(r) \/ CredentialRaises(r)
      BY <1>1, <2>7 DEF TokenRaises, PolicyRaises, CredentialRaises, Raise
    <2> QED BY <1>1, <2>1, <2>2, <2>3, <2>4, <2>5, <2>6, <2>7 DEF Thread
  <1>2. ASSUME IInv, NEW r \in Req, Server(r)
        PROVE  UNCHANGED <<audit, resp>>
    BY <1>2 DEF Server, VaultLogin, VaultLoginRefused, OrdersDelete, OrdersNotFound,
                OrdersNoRoute, Served, thread
  <1>3. ASSUME Environment
        PROVE  UNCHANGED <<audit, resp>>
    BY <1>3 DEF Environment, Arrive, Tick, EditPolicy, VaultSetup, VaultRestart, Revoke,
                OrdersRestart, GatewayRestart, UnchangedThreads, thread
  <1>4. ASSUME IInv, [Next]_vars
        PROVE  [\A r \in Req : Kept(r)]_vars
    BY <1>1, <1>2, <1>3, <1>4 DEF Next
  <1> QED BY Invariance, <1>4, PTL DEF Spec, SaidOnce

\* How far a request has come in the stack of its route.
Position(point) ==
    CASE point = "idle" -> 0 [] point = "token" -> 1 [] point = "policy" -> 2
      [] point = "credential" -> 3 [] point = "view" -> 4 [] point = "waiting" -> 5
      [] point \in {"done", "lost"} -> 6

\* No gate is passed twice: nothing takes a request back, and whatever its
\* thread does takes it on.
Advances ==
    \A r \in Req :
        /\ Position(pc[r]) <= Position(pc'[r])
        /\ Thread(r) => Position(pc[r]) < Position(pc'[r])

\* The points in their order.
LEMMA Positions ==
    /\ Position("idle") = 0 /\ Position("token") = 1 /\ Position("policy") = 2
    /\ Position("credential") = 3 /\ Position("view") = 4 /\ Position("waiting") = 5
    /\ Position("done") = 6 /\ Position("lost") = 6
    /\ \A point \in Point : Position(point) \in 0..6
  BY DEF Position, Point

\* A thread is taken on by each of its steps, and its steps leave the others
\* where they are.
LEMMA ThreadAdvances ==
    ASSUME TypeOK, NEW r \in Req, Thread(r)
    PROVE  \E point \in Point :
               /\ pc' = [pc EXCEPT ![r] = point]
               /\ Position(pc[r]) < Position(point)
  <1> USE DEF Conclude, Reply, Pass, Answer, Send, Goto, Point
  <1>1. CASE BearerMissing(r) \/ TokenRejected(r) \/ TokenVerified(r)
    BY <1>1, Positions DEF BearerMissing, TokenRejected, TokenVerified, PassToken
  <1>2. CASE PolicyAllows(r) \/ PolicyDenies(r) \/ PolicyUnavailable(r)
    BY <1>2, Positions DEF PolicyAllows, PolicyDenies, PolicyUnavailable, AfterPolicy
  <1>3. CASE \/ CredentialMissing(r) \/ CredentialInvalid(r) \/ CredentialOutOfScope(r)
             \/ CredentialConfirmed(r) \/ CredentialUnavailable(r)
    BY <1>3, Positions DEF CredentialMissing, CredentialInvalid, CredentialOutOfScope,
                           CredentialConfirmed, CredentialUnavailable
  <1>4. CASE \/ RouteTest(r) \/ DeleteNoId(r) \/ DeleteNotAnObject(r)
             \/ DeleteReply(r) \/ DeleteUnavailable(r)
    BY <1>4, Positions DEF RouteTest, DeleteNoId, DeleteNotAnObject, DeleteReply,
                           DeleteUnavailable, Raise
  <1>5. CASE MintSend(r) \/ DeleteSend(r) \/ MintReply(r) \/ MintUnavailable(r)
    BY <1>5, Positions DEF MintSend, DeleteSend, MintReply, MintUnavailable
  <1>6. CASE TokenRaises(r) \/ PolicyRaises(r) \/ CredentialRaises(r) \/ MintRaises(r)
    BY <1>6, Positions DEF TokenRaises, PolicyRaises, CredentialRaises, MintRaises, Raise
  <1> QED BY <1>1, <1>2, <1>3, <1>4, <1>5, <1>6 DEF Thread

\* There is no retry and no loop in the stack, so a request takes six steps at
\* most: the part of EventuallyAnswered that is not about fairness.
THEOREM ThreadsAdvance ==
    Spec => [][Advances]_vars
  <1>1. ASSUME TypeOK, NEW r \in Req, pc' = pc
        PROVE  Position(pc[r]) <= Position(pc'[r])
    BY <1>1, Positions DEF TypeOK
  <1>2. ASSUME TypeOK, NEW r \in Req, Thread(r)
        PROVE  /\ \A p \in Req : Position(pc[p]) <= Position(pc'[p])
               /\ Position(pc[r]) < Position(pc'[r])
    BY <1>2, ThreadAdvances, Positions DEF TypeOK
  <1>3. ASSUME TypeOK, NEW r \in Req, Server(r)
        PROVE  pc' = pc
    BY <1>3 DEF Server, VaultLogin, VaultLoginRefused, OrdersDelete, OrdersNotFound,
                OrdersNoRoute, Served, thread
  <1>4. ASSUME TypeOK, Environment
        PROVE  \A p \in Req : Position(pc[p]) <= Position(pc'[p])
    <2>1. CASE \E r \in Req, q \in Input : Arrive(r, q)
      BY <1>4, <2>1, Positions DEF Arrive, Goto, TypeOK
    <2>2. CASE GatewayRestart
      BY <1>4, <2>2, Positions DEF GatewayRestart, TypeOK
    <2>3. CASE /\ ~\E r \in Req, q \in Input : Arrive(r, q)
               /\ ~GatewayRestart
      <3>1. pc' = pc
        BY <1>4, <2>3 DEF Environment, Tick, EditPolicy, VaultSetup, VaultRestart, Revoke,
                          OrdersRestart, UnchangedThreads, thread
      <3> QED BY <1>1, <1>4, <3>1
    <2> QED BY <2>1, <2>2, <2>3
  <1>5. ASSUME TypeOK, [Next]_vars
        PROVE  [Advances]_vars
    BY <1>1, <1>2, <1>3, <1>4, <1>5 DEF Next, Advances
  <1> QED BY TypeCorrect, <1>5, PTL DEF Spec
=============================================================================
