# Verification of zerotrust-lab in TLA+

TLA+ modules that model the lab's own code, TLC configurations that check them
on small instances, and TLAPS proofs, for every instance, of the safety and action
properties of every component and of the two refinements; of the liveness properties
the part that is not about fairness is proved. Paths such as `gateway/app.py:47` are relative to the
repository's root (`src/`).

## The system

| Part | Code | State it keeps | Operations | Talks to |
| --- | --- | --- | --- | --- |
| gateway (policy enforcement point) | `gateway/app.py` | none across requests but a JWK-set cache; each request is a thread | `GET /route-test`, `GET /admin/mint-delete-credential`, `POST /orders/delete`, `/health`; the decorators `require_token_and_policy` and `require_vault_credential`; an audit line per gate | Keycloak (keys), OPA (decision), Vault (mint, look up), orders, inventory |
| authorization policy | `policies/authz.rego`, served by OPA with `--watch` | the loaded rules | three `allow` rules over a default deny | asked by the gateway |
| just-in-time credentials | `vault/setup.sh` in the one-shot `vault-init`; Vault itself in dev mode | policy, AppRole mount, role, role_id, secret_id, live tokens: all in memory | seven commands under `set -e`; login, lookup-self, expiry after 20 s | gateway, `docker-compose.yml` (start order) |
| orders | `orders/app.py` | the list `ORDERS`, in memory, no lock | list, delete | called by the gateway over mTLS |
| inventory | `inventory/app.py` | a constant | list | called by the gateway |
| realm provisioning | `keycloak-setup.py` | nothing; the realm is in Keycloak's volume | import the realm, then look up and create or reconcile roles, clients, SAML clients and mappers, users, passwords, role mappings; print the client secret | Keycloak's admin API |
| SAML apps | `mock-docs/app.py`, `mock-dashboard/app.py` (the same program twice) | a session cookie; a cached IdP certificate | login, assertion consumer, logout | Keycloak, browser |
| certificates | `certs/generate.sh` | key and certificate files | make the CA and three service certificates, keep what exists, `--force` | mounted into gateway, orders, inventory |
| smoke test | `verify.sh` | nothing | calls the running stack; restarts orders to reseed it | everything |

What is hard in it:

- *Interleaving.* Flask gives every request a thread. Threads share `ORDERS`
  and the JWK-set cache without a lock of the program's own; two runs of
  `keycloak-setup.py` may overlap, and the script says it expects that.
- *Late effects.* The gateway gives up on a call after `TIMEOUT`, and the
  service called may carry it out afterwards.
- *Time and staleness.* Tokens, Vault credentials and cached keys are checked at
  one moment and relied on at another.
- *Failure in the middle.* OPA, Vault, Keycloak or orders may be down, slow or
  answer nonsense between any two gates; Vault and orders forget everything on a
  restart; a provisioning script may die after any call and be run again.
- *One browser, two apps.* The SAML apps share the cookie jar of a host, keep no
  state between the redirect to Keycloak and the assertion, and cache a
  certificate of a realm that may be replaced.
- *Files read at different times.* A TLS context holds what was on disk when the
  container started, while the gateway's client side reads the files again for
  every connection.

`PROJECT.json` lists each hazard at its line with the properties about it.

## Modules

### Gateway (with Authz)

`Gateway.tla` is the core. A request `r` is a process; `pc[r]` is where its
thread is in the decorator stack (`token`, `policy`, `credential`, `view`,
`waiting`), `resp[r]` the `error` code of its answer, `audit[r]` the decision
each gate has logged for it, `remote[r]` the fate of the one call it may make
that changes state elsewhere. `lease`, `live` and `setup` are Vault, `rules` is
what OPA has loaded, `orders` the orders service, `now` the clock.

There is one action per way out of a gate, in the order of the code's early
returns; an action does all the code does up to its `return` or to the next call
of another service (audit line, answer, next gate). Not every failure is caught: a
service that answers JSON of another shape than its own raises outside the `try`
(`gateway/app.py:130`, `257`, `284-302`, and at 149-166 what the two `except` clauses
do not name), and Flask answers 500 with no line of that gate. These are the actions
`TokenRaises`, `PolicyRaises`, `CredentialRaises` and `MintRaises`, enabled at any
call, as the refusals are: a token, a decision or a credential may be refused whatever
it is, while a yes is what the service would truly say. A mint or a delete is sent,
served and answered in three steps, so that a timeout (`MintUnavailable`,
`DeleteUnavailable`) can come before, between or after them. Calls that only
read (JWKS, OPA, lookup-self) are atomic with the use of their answer, because
nothing that happens between the answer and the next step of the thread can be
told from its having happened after that step. `Authz.tla` is the three rules of
`authz.rego`; `loaded` is the part of the policy that is loaded, since OPA
watches the directory.

History variables: `checkedAt` (when a credential was confirmed) and `timely` (whose
token was in its time when the token gate let it through, whatever the gate looked
at); `lease` is never erased and so remembers tokens that have expired.

Environment: the clock, policy edits, reruns of `setup.sh`, restarts of Vault,
orders and the gateway, revocation. A request may present a Vault token only if
it was handed out by a successful answer (or the root token, or garbage);
unguessability of tokens is Vault's.

`JitAccess.tla` is what all this amounts to for the lab's main promise, without
threads, calls or clocks: managers, credentials issued and handed out, and grants,
each for one order, given once and worth one deletion. `Gateway!Jit` is the
refinement mapping, and `JustInTime` says that every step of `Gateway` is one of
`JitAccess` or none: a login is `Issue`, its answer `HandOut`, Vault's confirmation
`Grant`, the service's delete `Use`; timeouts, refusals and restarts only let
grants lapse.

### TokenGate

The first gate from the inside. All request threads share PyJWT's cached key set
(`cache_jwk_set=True, lifespan=300`); a lookup hits, fetches for an unknown kid,
or fetches because the set is too old, and the answer may be stored late, over a
newer one. Keycloak rotates and withdraws keys meanwhile. The library and
Keycloak are external. A failed fetch keeps or drops the cached set, since
versions of PyJWT differ. Fetches fail here with the exceptions the gateway catches;
those it does not are `Gateway!TokenRaises`.

### Orders, refining AbstractOrders

`Orders.tla` is `delete_order` at the granularity at which CPython 3.12 (the
image of `orders/Dockerfile`) lets another thread run: on the back edge of a loop and when a
call returns. The iterator holds a position, so a pop elsewhere shifts what it
sees. `AbstractOrders.tla` is what callers may rely on: deletes take effect in
one instant, and a 404 is only conclusive for a request that no other delete
disturbed. `Orders!DeletesAtomically` is the refinement. `Gateway!OrdersNotFound`
uses exactly that weak promise. `told` is a history of the list: the orders that have
been answered as deleted since the process started. With it `NeverTwice` says that
none is lost either. `GET /orders` reads the list and changes nothing;
it is not an action.

### VaultInit

`vault/setup.sh` one command per step. A command is accepted, refused by Vault,
or lost (with or without its effect); `set -e` and the two `|| true` decide what
follows. Vault may restart, empty, between any two commands, the container may be
stopped and started again, and compose starts the gateway when it has exited with
0. `SummarisedByGateway` relates it to `Gateway`: seen through what the gateway
needs (the policy; the whole AppRole), each step is `Gateway`'s `VaultSetup`,
`VaultRestart` or nothing.

### KeycloakSetup

`keycloak-setup.py` as a table of stages in the order of `main()`, each of one of
six kinds, with every HTTP call a step. Between two calls a run may die (`Fail`
stands for a refused connection, a timeout, an expired admin token, an interrupt),
another run may work, and somebody may delete, misconfigure or promote something by
hand. A fatal 409 ends a run as `beaten`. Keycloak's side is reduced to which
objects exist (`has`), which of them have wrong settings (`broken`), the gateway client's
secret, and whether somebody has made it a public client (`public`). `sawPublic` is
the part of main()'s `client` variable that matters later: the runs whose
representation of it says `publicClient`, which print no secret (552-553). `HangsOn(r)` is what the next call of a run needs to be there: without it a
look, a POST or a PUT is answered 404, and a read-back comes back empty; either is
fatal. It is the guard of the calls, and what `NeverStuck` is about. Objects have no
ids: a run whose looked-up id was deleted and recreated meanwhile may succeed in the
model where Keycloak answers 404, which adds behaviours and takes none away. What the script repairs and what it does not are kept apart: a role, a mapper or a role
mapping that is there by name is passed over (`List`), so a mapper that somebody
misconfigured stays so through every rerun, and `Provisioned` says exactly that; clients,
users, passwords and `role_list` are put back. The realm's own settings (`enabled`,
token lifespans) the script never looks at after the import, and they are not in `has`.
Two mappers stand for four. `ensure_client_roles` returns at once, since the export has
no roles for the client; the wait for Keycloak is before `Start`. The admin token's
clock is not there either: a call that outlasts the token is one more way to `Fail`.

### SsoDemo, composed of two SamlSp

`SamlSp.tla` is one app, `mock-docs/app.py`, with the browser tab that visits it;
`mock-dashboard/app.py` is the same program under other names. `tab.at` is the
route the tab is about to request (`index`, `login`, `acs`, or Keycloak's `sso`) or
where it has come to rest; one action is one request with its answer. `cert` is
`_idp_cert_cache`. `SsoDemo.tla` takes two instances, gives them one cookie jar and
one realm, and adds what happens to the realm: it stops, returns, is imported anew
with another key, gets its `role_list` repaired by `keycloak-setup.py`, loses its
session.

A cookie belongs to a host name and not to a port, so the jar is keyed by host and
cookie name, and a session counts only if the app's own key signed it. A visitor may
come by `127.0.0.1` while `SP_BASE_URL` says `localhost`: the assertion consumer
always answers on the latter. A reload or "back" posts the last response again
(`PostAgain`). `known` is a history: whom Keycloak has asserted to this app. Of an
assertion the model keeps what `process_response` can reject it for here: the key
that signed it and whether `Role` occurs more than once. Left out: `display_name`,
the fields of `prepare_request`, the lifetime of an assertion, RelayState that
somebody else made up (`Landing` treats every address but the app's own alike).

### Certs

`certs/generate.sh`, command by command, over the files of the CA and the three
services. A key is named by the run that made it. A run checks, makes the key, makes
the certificate, target by target, and may be stopped anywhere (`Stop`); `-f` is
content with a key file that `genrsa` had opened and not yet written. Certificates
are written whole. `loaded[s]` is what a container's TLS context read when it
started; `Handshake` is the gateway's connection to it, with the gateway's own files
as they are on disk at that moment (`gateway/app.py:75-78`). Expiry of the
certificates after 365 days is not modelled.

## Runs

| Run | Checks | Instance |
| --- | --- | --- |
| `gateway_gates` | `TypeOK`, `AuditTrail`, `GatesBeforeEffects`, `VaultHidden`, `RefusalIsFinal`, `EventuallyAnswered` | two requests out of 18 kinds (no, user's and manager's token; expired and forged ones at the mint and at the delete; no, garbage, root and minted credential; every kind of body), two policies (all of it, and without the mint rule), one tick, fair threads |
| `gateway_spend` | `DeletionJustified`, `OneCredentialEach`, `SaidOnce`, `JustInTime` | three manager requests, two Vault tokens, TTL 2, clock to 3: mint twice and spend, or mint once and spend twice, before, at and after expiry |
| `orders_concurrent` | `TypeOK`, `NeverTwice`, `RemainingNeverOvercounts`, `DeletesAtomically` | three threads, the three seeded orders, an unknown id |
| `orders_notfound` | `NotFoundMeansAbsent`, violated | two threads |
| `tokengate_cache` | `TypeOK`, `WithdrawnKeyDies`, `RotationPickedUp` | two threads, two keys, lifespan 2, fetch 1, clock to 4: a set can be fetched, go stale and be replaced by an older answer |
| `keycloak_runs` | `TypeOK`, `Provisioned`, `NeverStuck`, `PrintedSecretIsCurrent`, `NotAllBeaten`, `NothingUndone` | two runs, two changes by hand, three secrets |
| `keycloak_secret_doc` | `PrintedSecretWorks`, violated | two runs, nothing by hand |
| `vaultinit_restarts` | `TypeOK`, `StartedMeansUsable`, `RerunDisturbsOnlyLogin`, `SummarisedByGateway`, `RerunRepairs` | any number of runs, two restarts of Vault |
| `sso` | `TypeOK`, `PageMeansAsserted`, `SessionsIndependent`, `NoLoop`, `SilentSignOn` | one user, two apps, one re-import of the realm |
| `sso_import_doc` | `SurvivesImport`, violated | as above |
| `certs_runs` | `TypeOK`, `EndMeansSound`, `RestartSuffices`, `PlainRunHarmless` | four runs, plain or forced, each stopped anywhere or not |
| `certs_rerun_doc` | `RerunIsSafe`, violated | three runs |

Bounds. Requests in `Gateway` interact only through Vault's store, the orders and a
handed-out token, so two requests cover each pair of steps and three cover mint,
mint, spend; the properties are proved for any number. The clock reaches the TTL in
every run and one more in `gateway_spend`, so that a token can also be minted late
and still expire. `MaxSecret` allows one secret for the import and one for each
recreation of the client. Restarts need no bound in `Gateway` (they leave no count);
`MaxRestart` bounds them in `VaultInit`, where two are enough to empty Vault twice
within one run. In `SsoDemo` a second user would meet the same redirects (that
`PageMeansAsserted` holds is proved for any users), and one re-import is enough to make a cached certificate old. In `Certs` the worst case takes three runs
(one that ends, a forced one that is stopped, a plain one); the fourth is the
repair, and what the run checks is proved for any number. Symmetry is used in runs
of invariants and action properties only, over requests, threads, runs, keys and
tokens that the specifications treat alike. Deadlock is checked except in
`KeycloakSetup`, where all runs may have ended.

Fairness. `EventuallyAnswered` assumes weak fairness of each request's thread and
nothing of OPA, Vault or orders. The code justifies it: every `requests` call and
the JWKS fetch has `timeout=TIMEOUT` (`gateway/app.py:93, 121, 250, 272, 378,
441`), so in the model an answer "unavailable" is always enabled at a call. (The
timeout of `requests` is per socket operation: a peer that trickles bytes can
stretch a call, which the model does not show.) `RerunRepairs` assumes of whoever
runs the lab that the container is started again after it ended, which
`setup.sh:5-7` says compose does on every `up`, that a running script gets on
with its next command, and that trouble ends at some point. It promises nothing
without those. `NoLoop` and `SilentSignOn` assume that a browser follows a redirect
it got and that the apps answer, with an error at worst: both are weak fairness of
`Follow`, the requests that nobody has to decide on. Nothing is assumed of visitors
or of Keycloak, which may be down for ever.

### What the violated properties show

Each states what the repository says of the program, and TLC shows a behaviour of
the code that contradicts it.

- `NotFoundMeansAbsent`: `orders/app.py:50` says "no order <id>" of an order that
  is in the list, when a concurrent delete popped an earlier one during the scan.
- `PrintedSecretWorks`: two overlapping first runs of `keycloak-setup.py` both
  regenerate the masked secret, and one prints a secret that is dead already. The
  passing `PrintedSecretIsCurrent` shows that a run on its own never does.
- `SurvivesImport`: an app that has fetched a certificate never fetches another, so
  after the realm is imported anew it answers every assertion with 401 until its
  container is restarted, although `SETUP.md:498-502` gives the re-import as the
  reason why the certificate is fetched at runtime and not "baked into the image".
- `RerunIsSafe`: a forced run that is stopped after its new CA leaves certificates of
  the old one, and the plain run after it keeps them and says "done"
  (`generate.sh:13-14, 45`). `EndMeansSound` shows that nothing else goes wrong, and
  that a forced run that ends repairs it.

Seen while modelling and not runs of their own. `setup.sh:63` says that the role is
ready although the policy is missing, when Vault restarted between lines 24 and 34
(`StartedMeansUsable` has the condition `whole` for this); so the
`service_completed_successfully` gate of `docker-compose.yml:35` is about the
script's exit and not about Vault's state, which `ZERO_TRUST_MAPPING.md:284-286`
takes it for. `vault_unavailable` is also the answer to a login that Vault refused,
and `unauthorized` also the answer to a good token whose key could not be fetched,
other than `SETUP.md:382, 388` have it. `ensure_realm_role_mapping` only
adds, so a role given by hand is not taken back, and `ensure_protocol_mappers` only
looks at names (388-391), so a misconfigured mapper stays, although
`keycloak-setup.py:4-5` says that "everything else is reconciled in place"; a missing
`role_list` scope is skipped, so `Provisioned` does not ask for it. The 500 of an
exception that nobody catches (`gateway/app.py:130`, `257`, `284-302`) leaves no line of
the gate it was raised in, although `gateway/app.py:28-31` and `ZERO_TRUST_MAPPING.md:419-420` speak of a
line per gate; `AuditTrail` says how much can then still be reconstructed.

## Proofs

`GatewayProofs.tla` proves, for every set of requests, tokens, credentials and
orders, every policy, TTL and clock bound:

- `Invariance`: `Spec => []IInv`, from which `TypeCorrect`, `AnswersAreExplained`,
  `EffectsAreGated`, `RefusalsAreFinal`, `VaultStaysHidden`,
  `DeletionsAreJustified` and `CredentialsAreNotShared` follow;
- `DecisionsAreSaidOnce`: the action property `SaidOnce`, from the same invariant;
- `ThreadsAdvance`: each step of a thread takes its request strictly further in the
  stack, and nothing takes it back.

`GatewayRefinement.tla` proves `ImplementsJitAccess`: `Spec => JustInTime`.

`CertsProofs.tla` proves, for any number of runs, `Invariance`, `TypeCorrect`,
`EndsSound`, `RestartsSuffice` and the action property `PlainRunsAreHarmless`.

`OrdersProofs.tla` proves, for any literal without duplicates and any number of
threads, `Invariance`, `TypeCorrect`, `DeletedOnce`, `CountsAreSafe` and
`ImplementsAbstractOrders` (`Spec => DeletesAtomically`).

`TokenGateProofs.tla` proves, for any threads, keys and tokens, lifespan and
timeout, `Invariance`, `TypeCorrect`, `WithdrawnKeysDie` and `RotationsArePickedUp`.

`VaultInitProofs.tla` proves, for any number of restarts of Vault, `Invariance`,
`TypeCorrect`, the action properties `StartsUsable`, `RerunsDisturbOnlyLogin`
and `GatewaySummaryIsFaithful`, and `UntroubledRunsGetThrough`.

`KeycloakSetupProofs.tla` proves, for any runs, changes by hand and secrets,
`Invariance`, `TypeCorrect`, `AllIsProvisioned`, `PrintedSecretStays`,
`SomeRunSurvives`, `NoCallIsRefused`, the action property `NothingIsUndone`, and
`RunsGetAhead`.

`SsoDemoProofs.tla` proves, for any users and any number of imports, `Invariance`,
`TypeCorrect`, `PagesAreAsserted`, the action property `SessionsAreIndependent`, and
`TabsApproachRest` and `SignOnStaysSilent`.

Assumed are only the named ASSUMEs of the modules proved about. `Gateway`: the
special values differ from real ones, inputs are requests, policies are sets of
rules, times are natural numbers and a TTL is not zero. `Certs`: no file is not a
file. `Orders`: the literal names no order twice. `TokenGate`: times are natural
numbers and a fetch takes some. `KeycloakSetup`: the bounds are natural numbers and
there is a run (of no runs at all, "not all are beaten" is false). `VaultInit`: the
bound is a natural number. `SsoDemo`: the bound is, too, and "no response" is not an
assertion. TLC evaluates them in every run.

The gateway. The safety properties are not inductive: they speak of answers and of calls, and
a step to them starts from a thread in the middle of its gates. `IInv` adds what
is known there:

- `ThreadInv`: what each `pc` implies of the request, its token, the policy's
  answer and the audit lines so far. This carries `AuditTrail`,
  `GatesBeforeEffects` and `VaultHidden` from one gate to the next.
- `CallInv`: a call exists only for a thread that reached its view. This is what
  makes `RefusalIsFinal` inductive.
- `LeaseInv`: each token in Vault belongs to exactly one mint whose call
  succeeded, and each such mint has one.
- `CredentialInv`: a token on a request was handed out, and one that was let
  through was confirmed within its TTL. With `LeaseInv` it gives
  `DeletionJustified`: the mint behind the token is another manager's request that
  was answered with success, because a handed-out token is one whose mint is done
  while the request that spends it was not.

`IInv` was checked with TLC before it was proved. The proof has one lemma for each
group of actions, with a step per conjunct the action can disturb.

The refinement uses the same `IInv`, step by step. Most steps of a thread can only
close its own grant (`Closing`, `ThreadLapses`). The three that matter are `MintIssues`
(the token Vault makes is the first for its request, by `LeaseInv`), `ReplyHandsOut`
(the token answered is the one made for this request) and `ConfirmGrants` (a request
at the credential gate is a manager's and has no grant yet, and the token it
brings was handed out, lives, and was minted for a mint, so for another request). A
delete that orders carries out has a call under way, hence passed its gates, hence
has an open grant (`ServerImplements`).

The certificates. `EndMeansSound` says nothing of the middle of a run. `IInv` adds
what a run has behind it: `RunInv` (the key of the target it is making a certificate
for is its own), `ForcedInv` (a forced run has made anew all it has dealt with) and
`CleanInv` (as long as no forced run is under way or was torn, every certificate
there is for its key and under the CA there is, so that a plain run only adds what
is missing); `LoadedInv` says that no certificate is missing on disk that a container
has loaded.

The orders. Two lemmas say what `list.pop` does to a sequence (`PopElements`) and to
the ids of one without duplicates (`PopIds`). `ScanInv` is the heart of the
refinement: an undisturbed scan has passed none of the orders it is looking for, so
when the iterator is exhausted a 404 is either true or excused by another pop;
`LeftInv` bounds the count that is read later.

The key cache. `HeldInv` says how old knowledge can be: an answer under way lists
only keys that were listed since its fetch began, and with `FetchInv` (no fetch
outlasts its timeout) the cached set only keys that were listed no longer than one
fetch before it was stored; a lifespan later it is not used. `KidInv` gives the
other direction: an answer without the key of a genuine token was given after that
key was withdrawn.

The Vault script. `WholeInv` says what a run that Vault did not restart under has
behind it at each command. It cannot say that the mount is there before the role
is, because a lost answer to the mount is forgiven.

The provisioning script. `StageTable` says what the fifteen stages are about, and
one relation, `StepOf(r)`, what a step of a run may do: it only adds (`Builds`), it
leaves a stage when it has achieved it (`Achieves`), it lets a real secret be
(`KeepsSecret`), and who creates an object reads it back next (`Races`). It is shown of
each of the script's calls in turn (`EveryStep`); what follows rests on it alone. The
invariant has four parts of its own:

- `FirmInv`: an undisturbed run has achieved every stage behind it (`Achieved`: its
  objects are there, and configured unless it is a stage that goes by names), and what it found
  or made in the stage it is at is still there. Since nobody takes anything away while
  nobody meddles, this carries over the steps of other runs, and at the end of a run
  it is `Provisioned`.
- `SecretInv`, with `AloneInv`: a run alone so far has nobody beside it, so when it
  ends no other is about to regenerate the secret or put back an old representation
  of the client; runs that start later read the secret that is there.
- `SoloInv`: a run alone so far, while the client's secret is a real one, is not about
  to change it. This is the part of `NothingUndone` about the secret; that it needs
  "alone" is what `PrintedSecretWorks` shows.
- `RaceInv`: a run is beaten by a 409 only where another created the object, and
  whoever creates one reads it back and goes on. So if all were beaten, somebody
  would be at a later contested stage than the one who came furthest.

`NoCallIsRefused` (`NeverStuck`) follows from `FirmInv` and from the order of `main()`:
what an object hangs on is made by an earlier stage (`NeedsComeFirst`), which an
undisturbed run has achieved. `RunsGetAhead` adds that each call takes a run further
in the program, a stage or a list, and that nothing sets it back. Together: an
undisturbed run comes to its end after finitely many calls, unless it dies or a 409
beats it.

Single sign-on. Both apps are the same program, so a step of either is one `AppStep` of
its own tab and cookies: the jar changes only where an assertion was consumed or
somebody logs out, and then only the app's own cookie. `AppInv` says that every
session of an app, and every response its tab holds, is about somebody whom Keycloak
has asserted to it (`known`), and that a page stands on such a session; it needs that
neither the other app nor the realm takes the session of a page away.

Every invariant and action property of the passing runs is proved. Only
model-checked: `EventuallyAnswered`, `RerunRepairs`, `NoLoop` and `SilentSignOn`
(liveness under fairness is beyond the prover, as is `ENABLED`). What is proved
in their stead says that a fair step always gets nearer to the goal and nothing gets
further from it:

- `ThreadsAdvance` (for `EventuallyAnswered`): a request that is served takes five
  steps of its thread at most. That one is always enabled is left to TLC.
- `UntroubledRunsGetThrough` (for `RerunRepairs`): each run starts on course, a
  command on course is not refused with a fatal result, and a run that exits on
  course leaves every part in Vault.
- `TabsApproachRest` (for `NoLoop`): a visit is five redirects away from rest at most,
  and each brings it closer, by either host name.
- `SignOnStaysSilent` (for `SilentSignOn`): with a realm and a session in order, no
  answer on the way is a prompt or an error.

## Not modelled

- TLS itself. Which handshakes verify is in `Certs`; in `Gateway` a failed one is an
  unreachable service.
- The routes of `inventory/app.py`, and `/health`: constants.
- The clock of `keycloak-setup.py`'s admin token (`Admin.token`), and its wait for
  Keycloak: a run that fails in either is a run that dies in `Fail` or never starts.
- The start of services other than `vault-init` and the gateway: `docker-compose.yml`
  puts no order between them that their code relies on.
- The pages of the SAML apps.
- `verify.sh`: a sequential test of the running stack.
- The wording of answers and log lines, except the codes and decisions.
- Keycloak, OPA, Vault, PyJWT, requests and Flask themselves: modelled as external,
  as far as the code uses them.

## Plan

In the order of importance; all of it is done.

1. `Gateway`, `Authz`, `MCGateway`: the three gates end to end.
2. `GatewayProofs`: type correctness and the safety invariants.
3. `Orders` refining `AbstractOrders`.
4. `TokenGate`: the key cache.
5. `VaultInit`, `KeycloakSetup`: provisioning with crashes and reruns.
6. `JitAccess` and the refinement, model-checked and proved (`GatewayRefinement`).
7. `SamlSp`, `SsoDemo`: two apps, one browser, a realm that is imported anew.
8. `Certs` and `CertsProofs`.
9. `OrdersProofs`, `TokenGateProofs`, `VaultInitProofs`.
10. `SsoDemoProofs`, `KeycloakSetupProofs`.
11. The safety halves of the liveness properties.
12. `NeverStuck` without `ENABLED`, and proved; whose session a page is shown in.
