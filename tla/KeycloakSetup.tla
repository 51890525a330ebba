--------------------------- MODULE KeycloakSetup ----------------------------
(* keycloak-setup.py, the script that provisions the realm through           *)
(* Keycloak's admin API.                                                     *)
(*                                                                           *)
(* Every HTTP call is a step, and between two of them the script can die, a  *)
(* second run can be at work, and somebody can change the realm by hand.     *)
(* Most of the script is one idea, "look what is there, make what is not",   *)
(* applied to one kind of object after another; Program lists the stages in  *)
(* the order of main(), each with its kind:                                  *)
(*   import  the realm itself, imported only if there is none                *)
(*   list    list what exists, POST each missing one, take 409 for success   *)
(*   object  find, then POST (201 only) and read back, or PUT what is there  *)
(*   fix     find, read, and PUT only if a setting is wrong                  *)
(*   set     PUT whatever is there                                           *)
(*   secret  read the client secret, have it regenerated if masked, print it *)
EXTENDS Integers, Sequences

CONSTANTS
    Run,        \* runs of the script
    MaxSecret,  \* bound on the secrets Keycloak generates
    MaxMeddle   \* bound on the changes made by hand

ASSUME BoundAssumption == MaxSecret \in Nat /\ MaxMeddle \in Nat

\* Somebody runs the script.
ASSUME RunAssumption == Run # {}

Saml == {"docs", "dashboard"}
Mapper == {"username", "email"}     \* two of the four: any list of several will do
User == {"testuser", "manageruser"}

Thing ==
    {<<"realm">>, <<"role", "manager">>, <<"client">>, <<"role_list">>}
    \cup {<<"saml", c>> : c \in Saml}
    \cup {<<"mapper", c, m>> : c \in Saml, m \in Mapper}
    \cup {<<"user", u>> : u \in User}
    \cup {<<"password", u>> : u \in User}
    \cup {<<"manager", u>> : u \in User}

\* What a thing hangs on: it cannot be made without, and goes when that goes.
Needs(x) ==
    {<<"realm">>}
    \cup (IF x[1] = "mapper" THEN {<<"saml", x[2]>>} ELSE {})
    \cup (IF x[1] \in {"password", "manager"} THEN {<<"user", x[2]>>} ELSE {})
    \cup (IF x[1] = "manager" THEN {<<"role", "manager">>} ELSE {})

Without(things, x) == {y \in things : y # x /\ x \notin Needs(y)}

\* "realm_roles" of the USERS literal.
RealmRoles(u) == IF u = "manageruser" THEN {<<"manager", u>>} ELSE {}

Stage(kind, makes) == [kind |-> kind, makes |-> makes]

SamlStages(c) ==
    <<Stage("object", {<<"saml", c>>}), Stage("list", {<<"mapper", c, m>> : m \in Mapper})>>

UserStages(u) ==
    <<Stage("object", {<<"user", u>>}), Stage("set", {<<"password", u>>}),
      Stage("list", RealmRoles(u))>>

\* Mutant: the roles are made when the accounts are there to have them.
ProgramRolesLast ==
    <<Stage("import", {<<"realm">>}), Stage("object", {<<"client">>}),
      Stage("fix", {<<"role_list">>})>>
    \o SamlStages("docs") \o SamlStages("dashboard")
    \o UserStages("testuser") \o UserStages("manageruser")
    \o <<Stage("list", {<<"role", "manager">>}), Stage("secret", {})>>

Program ==
    <<Stage("import", {<<"realm">>}), Stage("list", {<<"role", "manager">>}),
      Stage("object", {<<"client">>}), Stage("fix", {<<"role_list">>})>>
    \o SamlStages("docs") \o SamlStages("dashboard")
    \o UserStages("testuser") \o UserStages("manageruser")
    \o <<Stage("secret", {})>>

\* What the import brings: the client with the masked secret of the export, and
\* the default role_list scope, which emits an attribute per role.
Imported == {<<"realm">>, <<"client">>, <<"role_list">>}

Masked == 0

VARIABLES
    has,        \* the things that exist in Keycloak
    broken,     \* those whose settings are not what the script wants
    secret,     \* the secret of gateway-client; 0 stands for asterisks
    secrets,    \* how many Keycloak has generated
    public,     \* is gateway-client a public client?
    run,        \* where each run of the script is
    sawPublic,  \* the runs that hold a representation of it that says so
    meddled     \* the changes made by hand so far (history)

vars == <<has, broken, secret, secrets, public, run, sawPublic, meddled>>

keycloak == <<has, broken, secret, secrets, public>>

\* A run that ended prints no secret if it found a public client.
Nothing == -1

\* do: what the next call is; todo: what the last listing found missing; seen:
\* the secret in the representation that was read; printed: what the user is
\* told to copy, Nothing before; calm: no change by hand since its start; alone: no
\* other run between its start and its end (history).  "beaten": dead of a 409.
Progress ==
    [stage : 1..Len(Program),
     do : {"ready", "look", "make", "put", "read", "done", "dead", "beaten"},
     todo : SUBSET Thing, seen : 0..MaxSecret, printed : Nothing..MaxSecret,
     calm : BOOLEAN, alone : BOOLEAN]

Ready == [stage |-> 1, do |-> "ready", todo |-> {}, seen |-> 0, printed |-> Nothing,
          calm |-> TRUE, alone |-> TRUE]

TypeOK ==
    /\ has \subseteq Thing
    /\ broken \subseteq has
    /\ secret \in 0..MaxSecret /\ secrets \in 0..MaxSecret
    /\ public \in BOOLEAN
    /\ run \in [Run -> Progress]
    /\ sawPublic \subseteq Run
    /\ meddled \in 0..MaxMeddle

\* A fresh volume, or any state a realm of this name may be found in.
Init ==
    /\ has = {} /\ broken = {}
    /\ secret = Masked /\ secrets = 0 /\ public = FALSE
    /\ run = [r \in Run |-> Ready] /\ sawPublic = {}
    /\ meddled = 0

At(r, kind, do) == run[r].do = do /\ Program[run[r].stage].kind = kind

Makes(r) == Program[run[r].stage].makes

Goes(r, do) == run' = [run EXCEPT ![r].do = do]

NextStage(r) ==
    run' = [run EXCEPT ![r].stage = @ + 1, ![r].do = "look", ![r].todo = {}]

Ends(r, how) == run' = [run EXCEPT ![r] = [@ EXCEPT !.do = how, !.todo = {}]]

Working(r) == run[r].do \notin {"ready", "done", "dead", "beaten"}

-----------------------------------------------------------------------------

Start(r) ==
    /\ run[r].do = "ready"
    /\ run' = [q \in Run |->
                  IF q = r
                  THEN [run[q] EXCEPT !.do = "look", !.alone = \A p \in Run : ~Working(p)]
                  ELSE [run[q] EXCEPT !.alone = @ /\ ~Working(q)]]
    /\ UNCHANGED <<keycloak, sawPublic, meddled>>

Above(things) == UNION {Needs(x) : x \in things}

\* What the next call of a run is about, or is made below.  If it is not there the
\* answer is a 404, which is fatal, or nothing to read back, which is fatal too.
\* (A list of somebody's roles does not need the role.)
HangsOn(r) ==
    LET p == run[r]  kind == Program[p.stage].kind IN
    IF kind = "import" THEN {}
    ELSE IF kind = "secret" THEN {<<"client">>}
    ELSE CASE p.do = "look" -> Above(Makes(r)) \ {<<"role", "manager">>}
           [] p.do = "make" -> Above(IF kind = "list" THEN p.todo ELSE Makes(r))
           [] p.do \in {"read", "put"} -> Makes(r)

Found(r) == HangsOn(r) \subseteq has

\* import_realm: GET, then POST only after a 404.
RealmThere(r) ==
    /\ At(r, "import", "look")
    /\ IF <<"realm">> \in has THEN NextStage(r) ELSE Goes(r, "make")
    /\ UNCHANGED <<keycloak, sawPublic, meddled>>

ImportRealm(r) ==
    /\ At(r, "import", "make")
    /\ IF <<"realm">> \in has
       THEN UNCHANGED keycloak      \* 409: a concurrent run was faster
       ELSE /\ has' = Imported /\ broken' = {<<"role_list">>}
            /\ secret' = Masked /\ public' = FALSE
            /\ UNCHANGED secrets
    /\ NextStage(r)
    /\ UNCHANGED <<sawPublic, meddled>>

\* Mutant: finding some of the wanted objects is taken for finding all of them.
ListSomeWillDo(r) ==
    /\ At(r, "list", "look")
    /\ Found(r)
    /\ IF Makes(r) = {} \/ Makes(r) \cap has # {}
       THEN NextStage(r)
       ELSE run' = [run EXCEPT ![r].do = "make", ![r].todo = Makes(r) \ has]
    /\ UNCHANGED <<keycloak, sawPublic, meddled>>

\* ensure_realm_roles, ensure_protocol_mappers, ensure_realm_role_mapping.  They go
\* by the names in the listing: one that is there is passed over as it is.
List(r) ==
    /\ At(r, "list", "look")
    /\ Found(r)
    /\ IF Makes(r) \subseteq has
       THEN NextStage(r)
       ELSE run' = [run EXCEPT ![r].do = "make", ![r].todo = Makes(r) \ has]
    /\ UNCHANGED <<keycloak, sawPublic, meddled>>

\* One POST of the loop; 201 and 409 are equally good.
AddMissing(r, x) ==
    /\ At(r, "list", "make")
    /\ x \in run[r].todo
    /\ Needs(x) \subseteq has
    /\ has' = has \cup {x}
    /\ IF run[r].todo = {x} THEN NextStage(r)
       ELSE run' = [run EXCEPT ![r].todo = @ \ {x}]
    /\ UNCHANGED <<broken, secret, secrets, public, sawPublic, meddled>>

\* Mutant: the exact match never finds anything, so everything is made.
FindNothing(r) ==
    /\ At(r, "object", "look")
    /\ Found(r)
    /\ Goes(r, "make")
    /\ UNCHANGED <<keycloak, sawPublic, meddled>>

\* What main() keeps of gateway-client is the representation found here, or sent.
KeepsClient(r) ==
    sawPublic' = IF Makes(r) = {<<"client">>} /\ public THEN sawPublic \cup {r} ELSE sawPublic

\* find_client and the user query.  The gateway-client is put back only if its
\* settings are wrong, the others always.
Find(r) ==
    /\ At(r, "object", "look")
    /\ Found(r)
    /\ IF Makes(r) \cap has = {} THEN Goes(r, "make")
       ELSE IF Makes(r) = {<<"client">>} /\ <<"client">> \notin broken THEN NextStage(r)
       ELSE run' = [run EXCEPT ![r].do = "put", ![r].seen = secret]
    /\ KeepsClient(r)
    /\ UNCHANGED <<keycloak, meddled>>

\* Keycloak generates a secret for a client that comes without one.
NewSecret ==
    /\ secrets < MaxSecret
    /\ secrets' = secrets + 1
    /\ secret' = secrets + 1

Create(r) ==
    /\ At(r, "object", "make")
    /\ Found(r)
    /\ IF Makes(r) \subseteq has
       THEN Ends(r, "beaten") /\ UNCHANGED keycloak     \* 409, and only 201 will do
       ELSE /\ has' = has \cup Makes(r)
            /\ IF Makes(r) = {<<"client">>} THEN NewSecret /\ public' = FALSE
               ELSE UNCHANGED <<secret, secrets, public>>
            /\ Goes(r, "read")
            /\ UNCHANGED broken
    /\ UNCHANGED <<sawPublic, meddled>>

ReadBack(r) ==
    /\ At(r, "object", "read")
    /\ IF Found(r) THEN NextStage(r) ELSE Ends(r, "dead")
    /\ KeepsClient(r)
    /\ UNCHANGED <<keycloak, meddled>>

\* The whole representation that was read goes back with the wanted settings in
\* it.  Whether Keycloak takes the secret in it is Keycloak's affair.
PutBack(r) ==
    /\ At(r, "object", "put") \/ At(r, "fix", "put")
    /\ Found(r)
    /\ broken' = broken \ Makes(r)
    /\ secret' \in IF Makes(r) = {<<"client">>} THEN {secret, run[r].seen} ELSE {secret}
    /\ public' = IF Makes(r) = {<<"client">>} THEN r \in sawPublic ELSE public
    /\ NextStage(r)
    /\ UNCHANGED <<has, secrets, sawPublic, meddled>>

\* ensure_single_role_attribute, the scopes: a missing one is skipped.
FindRoleList(r) ==
    /\ At(r, "fix", "look")
    /\ Found(r)
    /\ IF Makes(r) \subseteq has THEN Goes(r, "read") ELSE NextStage(r)
    /\ UNCHANGED <<keycloak, sawPublic, meddled>>

\* ensure_single_role_attribute, the mappers of the scope.
LookAtRoleList(r) ==
    /\ At(r, "fix", "read")
    /\ Found(r)
    /\ IF Makes(r) \cap broken # {} THEN Goes(r, "put") ELSE NextStage(r)
    /\ UNCHANGED <<keycloak, sawPublic, meddled>>

\* reset-password
SetPassword(r) ==
    /\ At(r, "set", "look")
    /\ Found(r)
    /\ has' = has \cup Makes(r)
    /\ broken' = broken \ Makes(r)
    /\ NextStage(r)
    /\ UNCHANGED <<secret, secrets, public, sawPublic, meddled>>

\* Mutant: the script does not stop after its last stage.
PrintsAndGoesOn(r, value) ==
    run' = [run EXCEPT ![r] = [@ EXCEPT !.stage = @ + 1, !.printed = value]]

Prints(r, value) ==
    run' = [run EXCEPT ![r] = [@ EXCEPT !.do = "done", !.printed = value]]

\* Mutant: whatever is there is printed.
UsableAnyway(value) == TRUE

\* Mutant: nothing that is there is good enough.
UsableNever(value) == FALSE

IsUsableSecret(value) == value # Masked

\* client_secret: nothing to ask for if the client was public when it was found
FindPublic(r) ==
    /\ At(r, "secret", "look")
    /\ r \in sawPublic
    /\ Prints(r, Nothing)
    /\ UNCHANGED <<keycloak, sawPublic, meddled>>

\* client_secret: GET
ReadSecret(r) ==
    /\ At(r, "secret", "look")
    /\ r \notin sawPublic
    /\ Found(r)
    /\ IF IsUsableSecret(secret) THEN Prints(r, secret) ELSE Goes(r, "make")
    /\ UNCHANGED <<keycloak, sawPublic, meddled>>

\* client_secret: POST
RegenerateSecret(r) ==
    /\ At(r, "secret", "make")
    /\ Found(r)
    /\ NewSecret
    /\ Prints(r, secret')
    /\ UNCHANGED <<has, broken, public, sawPublic, meddled>>

\* A refused connection, a timeout, a 404 below something deleted, an interrupt.
\* The effect of the last call is there or not: the call is a step of its own.
Fail(r) ==
    /\ Working(r)
    /\ Ends(r, "dead")
    /\ UNCHANGED <<keycloak, sawPublic, meddled>>

-----------------------------------------------------------------------------

Disturb ==
    /\ meddled < MaxMeddle
    /\ meddled' = meddled + 1
    /\ run' = [r \in Run |-> [run[r] EXCEPT !.calm = (run[r].do = "ready")]]
    /\ UNCHANGED sawPublic

\* In the admin console: something is deleted or misconfigured, testuser promoted,
\* or the gateway's client made public.
DeleteThing(x) ==
    /\ x \in has
    /\ has' = IF x = <<"realm">> THEN {} ELSE Without(has, x)
    /\ broken' = broken \cap has'
    /\ public' = (public /\ <<"client">> \in has')
    /\ Disturb
    /\ UNCHANGED <<secret, secrets>>

BreakThing(x) ==
    /\ x \in has \ broken
    /\ x[1] \in {"client", "saml", "mapper", "user", "password", "role_list"}
    /\ broken' = broken \cup {x}
    /\ Disturb
    /\ UNCHANGED <<has, secret, secrets, public>>

Promote ==
    /\ {<<"user", "testuser">>, <<"role", "manager">>} \subseteq has
    /\ <<"manager", "testuser">> \notin has
    /\ has' = has \cup {<<"manager", "testuser">>}
    /\ Disturb
    /\ UNCHANGED <<broken, secret, secrets, public>>

MakePublic ==
    /\ <<"client">> \in has /\ ~public
    /\ public' = TRUE
    /\ Disturb
    /\ UNCHANGED <<has, broken, secret, secrets>>

Step(r) ==
    \/ RealmThere(r) \/ ImportRealm(r)
    \/ List(r) \/ \E x \in Thing : AddMissing(r, x)
    \/ Find(r) \/ Create(r) \/ ReadBack(r) \/ PutBack(r)
    \/ FindRoleList(r) \/ LookAtRoleList(r) \/ SetPassword(r)
    \/ FindPublic(r) \/ ReadSecret(r) \/ RegenerateSecret(r)

Next ==
    \/ \E r \in Run : Start(r) \/ Step(r) \/ Fail(r)
    \/ \E x \in Thing : DeleteThing(x) \/ BreakThing(x)
    \/ Promote \/ MakePublic

Spec == Init /\ [][Next]_vars

-----------------------------------------------------------------------------

\* The script makes all of this; a role_list scope that is missing it leaves so.
Desired ==
    Thing \ {<<"manager", "testuser">>, <<"role_list">>}

\* The promise of "safe to re-run" (keycloak-setup.py:4-5): a run that reaches its
\* end leaves everything the lab needs in place, whatever earlier runs died of and
\* whatever runs were at work beside it, unless somebody changed the realm by hand
\* since it began; and configured, whatever was misconfigured before it began,
\* save a mapper: ensure_protocol_mappers goes by its name and leaves it.
Provisioned ==
    \A r \in Run :
        (run[r].do = "done" /\ run[r].calm) =>
            /\ Desired \subseteq has
            /\ \A x \in broken : x[1] = "mapper"

\* No step of a run deletes an object or spoils its settings, whoever made it;
\* and while no two runs overlap, none replaces a real secret of the client.
\* (Where they do, one may: PrintedSecretWorks.)
NothingUndone ==
    [][meddled' = meddled =>
          /\ has \subseteq has' /\ broken' \cap has \subseteq broken
          /\ (/\ <<"client">> \in has /\ secret # Masked
              /\ \A r \in Run : Working(r) => run[r].alone) => secret' = secret]_vars

\* Each call finds what it hangs on: whatever earlier runs died of and whoever is
\* at work beside it, an undisturbed run is never refused for want of an object,
\* and only a crash or a 409 can keep it from its end (the order of the stages in
\* main(), keycloak-setup.py:583-592).
NeverStuck ==
    \A r \in Run : Working(r) /\ run[r].calm => Found(r)

\* The secret a run prints for the .env, if no other was at work beside it, is a
\* real one, and it stays the client's through later runs, until the realm is
\* changed by hand (SETUP.md:84, "later runs keep the existing secret").
PrintedSecretIsCurrent ==
    \A r \in Run :
        (run[r].do = "done" /\ run[r].calm /\ run[r].alone /\ run[r].printed # Nothing) =>
            run[r].printed # Masked /\ run[r].printed = secret

\* The 409 that is fatal to a run is the work of one that is ahead of it: runs
\* that only have each other in their way never all perish of it.
NotAllBeaten ==
    meddled = 0 => \E r \in Run : run[r].do # "beaten"

\* What keycloak-setup.py:615 tells the user of the secret it prints, "Copy this
\* into your .env": it is the client's, as long as nobody changes the realm.
PrintedSecretWorks ==
    \A r \in Run :
        (run[r].do = "done" /\ run[r].calm /\ run[r].printed # Nothing) =>
            run[r].printed = secret
=============================================================================
