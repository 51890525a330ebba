----------------------------- MODULE VaultInit ------------------------------
(* vault/setup.sh, the one-shot vault-init container that configures Vault,  *)
(* and the gateway that docker-compose.yml starts behind it.                 *)
(*                                                                           *)
(* The script is seven commands under `set -e`, two of them with `|| true`.  *)
(* Each is a call to a Vault that runs in dev mode: it keeps everything in   *)
(* memory and may be restarted between any two of them, or drop a call.      *)
EXTENDS Integers, Sequences, FiniteSets

CONSTANT MaxRestart     \* bound on the restarts of Vault

ASSUME RestartAssumption == MaxRestart \in Nat

\* What the script writes.  A role comes with a role_id that Vault made up:
\* "role_id" stands for the pinned one, which the gateway logs in with.
Part == {"policy", "mount", "role", "role_id", "secret_id"}

\* The commands, in order; "status" is the loop that waits for Vault.
Command == <<"status", "policy", "mount", "role", "role_id", "destroy", "secret_id">>

Commands == {Command[i] : i \in DOMAIN Command}

VARIABLES
    has,        \* the parts Vault has
    step,       \* the command the script is at, or how its container ended
    gateway,    \* "up" or "down"
    restarts,   \* the restarts of Vault so far
    whole       \* Vault has not restarted since the run's first write (history)

vars == <<has, step, gateway, restarts, whole>>

TypeOK ==
    /\ has \subseteq Part
    /\ "role" \in has => "mount" \in has
    /\ has \cap {"role_id", "secret_id"} # {} => "role" \in has
    /\ step \in Commands \cup {"idle", "exited", "failed"}
    /\ gateway \in {"up", "down"}
    /\ restarts \in 0..MaxRestart
    /\ whole \in BOOLEAN

Init ==
    /\ has = {}
    /\ step = "idle"
    /\ gateway = "down"
    /\ restarts = 0
    /\ whole = FALSE

\* Mutant: the script ends before its last command.
AfterShort(command) ==
    LET i == CHOOSE j \in DOMAIN Command : Command[j] = command IN
    IF i >= Len(Command) - 1 THEN "exited" ELSE Command[i + 1]

After(command) ==
    LET i == CHOOSE j \in DOMAIN Command : Command[j] = command IN
    IF i = Len(Command) THEN "exited" ELSE Command[i + 1]

Goes(point) == step' = point /\ UNCHANGED <<gateway, restarts>>

-----------------------------------------------------------------------------

\* `docker compose up` starts the container: the first time, or again.
Start ==
    /\ step \notin Commands
    /\ step' = "status"
    /\ whole' = FALSE
    /\ UNCHANGED <<has, gateway, restarts>>

\* until vault status
VaultAnswers ==
    /\ step = "status"
    /\ Goes(After("status"))
    /\ whole' = TRUE
    /\ UNCHANGED has

\* What Vault says no to: a mount that exists, a role without its mount, an id
\* without its role, a secret_id that is known already or, to destroy, unknown.
Accepted(command) ==
    CASE command = "policy" -> TRUE
      [] command = "mount" -> "mount" \notin has
      [] command = "role" -> "mount" \in has
      [] command = "role_id" -> "role" \in has
      [] command = "destroy" -> "secret_id" \in has
      [] command = "secret_id" -> "role" \in has /\ "secret_id" \notin has

\* Mutant: the destroy is a write like the others.
WrittenByName(command) == has \cup {command}

\* Mutant: writing the role makes it anew, with ids that Vault makes up.
WrittenAfresh(command) ==
    IF command = "destroy" THEN has \ {"secret_id"}
    ELSE IF command = "role" THEN (has \ {"role_id", "secret_id"}) \cup {"role"}
    ELSE has \cup {command}

\* Mutant: the clearing away before the registration takes the policy along.
WrittenCleared(command) ==
    IF command = "destroy" THEN has \ {"secret_id", "policy"} ELSE has \cup {command}

Written(command) == IF command = "destroy" THEN has \ {"secret_id"} ELSE has \cup {command}

Succeeds ==
    /\ step \in Commands \ {"status"}
    /\ Accepted(step)
    /\ has' = Written(step)
    /\ Goes(After(step))
    /\ UNCHANGED whole

\* Mutant: the destroy of a secret_id that Vault does not know ends the script.
ForgivenMount(command) == command = "mount"

\* `|| true`
Forgiven(command) == command \in {"mount", "destroy"}

\* `set -e` ends the script, unless the command is a forgiven one.
AfterFailure == Goes(IF Forgiven(step) THEN After(step) ELSE "failed")

Refused ==
    /\ step \in Commands \ {"status"}
    /\ ~Accepted(step)
    /\ AfterFailure
    /\ UNCHANGED <<has, whole>>

\* Vault cannot be reached, or its answer is lost on the way back; of a forgiven
\* command the latter is as good as a success.
Lost ==
    /\ step \in Commands \ {"status"}
    /\ Accepted(step)
    /\ \/ has' = has
       \/ ~Forgiven(step) /\ has' = Written(step)
    /\ AfterFailure
    /\ UNCHANGED whole

\* The container is stopped.
Killed ==
    /\ step \in Commands
    /\ Goes("failed")
    /\ UNCHANGED <<has, whole>>

\* Mutant: the gateway is started when the container is, not when it is done.
GatewayStartsEarly ==
    /\ gateway = "down"
    /\ step # "idle"
    /\ gateway' = "up"
    /\ UNCHANGED <<has, step, restarts, whole>>

\* condition: service_completed_successfully
GatewayStarts ==
    /\ gateway = "down"
    /\ step = "exited"
    /\ gateway' = "up"
    /\ UNCHANGED <<has, step, restarts, whole>>

GatewayStops ==
    /\ gateway = "up"
    /\ gateway' = "down"
    /\ UNCHANGED <<has, step, restarts, whole>>

VaultRestart ==
    /\ restarts < MaxRestart
    /\ restarts' = restarts + 1
    /\ has' = {}
    /\ whole' = FALSE
    /\ UNCHANGED <<step, gateway>>

Next ==
    \/ Start \/ VaultAnswers \/ Succeeds \/ Refused \/ Lost \/ Killed
    \/ GatewayStarts \/ GatewayStops
    \/ VaultRestart

Spec == Init /\ [][Next]_vars

\* Whoever runs the lab brings it up again and again, and a container that runs
\* gets on with its script.
FairSpec ==
    Spec /\ WF_vars(Start) /\ WF_vars(VaultAnswers) /\ WF_vars(Succeeds \/ Refused)

-----------------------------------------------------------------------------

\* The gateway can log in with the ids of its environment.
AppRole == {"mount", "role", "role_id", "secret_id"} \subseteq has

\* A gateway that was started is one whose credentials Vault will accept, if
\* Vault has kept its memory since the script began to write: each command that
\* failed was either fatal or of no consequence (setup.sh:8, 34, 55-61).
StartedMeansUsable ==
    [][(gateway = "down" /\ gateway' = "up" /\ whole) => AppRole /\ "policy" \in has]_vars

\* A rerun against a Vault that is in use takes nothing from under the gateway
\* but the secret_id, and that only between its destroy and its registration;
\* in particular tokens that are out stay recognised (setup.sh:55-57).
RerunDisturbsOnlyLogin ==
    [][restarts' = restarts =>
          /\ has \ {"secret_id"} \subseteq has'
          /\ (AppRole /\ ~AppRole') => step = "destroy" /\ step' = "secret_id"]_vars

\* A fatal refusal is not trouble, though it looks like being killed: it is what
\* the script made of Vault's answer.
Trouble == (Lost \/ Killed \/ VaultRestart) /\ ~Refused

\* Whatever interrupted runs and restarts left behind, the script can be run again
\* and repairs it: once trouble ends, a run gets through and everything is there
\* (setup.sh:4-7, 55-57; SETUP.md:412-413).
RerunRepairs ==
    <>[][~Trouble]_vars => []<>(step = "exited" /\ has = Part)

\* The gateway's model of Vault (module Gateway, variable setup) is a faithful
\* summary of this one: every step is one of VaultSetup, VaultRestart, nothing.
setup == (IF "policy" \in has THEN {"policy"} ELSE {})
         \cup (IF AppRole THEN {"approle"} ELSE {})

SummarisedByGateway ==
    [][\/ setup' = setup
       \/ \E part \in {"policy", "approle"} : setup' = setup \cup {part}
       \/ setup' = setup \ {"approle"}
       \/ restarts' = restarts + 1 /\ setup' = {}]_setup
=============================================================================
