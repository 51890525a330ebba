-------------------------- MODULE VaultInitProofs ---------------------------
(* What vault/setup.sh promises, for any number of restarts of Vault.        *)
EXTENDS VaultInit, TLAPS

(* The commands of the script, in their order.                                *)
LEMMA Order ==
    /\ Commands = {"status", "policy", "mount", "role", "role_id", "destroy", "secret_id"}
    /\ After("status") = "policy"
    /\ After("policy") = "mount"
    /\ After("mount") = "role"
    /\ After("role") = "role_id"
    /\ After("role_id") = "destroy"
    /\ After("destroy") = "secret_id"
    /\ After("secret_id") = "exited"
  BY DEF Commands, Command, After

(* A run during which Vault kept its memory has left behind what the commands *)
(* it is past were to write.  The mount is not among them, a lost answer to   *)
(* it is forgiven; but the role, which needs it, is.                          *)
WholeInv ==
    whole =>
        /\ step \in {"mount", "role", "role_id", "destroy", "secret_id", "exited"} => "policy" \in has
        /\ step \in {"role_id", "destroy", "secret_id", "exited"} => "role" \in has
        /\ step \in {"destroy", "secret_id", "exited"} => "role_id" \in has
        /\ step = "exited" => "secret_id" \in has

IInv == TypeOK /\ WholeInv

(* What one command that is sent does to what Vault has, and where the script *)
(* goes: the six commands that write, one by one.                             *)
LEMMA OneCommand ==
    ASSUME step \in Commands \ {"status"}
    PROVE  \/ step = "policy" /\ Accepted(step) /\ Written(step) = has \cup {"policy"}
              /\ After(step) = "mount" /\ ~Forgiven(step)
           \/ step = "mount" /\ (Accepted(step) <=> "mount" \notin has)
              /\ Written(step) = has \cup {"mount"} /\ After(step) = "role" /\ Forgiven(step)
           \/ step = "role" /\ (Accepted(step) <=> "mount" \in has)
              /\ Written(step) = has \cup {"role"} /\ After(step) = "role_id" /\ ~Forgiven(step)
           \/ step = "role_id" /\ (Accepted(step) <=> "role" \in has)
              /\ Written(step) = has \cup {"role_id"} /\ After(step) = "destroy"
              /\ ~Forgiven(step)
           \/ step = "destroy" /\ (Accepted(step) <=> "secret_id" \in has)
              /\ Written(step) = has \ {"secret_id"} /\ After(step) = "secret_id"
              /\ Forgiven(step)
           \/ step = "secret_id" /\ (Accepted(step) <=> ("role" \in has /\ "secret_id" \notin has))
              /\ Written(step) = has \cup {"secret_id"} /\ After(step) = "exited"
              /\ ~Forgiven(step)
  <1>1. CASE step = "policy"
    BY <1>1, Order DEF Accepted, Written, Forgiven
  <1>2. CASE step = "mount"
    BY <1>2, Order DEF Accepted, Written, Forgiven
  <1>3. CASE step = "role"
    BY <1>3, Order DEF Accepted, Written, Forgiven
  <1>4. CASE step = "role_id"
    BY <1>4, Order DEF Accepted, Written, Forgiven
  <1>5. CASE step = "destroy"
    BY <1>5, Order DEF Accepted, Written, Forgiven
  <1>6. CASE step = "secret_id"
    BY <1>6, Order DEF Accepted, Written, Forgiven
  <1> QED BY <1>1, <1>2, <1>3, <1>4, <1>5, <1>6, Order

(* A Vault that has just been started has nothing, and nothing has run.       *)
LEMMA Initially == Init => IInv
  <1> SUFFICES ASSUME Init PROVE IInv
    OBVIOUS
  <1>1. has \subseteq Part /\ "role" \notin has /\ has \cap {"role_id", "secret_id"} = {}
    BY DEF Init
  <1>2. restarts \in 0..MaxRestart
    BY RestartAssumption DEF Init
  <1> QED BY <1>1, <1>2 DEF Init, IInv, TypeOK, WholeInv

(* Every step of the script, of the gateway and of Vault keeps the invariant. *)
LEMMA Step == IInv /\ [Next]_vars => IInv'
  <1> SUFFICES ASSUME IInv, [Next]_vars PROVE IInv'
    OBVIOUS
  <1> USE DEF IInv
  <1>1. CASE Start
    BY <1>1, Order DEF Start, TypeOK, WholeInv
  <1>2. CASE VaultAnswers
    BY <1>2, Order DEF VaultAnswers, Goes, TypeOK, WholeInv
  <1>3. CASE Succeeds
    <2>1. TypeOK'
      BY <1>3, OneCommand, Order DEF Succeeds, Goes, TypeOK, Part
    <2>2. WholeInv'
      BY <1>3, OneCommand DEF Succeeds, Goes, TypeOK, WholeInv
    <2> QED BY <2>1, <2>2
  <1>4. CASE Refused
    <2>1. TypeOK'
      BY <1>4, OneCommand, Order DEF Refused, AfterFailure, Goes, TypeOK
    <2>2. WholeInv'
      BY <1>4, OneCommand DEF Refused, AfterFailure, Goes, TypeOK, WholeInv
    <2> QED BY <2>1, <2>2
  <1>5. CASE Lost
    <2>1. TypeOK'
      BY <1>5, OneCommand, Order DEF Lost, AfterFailure, Goes, TypeOK, Part
    <2>2. WholeInv'
      BY <1>5, OneCommand DEF Lost, AfterFailure, Goes, TypeOK, WholeInv
    <2> QED BY <2>1, <2>2
  <1>6. CASE Killed
    BY <1>6, Order DEF Killed, Goes, TypeOK, WholeInv
  <1>7. CASE GatewayStarts
    BY <1>7 DEF GatewayStarts, TypeOK, WholeInv
  <1>8. CASE GatewayStops
    BY <1>8 DEF GatewayStops, TypeOK, WholeInv
  <1>9. CASE VaultRestart
    <2>1. has' \subseteq Part /\ "role" \notin has' /\ has' \cap {"role_id", "secret_id"} = {}
      BY <1>9 DEF VaultRestart
    <2>2. restarts' \in 0..MaxRestart
      BY <1>9, RestartAssumption DEF VaultRestart, TypeOK
    <2> QED BY <1>9, <2>1, <2>2 DEF VaultRestart, TypeOK, WholeInv
  <1>10. CASE UNCHANGED vars
    BY <1>10 DEF vars, TypeOK, WholeInv
  <1> QED
    BY <1>1, <1>2, <1>3, <1>4, <1>5, <1>6, <1>7, <1>8, <1>9, <1>10 DEF Next

(* The inductive invariant: types, and what a run that Vault lived through    *)
(* has behind it.                                                             *)
THEOREM Invariance == Spec => []IInv
  <1>1. Init => IInv
    BY Initially
  <1>2. IInv /\ [Next]_vars => IInv'
    BY Step
  <1> QED BY <1>1, <1>2, PTL DEF Spec

(* The parts depend on each other as they do in Vault, and the script is at a *)
(* command of its or has ended.                                               *)
THEOREM TypeCorrect == Spec => []TypeOK
  <1>1. IInv => TypeOK
    BY DEF IInv
  <1> QED BY <1>1, Invariance, PTL

(* A gateway is started with credentials that work, if Vault kept its memory  *)
(* since the script began to write.                                           *)
THEOREM StartsUsable == Spec => StartedMeansUsable
  <1>1. IInv /\ [Next]_vars =>
           [(gateway = "down" /\ gateway' = "up" /\ whole) => AppRole /\ "policy" \in has]_vars
    <2> SUFFICES ASSUME IInv, Next, gateway = "down", gateway' = "up", whole
                 PROVE  AppRole /\ "policy" \in has
      OBVIOUS
    <2>1. GatewayStarts
      BY DEF Next, Start, VaultAnswers, Succeeds, Refused, Lost, Killed, AfterFailure, Goes,
             GatewayStops, VaultRestart
    <2> QED BY <2>1 DEF GatewayStarts, IInv, TypeOK, WholeInv, AppRole
  <1> QED BY <1>1, Invariance, PTL DEF Spec, StartedMeansUsable

(* Running the script again takes nothing away but the secret_id, and the     *)
(* gateway's login only between the two commands that replace it.             *)
THEOREM RerunsDisturbOnlyLogin == Spec => RerunDisturbsOnlyLogin
  <1>1. IInv /\ [Next]_vars =>
           [restarts' = restarts =>
               /\ has \ {"secret_id"} \subseteq has'
               /\ (AppRole /\ ~AppRole') => step = "destroy" /\ step' = "secret_id"]_vars
    <2> SUFFICES ASSUME IInv, Next, restarts' = restarts
                 PROVE  /\ has \ {"secret_id"} \subseteq has'
                        /\ (AppRole /\ ~AppRole') => step = "destroy" /\ step' = "secret_id"
      OBVIOUS
    <2>1. CASE Succeeds
      BY <2>1, OneCommand DEF Succeeds, Goes, AppRole
    <2>2. CASE Lost
      BY <2>2, OneCommand DEF Lost, AfterFailure, Goes, AppRole
    <2>3. CASE has' = has
      BY <2>3 DEF AppRole
    <2>4. ~VaultRestart
      BY DEF VaultRestart, IInv, TypeOK
    <2> QED
      BY <2>1, <2>2, <2>3, <2>4 DEF Next, Start, VaultAnswers, Refused, Killed, GatewayStarts,
             GatewayStops
  <1> QED BY <1>1, Invariance, PTL DEF Spec, RerunDisturbsOnlyLogin

(* The two-part summary of Vault that module Gateway works with: what a       *)
(* command of the script does to it.                                          *)
LEMMA Summary ==
    ASSUME IInv, step \in Commands \ {"status"}, Accepted(step), has' = Written(step)
    PROVE  \/ setup' = setup
           \/ \E part \in {"policy", "approle"} : setup' = setup \cup {part}
           \/ setup' = setup \ {"approle"}
  <1>1. CASE step = "policy"
    <2>1. has' = has \cup {"policy"}
      BY <1>1, OneCommand
    <2>2. AppRole' <=> AppRole
      BY <2>1 DEF AppRole
    <2>3. setup' = setup \cup {"policy"}
      BY <2>1, <2>2 DEF setup
    <2> QED BY <2>3
  <1>2. CASE step = "destroy"
    <2>1. has' = has \ {"secret_id"}
      BY <1>2, OneCommand
    <2>2. ~AppRole' /\ ("policy" \in has' <=> "policy" \in has)
      BY <2>1 DEF AppRole
    <2>3. setup' = setup \ {"approle"}
      BY <2>2 DEF setup
    <2> QED BY <2>3
  <1>3. CASE step \notin {"policy", "destroy"}
    <2>1. /\ "policy" \in has' <=> "policy" \in has
          /\ AppRole => AppRole'
      BY <1>3, OneCommand DEF AppRole
    <2>2. setup' = setup \/ setup' = setup \cup {"approle"}
      BY <2>1 DEF setup
    <2> QED BY <2>2
  <1> QED BY <1>1, <1>2, <1>3

(* Every step is, seen from the gateway's model, a part being set up, the     *)
(* AppRole login being withdrawn, a restart, or nothing.                      *)
THEOREM GatewaySummaryIsFaithful == Spec => SummarisedByGateway
  <1>1. IInv /\ [Next]_vars =>
           [\/ setup' = setup
            \/ \E part \in {"policy", "approle"} : setup' = setup \cup {part}
            \/ setup' = setup \ {"approle"}
            \/ restarts' = restarts + 1 /\ setup' = {}]_setup
    <2> SUFFICES ASSUME IInv, Next, setup' # setup
                 PROVE  \/ setup' = setup
                        \/ \E part \in {"policy", "approle"} : setup' = setup \cup {part}
                        \/ setup' = setup \ {"approle"}
                        \/ restarts' = restarts + 1 /\ setup' = {}
      BY DEF setup, AppRole, vars
    <2>1. has' # has
      BY DEF setup, AppRole
    <2>2. CASE VaultRestart
      BY <2>2 DEF VaultRestart, setup, AppRole
    <2>3. CASE Succeeds
      BY <2>3, Summary DEF Succeeds
    <2>4. CASE Lost
      BY <2>1, <2>4, Summary DEF Lost
    <2> QED
      BY <2>1, <2>2, <2>3, <2>4 DEF Next, Start, VaultAnswers, Refused, Killed,
             GatewayStarts, GatewayStops
  <1> QED BY <1>1, Invariance, PTL DEF Spec, SummarisedByGateway

(* What a run of the script that nothing has troubled can count on at each of *)
(* its commands, whatever earlier runs left behind: that the commands before  *)
(* it have seen to what they are there for.                                   *)
OnCourse ==
    /\ step \notin {"idle", "failed"}
    /\ step \in {"mount", "role", "role_id", "destroy", "secret_id", "exited"} => "policy" \in has
    /\ step \in {"role", "role_id", "destroy", "secret_id", "exited"} => "mount" \in has
    /\ step \in {"role_id", "destroy", "secret_id", "exited"} => "role" \in has
    /\ step \in {"destroy", "secret_id", "exited"} => "role_id" \in has
    /\ step = "secret_id" => "secret_id" \notin has
    /\ step = "exited" => "secret_id" \in has

(* A run starts on course.  Without trouble it stays there, and the next      *)
(* command is all that can come of a command.                                 *)
GetsThrough ==
    /\ Start => OnCourse'
    /\ OnCourse /\ ~Trouble =>
          /\ OnCourse'
          /\ step \in Commands => step' \in {step, After(step)}
          /\ VaultAnswers \/ Succeeds \/ Refused => step' = After(step)

(* Commands without trouble, one by one: none of them ends the script early.  *)
LEMMA CommandOnCourse ==
    ASSUME TypeOK, OnCourse, Succeeds \/ Refused
    PROVE  OnCourse' /\ step' = After(step) /\ step' # step
  <1>1. step \in Commands \ {"status"}
    BY DEF Succeeds, Refused
  <1>2. CASE Succeeds
    BY <1>1, <1>2, OneCommand DEF Succeeds, Goes, OnCourse
  <1>3. CASE Refused
    BY <1>1, <1>3, OneCommand DEF Refused, AfterFailure, Goes, OnCourse
  <1> QED BY <1>2, <1>3

(* Whatever was left behind, a run that is not troubled walks through all its *)
(* commands to the end, where Vault has everything: the part of RerunRepairs  *)
(* that is not about fairness.                                                *)
THEOREM UntroubledRunsGetThrough ==
    Spec => [][GetsThrough]_vars /\ [](OnCourse /\ step = "exited" => has = Part)
  <1>1. IInv /\ [Next]_vars => [GetsThrough]_vars
    <2> SUFFICES ASSUME IInv, Next PROVE GetsThrough
      OBVIOUS
    <2>1. ASSUME Start PROVE OnCourse'
      BY <2>1 DEF Start, OnCourse
    <2>2. ASSUME VaultAnswers
          PROVE  OnCourse' /\ step' = After(step) /\ step \in Commands
      BY <2>2, Order DEF VaultAnswers, Goes, OnCourse
    <2>3. ASSUME OnCourse, Succeeds \/ Refused
          PROVE  OnCourse' /\ step' = After(step) /\ step \in Commands
      BY <2>3, CommandOnCourse DEF IInv, Succeeds, Refused
    <2>4. ASSUME OnCourse, ~Trouble
          PROVE  OnCourse' /\ (step \in Commands => step' \in {step, After(step)})
      <3>1. CASE Succeeds \/ Refused
        BY <2>3, <2>4, <3>1
      <3>2. CASE Start
        BY <2>1, <3>2 DEF Start
      <3>3. CASE VaultAnswers
        BY <2>2, <3>3
      <3>4. CASE GatewayStarts \/ GatewayStops
        BY <2>4, <3>4 DEF GatewayStarts, GatewayStops, OnCourse
      <3>5. CASE (Lost \/ Killed \/ VaultRestart) /\ ~Refused
        BY <2>4, <3>5 DEF Trouble
      <3> QED BY <3>1, <3>2, <3>3, <3>4, <3>5 DEF Next
    <2> QED BY <2>1, <2>2, <2>3, <2>4 DEF GetsThrough
  <1>2. IInv => (OnCourse /\ step = "exited" => has = Part)
    <2> SUFFICES ASSUME IInv, OnCourse, step = "exited" PROVE has = Part
      OBVIOUS
    <2>1. has \subseteq Part
      BY DEF IInv, TypeOK
    <2>2. /\ "policy" \in has /\ "mount" \in has /\ "role" \in has
          /\ "role_id" \in has /\ "secret_id" \in has
      BY DEF OnCourse
    <2> QED BY <2>1, <2>2 DEF Part
  <1> QED BY <1>1, <1>2, Invariance, PTL DEF Spec
=============================================================================
