------------------------- MODULE KeycloakSetupProofs ------------------------
(* The realm provisioning script, for any number of runs and of changes made *)
(* by hand.  What a step of a run may do is one relation (StepOf), shown of  *)
(* each call of the script in turn; the invariant then rests on that alone.  *)
EXTENDS KeycloakSetup, TLAPS

(* What can be misconfigured: the things some stage puts right again, and    *)
(* the mappers, which none does.                                             *)
Breakable == {"client", "saml", "mapper", "user", "password", "role_list"}

Stages == 1..15

(* The stages whose POST two runs can be at together, the client being there *)
(* since the import.                                                         *)
Contested == {5, 7, 9, 12}

Kind(p) == Program[p.stage].kind
Wants(p) == Program[p.stage].makes

-----------------------------------------------------------------------------
(* The program, stage by stage *)

(* The fifteen stages of main(), in their order.                             *)
LEMMA Table ==
    /\ Len(Program) = 15
    /\ Program[1] = Stage("import", {<<"realm">>})
    /\ Program[2] = Stage("list", {<<"role", "manager">>})
    /\ Program[3] = Stage("object", {<<"client">>})
    /\ Program[4] = Stage("fix", {<<"role_list">>})
    /\ Program[5] = Stage("object", {<<"saml", "docs">>})
    /\ Program[6] = Stage("list", {<<"mapper", "docs", m>> : m \in Mapper})
    /\ Program[7] = Stage("object", {<<"saml", "dashboard">>})
    /\ Program[8] = Stage("list", {<<"mapper", "dashboard", m>> : m \in Mapper})
    /\ Program[9] = Stage("object", {<<"user", "testuser">>})
    /\ Program[10] = Stage("set", {<<"password", "testuser">>})
    /\ Program[11] = Stage("list", {})
    /\ Program[12] = Stage("object", {<<"user", "manageruser">>})
    /\ Program[13] = Stage("set", {<<"password", "manageruser">>})
    /\ Program[14] = Stage("list", {<<"manager", "manageruser">>})
    /\ Program[15] = Stage("secret", {})
  <1> USE DEF Program, SamlStages, UserStages
  <1>0. Len(Program) = 15
    OBVIOUS
  <1>1. Program[1] = Stage("import", {<<"realm">>})
    OBVIOUS
  <1>2. Program[2] = Stage("list", {<<"role", "manager">>})
    OBVIOUS
  <1>3. Program[3] = Stage("object", {<<"client">>})
    OBVIOUS
  <1>4. Program[4] = Stage("fix", {<<"role_list">>})
    OBVIOUS
  <1>5. Program[5] = Stage("object", {<<"saml", "docs">>})
    OBVIOUS
  <1>6. Program[6] = Stage("list", {<<"mapper", "docs", m>> : m \in Mapper})
    OBVIOUS
  <1>7. Program[7] = Stage("object", {<<"saml", "dashboard">>})
    OBVIOUS
  <1>8. Program[8] = Stage("list", {<<"mapper", "dashboard", m>> : m \in Mapper})
    OBVIOUS
  <1>9. Program[9] = Stage("object", {<<"user", "testuser">>})
    OBVIOUS
  <1>10. Program[10] = Stage("set", {<<"password", "testuser">>})
    OBVIOUS
  <1>11. Program[11] = Stage("list", {})
    BY DEF RealmRoles
  <1>12. Program[12] = Stage("object", {<<"user", "manageruser">>})
    OBVIOUS
  <1>13. Program[13] = Stage("set", {<<"password", "manageruser">>})
    OBVIOUS
  <1>14. Program[14] = Stage("list", {<<"manager", "manageruser">>})
    BY DEF RealmRoles
  <1>15. Program[15] = Stage("secret", {})
    OBVIOUS
  <1> HIDE DEF Program, SamlStages, UserStages
  <1> QED
    BY <1>0, <1>1, <1>2, <1>3, <1>4, <1>5, <1>6, <1>7, <1>8, <1>9, <1>10, <1>11, <1>12,
       <1>13, <1>14, <1>15

(* What a stage of each kind is about: one breakable thing to make, find and *)
(* put right, or a list of others to add to.                                 *)
StageFacts(n) ==
    LET kind == Program[n].kind
        makes == Program[n].makes
    IN  /\ kind = "import" => n = 1 /\ makes = {<<"realm">>}
        /\ kind = "secret" <=> n = 15
        /\ kind = "fix" => n = 4 /\ makes = {<<"role_list">>}
        /\ kind = "object" => n \in Contested \/ (n = 3 /\ makes = {<<"client">>})
        /\ kind = "set" => \E u \in User : makes = {<<"password", u>>}
        /\ kind = "list" => \A x \in makes : x[1] \in {"role", "mapper", "manager"}
        /\ makes \subseteq Thing

LEMMA StageTable ==
    ASSUME NEW n \in Stages
    PROVE  StageFacts(n)
  <1> USE Table DEF StageFacts, Stage, Contested
  <1>1. CASE n = 1
    BY <1>1 DEF Thing
  <1>2. CASE n = 2
    BY <1>2 DEF Thing
  <1>3. CASE n = 3
    BY <1>3 DEF Thing
  <1>4. CASE n = 4
    BY <1>4 DEF Thing
  <1>5. CASE n = 5
    BY <1>5 DEF Thing, Saml
  <1>6. CASE n = 6
    BY <1>6 DEF Thing, Saml
  <1>7. CASE n = 7
    BY <1>7 DEF Thing, Saml
  <1>8. CASE n = 8
    BY <1>8 DEF Thing, Saml
  <1>9. CASE n = 9
    BY <1>9 DEF Thing, User
  <1>10. CASE n = 10
    BY <1>10 DEF Thing, User
  <1>11. CASE n = 11
    BY <1>11
  <1>12. CASE n = 12
    BY <1>12 DEF Thing, User
  <1>13. CASE n = 13
    BY <1>13 DEF Thing, User
  <1>14. CASE n = 14
    BY <1>14 DEF Thing, User
  <1>15. CASE n = 15
    BY <1>15
  <1> HIDE Table DEF StageFacts, Stage, Contested
  <1>16. n \in {1, 2, 3, 4, 5, 6, 7, 8, 9, 10, 11, 12, 13, 14, 15}
    BY DEF Stages
  <1> QED
    BY <1>1, <1>2, <1>3, <1>4, <1>5, <1>6, <1>7, <1>8, <1>9, <1>10, <1>11, <1>12, <1>13,
       <1>14, <1>15, <1>16

(* The contested stages make a SAML client or an account, each its own.      *)
LEMMA ContestedStages ==
    ASSUME NEW n \in Contested
    PROVE  /\ n \in Stages
           /\ Program[n].kind = "object"
           /\ \E x \in Thing : Program[n].makes = {x} /\ x[1] \in {"saml", "user"}
           /\ \A k \in Contested : Program[k].makes = Program[n].makes => k = n
  <1>1. n \in Stages
    BY DEF Contested, Stages
  <1>2. Program[n].kind = "object"
    BY Table DEF Contested, Stage
  <1>3. /\ Program[5].makes = {<<"saml", "docs">>} /\ Program[7].makes = {<<"saml", "dashboard">>}
        /\ Program[9].makes = {<<"user", "testuser">>}
        /\ Program[12].makes = {<<"user", "manageruser">>}
    BY Table DEF Stage
  <1>4. /\ <<"saml", "docs">> \in Thing /\ <<"saml", "dashboard">> \in Thing
        /\ <<"user", "testuser">> \in Thing /\ <<"user", "manageruser">> \in Thing
    BY DEF Thing, Saml, User
  <1>5. \E x \in Thing : Program[n].makes = {x} /\ x[1] \in {"saml", "user"}
    BY <1>3, <1>4 DEF Contested
  <1>6. ASSUME NEW k \in Contested, Program[k].makes = Program[n].makes
        PROVE  k = n
    <2> DEFINE made(c) == Program[c].makes
    <2>1. \A x, y : {x} = {y} => x = y
      BY Zenon
    <2>2. /\ made(5) # made(7) /\ made(5) # made(9) /\ made(5) # made(12)
          /\ made(7) # made(9) /\ made(7) # made(12) /\ made(9) # made(12)
      <3> DEFINE docs == <<"saml", "docs">>  dashboard == <<"saml", "dashboard">>
                 test == <<"user", "testuser">>  manager == <<"user", "manageruser">>
      <3>1. /\ docs # dashboard /\ docs # test /\ docs # manager
            /\ dashboard # test /\ dashboard # manager /\ test # manager
        OBVIOUS
      <3>2. /\ made(5) = {docs} /\ made(7) = {dashboard}
            /\ made(9) = {test} /\ made(12) = {manager}
        BY <1>3
      <3> HIDE DEF docs, dashboard, test, manager, made
      <3> QED BY <2>1, <3>1, <3>2
    <2>3. made(k) = made(n)
      BY <1>6
    <2>4. /\ k = 5 \/ k = 7 \/ k = 9 \/ k = 12
          /\ n = 5 \/ n = 7 \/ n = 9 \/ n = 12
      BY DEF Contested
    <2> HIDE DEF made
    <2> QED BY <2>2, <2>3, <2>4
  <1> QED BY <1>1, <1>2, <1>5, <1>6

-----------------------------------------------------------------------------
(* The inductive invariant *)

(* The calls a stage of each kind makes after its first.                     *)
Fits(kind, do, todo) ==
    /\ do = "make" => kind \in {"import", "list", "object", "secret"}
    /\ (do = "make" /\ kind = "list") => todo # {}
    /\ do = "put" => kind \in {"object", "fix"}
    /\ do = "read" => kind \in {"object", "fix"}

(* A run begins with the first stage and ends in the last, makes the calls   *)
(* of its stage, and has left to add only what that wants.                   *)
RunShape(p) ==
    /\ Fits(Kind(p), p.do, p.todo)
    /\ p.do = "ready" => p.stage = 1
    /\ p.do = "done" => p.stage = 15
    /\ p.todo \subseteq Wants(p)

(* Nothing is there without the realm, and only what can be misconfigured    *)
(* is.                                                                       *)
WorldInv ==
    /\ \A x \in broken : x[1] \in Breakable
    /\ has # {} => <<"realm">> \in has

(* What a stage leaves behind it: its things are there, except that a        *)
(* role_list scope may be missing, and as they should be, except that those  *)
(* of a list were passed over if they were there.                            *)
Achieved(n, things, bad) ==
    /\ Program[n].kind # "fix" => Program[n].makes \subseteq things
    /\ Program[n].kind # "list" => Program[n].makes \cap bad = {}

(* An undisturbed run has achieved the stages behind it, and stands firm in  *)
(* its own: what it does not have left to add is there, what it found or     *)
(* created still is, and what it created is as it should be.                 *)
Firm(p, things, bad) ==
    (p.calm /\ p.do # "ready") =>
        /\ \A n \in Stages : n < p.stage => Achieved(n, things, bad)
        /\ (Kind(p) = "list" /\ p.do = "make") => Wants(p) \subseteq things \cup p.todo
        /\ p.do \in {"put", "read"} => Wants(p) \subseteq things
        /\ (Kind(p) = "object" /\ p.do = "read") => Wants(p) \cap bad = {}

FirmInv == \A r \in Run : Firm(run[r], has, broken)

(* A run that is alone so far has nobody beside it.                          *)
AloneInv ==
    \A r, q \in Run : (Working(r) /\ run[r].alone /\ q # r) => ~Working(q)

(* A run that is about to put back no secret but this one, and about to have *)
(* none regenerated.                                                         *)
Harmless(p, value) ==
    /\ (Kind(p) = "object" /\ p.do = "put" /\ Wants(p) = {<<"client">>}) => p.seen = value
    /\ ~(Kind(p) = "secret" /\ p.do = "make")

(* The secret a run printed with nobody beside it is real, is the client's,  *)
(* and no run that came later is about to change it.                         *)
SecretInv ==
    \A r \in Run :
        (run[r].do = "done" /\ run[r].calm /\ run[r].alone /\ run[r].printed # Nothing) =>
            /\ run[r].printed = secret /\ secret # Masked
            /\ \A q \in Run : Harmless(run[q], secret)

(* A run alone is not about to change a real secret.                         *)
SoloInv ==
    \A r \in Run :
        (Working(r) /\ run[r].alone /\ secret # Masked) => Harmless(run[r], secret)

(* Who created the object of a stage is past it, reading it back or dead.    *)
Ahead(p, n) == p.stage > n \/ (p.stage = n /\ p.do \in {"read", "dead"})

(* While nobody meddles, the client comes with the realm, so that no run     *)
(* creates it; a run is beaten where the object is there, and where it is    *)
(* there some run is ahead.                                                  *)
RaceInv ==
    meddled = 0 =>
        /\ \A r \in Run : run[r].calm
        /\ <<"realm">> \in has => <<"client">> \in has
        /\ \A r \in Run :
              /\ (Kind(run[r]) = "object" /\ run[r].do = "make") => run[r].stage \in Contested
              /\ run[r].do = "beaten" =>
                    run[r].stage \in Contested /\ Wants(run[r]) \subseteq has
        /\ \A n \in Contested :
              Program[n].makes \subseteq has => \E r \in Run : Ahead(run[r], n)

ShapeInv == \A r \in Run : RunShape(run[r])

IInv ==
    /\ TypeOK /\ ShapeInv /\ WorldInv
    /\ FirmInv /\ AloneInv /\ SecretInv /\ SoloInv /\ RaceInv

-----------------------------------------------------------------------------
(* What a step of a run may do *)

(* Only this run moves, and it was at work.                                  *)
Moves(r) ==
    /\ Working(r)
    /\ run' \in [Run -> Progress]
    /\ \A q \in Run \ {r} : run'[q] = run[q]
    /\ run'[r].calm = run[r].calm /\ run'[r].alone = run[r].alone
    /\ run'[r].do # "ready"
    /\ RunShape(run'[r])

(* Things are only added, and nothing is spoiled that was there.             *)
Builds ==
    /\ has' \subseteq Thing /\ broken' \subseteq has'
    /\ secret' \in 0..MaxSecret /\ secrets' \in 0..MaxSecret
    /\ meddled' = meddled
    /\ has \subseteq has'
    /\ <<"realm">> \in has => broken' \subseteq broken
    /\ WorldInv'

(* A run leaves a stage when it has achieved it.                             *)
Achieves(r) ==
    LET p == run[r]  q == run'[r] IN
    \/ /\ q.stage = p.stage + 1 /\ q.do = "look"
       /\ p.calm => Achieved(p.stage, has', broken')
    \/ /\ q.stage = p.stage
       /\ (p.calm /\ Kind(p) = "list" /\ q.do = "make") => Wants(p) \subseteq has' \cup q.todo
       /\ (p.calm /\ q.do \in {"put", "read"}) => Wants(p) \subseteq has'
       /\ (p.calm /\ Kind(p) = "object" /\ q.do = "read") => Wants(p) \cap broken' = {}

(* A run that finds a real secret lets it be, is next about to put back no   *)
(* other, and prints what is there.                                          *)
KeepsSecret(r) ==
    LET p == run[r]  q == run'[r] IN
    /\ ({<<"realm">>, <<"client">>} \subseteq has /\ secret # Masked /\ Harmless(p, secret)) =>
          secret' = secret /\ Harmless(q, secret)
    /\ secret' # Masked => Harmless(q, secret')
    /\ (q.do = "done" /\ q.printed # Nothing) => q.printed = secret' /\ secret' # Masked

(* Who creates the object of a stage reads it back next.                     *)
Races(r) ==
    LET p == run[r]  q == run'[r] IN
    /\ <<"realm">> \in has' => <<"realm">> \in has \/ <<"client">> \in has'
    /\ (Kind(q) = "object" /\ q.do = "make" /\ <<"client">> \in has) => q.stage \in Contested
    /\ q.do = "beaten" =>
          Kind(p) = "object" /\ p.do = "make" /\ q.stage = p.stage /\ Wants(p) \subseteq has'
    /\ \A n \in Contested :
          Program[n].makes \subseteq has' =>
              Program[n].makes \subseteq has \/ (q.stage = n /\ q.do = "read")
    /\ \A n \in Contested : Ahead(p, n) => Ahead(q, n)

StepOf(r) ==
    Moves(r) /\ Builds /\ Achieves(r) /\ KeepsSecret(r) /\ Races(r)

-----------------------------------------------------------------------------
(* How a run moves *)

(* The new progress of a run, component by component.                        *)
Turns(r, stage, do, todo, seen, printed) ==
    /\ run' \in [Run -> Progress]
    /\ \A q \in Run \ {r} : run'[q] = run[q]
    /\ run'[r].stage = stage /\ run'[r].do = do /\ run'[r].todo = todo
    /\ run'[r].seen = seen /\ run'[r].printed = printed
    /\ run'[r].calm = run[r].calm /\ run'[r].alone = run[r].alone

(* An update of one run's record, whatever it becomes.                       *)
LEMMA TurnsTo ==
    ASSUME run \in [Run -> Progress], NEW r \in Run, NEW new \in Progress,
           run' = [run EXCEPT ![r] = new],
           new.calm = run[r].calm, new.alone = run[r].alone
    PROVE  Turns(r, new.stage, new.do, new.todo, new.seen, new.printed)
  BY DEF Turns

(* On to the next stage; all but the last have one.                          *)
LEMMA NextStageTurns ==
    ASSUME TypeOK, NEW r \in Run, Kind(run[r]) # "secret", NextStage(r)
    PROVE  /\ run[r].stage + 1 \in Stages
           /\ Turns(r, run[r].stage + 1, "look", {}, run[r].seen, run[r].printed)
  <1> DEFINE p == run[r]
             new == [p EXCEPT !.stage = @ + 1, !.do = "look", !.todo = {}]
  <1>1. run \in [Run -> Progress] /\ p \in Progress
    BY DEF TypeOK
  <1>2. p.stage \in Stages /\ p.stage # 15
    BY <1>1, Table DEF Progress, Stages, Kind, Stage
  <1>3. p.stage + 1 \in 1..Len(Program)
    BY <1>2, Table DEF Stages
  <1>4. new \in Progress
    BY <1>1, <1>3 DEF Progress
  <1>5. /\ new.stage = p.stage + 1 /\ new.do = "look" /\ new.todo = {}
        /\ new.seen = p.seen /\ new.printed = p.printed
        /\ new.calm = p.calm /\ new.alone = p.alone
    BY <1>1 DEF Progress
  <1>6. run' = [run EXCEPT ![r] = new]
    BY <1>1 DEF NextStage
  <1> HIDE DEF new
  <1>7. Turns(r, new.stage, new.do, new.todo, new.seen, new.printed)
    BY <1>1, <1>4, <1>5, <1>6, TurnsTo
  <1> QED BY <1>3, <1>5, <1>7, Table DEF Stages

(* On to another call of the same stage.                                     *)
LEMMA GoesTurns ==
    ASSUME TypeOK, NEW r \in Run, NEW do \in {"make", "put", "read"}, Goes(r, do)
    PROVE  Turns(r, run[r].stage, do, run[r].todo, run[r].seen, run[r].printed)
  <1> DEFINE p == run[r]
             new == [p EXCEPT !.do = do]
  <1>1. run \in [Run -> Progress] /\ p \in Progress
    BY DEF TypeOK
  <1>2. new \in Progress
    BY <1>1 DEF Progress
  <1>3. /\ new.stage = p.stage /\ new.do = do /\ new.todo = p.todo
        /\ new.seen = p.seen /\ new.printed = p.printed
        /\ new.calm = p.calm /\ new.alone = p.alone
    BY <1>1 DEF Progress
  <1>4. run' = [run EXCEPT ![r] = new]
    BY <1>1 DEF Goes
  <1> HIDE DEF new
  <1> QED BY <1>1, <1>2, <1>3, <1>4, TurnsTo

(* To a bad end.                                                             *)
LEMMA EndsTurns ==
    ASSUME TypeOK, NEW r \in Run, NEW how \in {"dead", "beaten"}, Ends(r, how)
    PROVE  Turns(r, run[r].stage, how, {}, run[r].seen, run[r].printed)
  <1> DEFINE p == run[r]
             new == [p EXCEPT !.do = how, !.todo = {}]
  <1>1. run \in [Run -> Progress] /\ p \in Progress
    BY DEF TypeOK
  <1>2. new \in Progress
    BY <1>1 DEF Progress
  <1>3. /\ new.stage = p.stage /\ new.do = how /\ new.todo = {}
        /\ new.seen = p.seen /\ new.printed = p.printed
        /\ new.calm = p.calm /\ new.alone = p.alone
    BY <1>1 DEF Progress
  <1>4. run' = [run EXCEPT ![r] = new]
    BY <1>1 DEF Ends
  <1> HIDE DEF new
  <1> QED BY <1>1, <1>2, <1>3, <1>4, TurnsTo

(* To the end.                                                               *)
LEMMA PrintsTurns ==
    ASSUME TypeOK, NEW r \in Run, NEW value \in Nothing..MaxSecret, Prints(r, value)
    PROVE  Turns(r, run[r].stage, "done", run[r].todo, run[r].seen, value)
  <1> DEFINE p == run[r]
             new == [p EXCEPT !.do = "done", !.printed = value]
  <1>1. run \in [Run -> Progress] /\ p \in Progress
    BY DEF TypeOK
  <1>2. Len(Program) \in Nat
    BY Table
  <1>3. new \in Progress
    BY <1>1, <1>2 DEF Progress
  <1>4. /\ new.stage = p.stage /\ new.do = "done" /\ new.todo = p.todo
        /\ new.seen = p.seen /\ new.printed = value
        /\ new.calm = p.calm /\ new.alone = p.alone
    BY <1>1 DEF Progress
  <1>5. run' = [run EXCEPT ![r] = new]
    BY <1>1 DEF Prints
  <1> HIDE DEF new
  <1> QED BY <1>1, <1>3, <1>4, <1>5, TurnsTo

(* The rest of what a move is follows from where it ends.                    *)
LEMMA TurnsAreMoves ==
    ASSUME NEW r, NEW stage, NEW do, NEW todo, NEW seen, NEW printed,
           Turns(r, stage, do, todo, seen, printed), Working(r),
           do # "ready", do = "done" => stage = 15, todo \subseteq Program[stage].makes,
           Fits(Program[stage].kind, do, todo)
    PROVE  Moves(r)
  BY DEF Turns, Moves, RunShape, Kind, Wants

-----------------------------------------------------------------------------
(* What the realm has been through *)

(* Nothing is built by a call that only looks.                               *)
LEMMA NothingBuilt ==
    ASSUME IInv, UNCHANGED <<keycloak, meddled>>
    PROVE  /\ Builds
           /\ has' = has /\ broken' = broken /\ secret' = secret
  BY DEF IInv, TypeOK, WorldInv, keycloak, Builds

(* A run at work is in one of the stages, which are as in the table.         *)
LEMMA InAStage ==
    ASSUME TypeOK, NEW r \in Run
    PROVE  run[r] \in Progress /\ run[r].stage \in Stages /\ StageFacts(run[r].stage)
  <1>1. run[r] \in Progress
    BY DEF TypeOK
  <1>2. run[r].stage \in Stages
    BY <1>1, Table DEF Progress, Stages
  <1> QED BY <1>1, <1>2, StageTable

(* What holds of a step that takes a run to its next stage.                  *)
LEMMA Passes ==
    ASSUME IInv, NEW r \in Run, Working(r), Kind(run[r]) # "secret", NextStage(r),
           Builds,
           run[r].calm => Achieved(run[r].stage, has', broken'),
           ({<<"realm">>, <<"client">>} \subseteq has /\ secret # Masked /\ Harmless(run[r], secret))
               => secret' = secret,
           <<"realm">> \in has' => <<"realm">> \in has \/ <<"client">> \in has',
           \A n \in Contested : Program[n].makes \subseteq has' => Program[n].makes \subseteq has
    PROVE  StepOf(r)
  <1> DEFINE p == run[r]  q == run'[r]
  <1>0. TypeOK /\ p.stage \in Stages
    BY InAStage DEF IInv
  <1>1. /\ p.stage + 1 \in Stages
        /\ Turns(r, p.stage + 1, "look", {}, p.seen, p.printed)
    BY <1>0, NextStageTurns
  <1>2. q.stage = p.stage + 1 /\ q.do = "look"
    BY <1>1 DEF Turns
  <1>3. Moves(r)
    BY <1>1, TurnsAreMoves DEF Fits
  <1>4. Achieves(r)
    BY <1>2 DEF Achieves
  <1>5. KeepsSecret(r)
    BY <1>2 DEF KeepsSecret, Harmless
  <1>6. ASSUME NEW n \in Contested, Ahead(p, n) PROVE Ahead(q, n)
    <2>1. n \in Stages
      BY ContestedStages
    <2> QED BY <1>0, <1>2, <1>6, <2>1 DEF Ahead, Stages
  <1>7. Races(r)
    BY <1>2, <1>6 DEF Races
  <1> QED BY <1>3, <1>4, <1>5, <1>7 DEF StepOf

(* The same of a step that changes nothing in the realm.                     *)
LEMMA PassesOn ==
    ASSUME IInv, NEW r \in Run, Working(r), Kind(run[r]) # "secret", NextStage(r),
           UNCHANGED <<keycloak, meddled>>,
           run[r].calm => Achieved(run[r].stage, has, broken)
    PROVE  StepOf(r)
  <1>1. Builds /\ has' = has /\ broken' = broken /\ secret' = secret
    BY NothingBuilt
  <1> QED BY <1>1, Passes

(* What holds of a step that leaves a run in its stage, and the realm alone. *)
LEMMA StaysOn ==
    ASSUME IInv, NEW r \in Run, Working(r), UNCHANGED <<keycloak, meddled>>,
           NEW do \in {"make", "put", "read", "done", "dead", "beaten"},
           NEW todo \in SUBSET Wants(run[r]), NEW seen, NEW printed,
           Turns(r, run[r].stage, do, todo, seen, printed),
           Fits(Kind(run[r]), do, todo),
           (run[r].calm /\ Kind(run[r]) = "list" /\ do = "make") =>
               Wants(run[r]) \subseteq has \cup todo,
           (run[r].calm /\ do \in {"put", "read"}) => Wants(run[r]) \subseteq has,
           (run[r].calm /\ Kind(run[r]) = "object" /\ do = "read") =>
               Wants(run[r]) \cap broken = {},
           (Kind(run[r]) = "object" /\ do = "put" /\ Wants(run[r]) = {<<"client">>}) =>
               seen = secret,
           (Kind(run[r]) = "secret" /\ do = "make") => secret = Masked,
           do = "done" => run[r].stage = 15,
           (do = "done" /\ printed # Nothing) => printed = secret /\ secret # Masked,
           (Kind(run[r]) = "object" /\ do = "make" /\ <<"client">> \in has) =>
               run[r].stage \in Contested,
           do = "beaten" =>
               Kind(run[r]) = "object" /\ run[r].do = "make" /\ Wants(run[r]) \subseteq has,
           (Kind(run[r]) = "object" /\ run[r].do = "read") => do \in {"read", "dead"}
    PROVE  StepOf(r)
  <1> DEFINE p == run[r]  q == run'[r]
  <1>1. Builds /\ has' = has /\ broken' = broken /\ secret' = secret
    BY NothingBuilt
  <1>2. /\ q.stage = p.stage /\ q.do = do /\ q.todo = todo
        /\ q.seen = seen /\ q.printed = printed
    BY DEF Turns
  <1>3. Kind(q) = Kind(p) /\ Wants(q) = Wants(p)
    BY <1>2 DEF Kind, Wants
  <1>4. Moves(r)
    BY TurnsAreMoves DEF Kind, Wants
  <1>5. Achieves(r)
    BY <1>1, <1>2, <1>3 DEF Achieves
  <1>6. KeepsSecret(r)
    BY <1>1, <1>2, <1>3 DEF KeepsSecret, Harmless
  <1>7. ASSUME NEW n \in Contested, Ahead(p, n) PROVE Ahead(q, n)
    <2>1. p.stage = n => Kind(p) = "object"
      BY ContestedStages DEF Kind
    <2> QED BY <1>2, <1>7, <2>1 DEF Ahead, Working
  <1>8. Races(r)
    BY <1>1, <1>2, <1>3, <1>7 DEF Races
  <1> QED BY <1>1, <1>4, <1>5, <1>6, <1>8 DEF StepOf

-----------------------------------------------------------------------------
(* Each call of the script *)

(* The run is where its call is made, and wants what the call is about.      *)
LEMMA AtIs ==
    ASSUME NEW r, NEW kind, NEW do \in {"look", "make", "put", "read"}, At(r, kind, do)
    PROVE  Working(r) /\ run[r].do = do /\ Kind(run[r]) = kind /\ Makes(r) = Wants(run[r])
  BY DEF At, Working, Kind, Wants, Makes

(* What a run hangs on at each call.                                         *)
LEMMA Hanging ==
    ASSUME NEW r
    PROVE  LET p == run[r] IN
           /\ Kind(p) = "import" => HangsOn(r) = {}
           /\ Kind(p) = "secret" => HangsOn(r) = {<<"client">>}
           /\ (Kind(p) \notin {"import", "secret"} /\ p.do = "look") =>
                 HangsOn(r) = Above(Wants(p)) \ {<<"role", "manager">>}
           /\ (Kind(p) = "list" /\ p.do = "make") => HangsOn(r) = Above(p.todo)
           /\ (Kind(p) = "object" /\ p.do = "make") => HangsOn(r) = Above(Wants(p))
           /\ (Kind(p) \notin {"import", "secret"} /\ p.do \in {"read", "put"}) =>
                 HangsOn(r) = Wants(p)
  <1> DEFINE p == run[r]
  <1>1. Program[p.stage].kind = Kind(p) /\ Makes(r) = Wants(p)
    BY DEF Kind, Wants, Makes
  <1>2. Kind(p) = "import" => HangsOn(r) = {}
    BY <1>1 DEF HangsOn
  <1>3. Kind(p) = "secret" => HangsOn(r) = {<<"client">>}
    BY <1>1 DEF HangsOn
  <1>4. (Kind(p) \notin {"import", "secret"} /\ p.do = "look") =>
            HangsOn(r) = Above(Wants(p)) \ {<<"role", "manager">>}
    BY <1>1 DEF HangsOn
  <1>5. (Kind(p) = "list" /\ p.do = "make") => HangsOn(r) = Above(p.todo)
    BY <1>1 DEF HangsOn
  <1>6. (Kind(p) = "object" /\ p.do = "make") => HangsOn(r) = Above(Wants(p))
    BY <1>1 DEF HangsOn
  <1>7. (Kind(p) \notin {"import", "secret"} /\ p.do \in {"read", "put"}) => HangsOn(r) = Wants(p)
    BY <1>1 DEF HangsOn
  <1> QED BY <1>2, <1>3, <1>4, <1>5, <1>6, <1>7

(* Whatever is above anything needs the realm.                               *)
LEMMA RealmIsAbove ==
    ASSUME NEW things, NEW x \in things
    PROVE  <<"realm">> \in Above(things) /\ Needs(x) \subseteq Above(things)
  <1>1. <<"realm">> \in Needs(x)
    BY DEF Needs
  <1>2. Needs(x) \subseteq Above(things)
    BY DEF Above
  <1> QED BY <1>1, <1>2

(* The first look at the realm.                                              *)
LEMMA RealmThereStep ==
    ASSUME IInv, NEW r \in Run, RealmThere(r)
    PROVE  StepOf(r)
  <1> DEFINE p == run[r]
  <1>1. /\ Working(r) /\ p.do = "look" /\ Kind(p) = "import"
        /\ UNCHANGED <<keycloak, meddled>>
    BY AtIs DEF RealmThere
  <1>2. /\ TypeOK /\ WorldInv /\ p.todo \subseteq Wants(p)
        /\ Program[p.stage].kind = "import" /\ Wants(p) = {<<"realm">>}
        /\ Program[p.stage].makes = {<<"realm">>}
    BY <1>1, InAStage DEF IInv, ShapeInv, RunShape, StageFacts, Kind, Wants
  <1>3. CASE <<"realm">> \in has /\ NextStage(r)
    <2>1. <<"realm">> \notin broken
      BY <1>2 DEF WorldInv, Breakable
    <2>2. Achieved(p.stage, has, broken)
      BY <1>2, <1>3, <2>1 DEF Achieved
    <2> QED BY <1>1, <1>3, <2>2, PassesOn
  <1>4. CASE Goes(r, "make")
    <2>1. Turns(r, p.stage, "make", p.todo, p.seen, p.printed)
      BY <1>2, <1>4, GoesTurns
    <2> QED BY <1>1, <1>2, <2>1, StaysOn DEF Fits
  <1> QED BY <1>3, <1>4 DEF RealmThere

(* The import: where the realm is there by now, it changes nothing, and a    *)
(* fresh one comes with the client.                                          *)
LEMMA ImportRealmStep ==
    ASSUME IInv, NEW r \in Run, ImportRealm(r)
    PROVE  StepOf(r)
  <1> DEFINE p == run[r]
  <1>1. /\ Working(r) /\ Kind(p) = "import" /\ NextStage(r) /\ meddled' = meddled
    BY AtIs DEF ImportRealm
  <1>2. /\ TypeOK /\ WorldInv /\ Program[p.stage].makes = {<<"realm">>}
    BY <1>1, InAStage DEF IInv, StageFacts, Kind
  <1>3. CASE <<"realm">> \in has /\ UNCHANGED keycloak
    <2>1. <<"realm">> \notin broken
      BY <1>2 DEF WorldInv, Breakable
    <2>2. Achieved(p.stage, has, broken)
      BY <1>2, <1>3, <2>1 DEF Achieved
    <2> QED BY <1>1, <1>3, <2>2, PassesOn
  <1>4. CASE /\ <<"realm">> \notin has
             /\ has' = Imported /\ broken' = {<<"role_list">>} /\ secret' = Masked
             /\ UNCHANGED secrets
    <2>1. has = {}
      BY <1>2, <1>4 DEF WorldInv
    <2>2. has' \subseteq Thing /\ broken' \subseteq has' /\ WorldInv'
      BY <1>4 DEF Imported, Thing, WorldInv, Breakable
    <2>3. secret' \in 0..MaxSecret /\ secrets' \in 0..MaxSecret
      BY <1>2, <1>4, BoundAssumption DEF TypeOK, Masked
    <2>4. Builds
      BY <1>1, <1>4, <2>1, <2>2, <2>3 DEF Builds
    <2>5. Achieved(p.stage, has', broken')
      BY <1>2, <1>4 DEF Achieved, Imported
    <2>6. ASSUME NEW n \in Contested, Program[n].makes \subseteq has' PROVE FALSE
      <3>1. PICK x \in Thing : Program[n].makes = {x} /\ x[1] \in {"saml", "user"}
        BY ContestedStages
      <3> QED BY <1>4, <2>6, <3>1 DEF Imported
    <2>7. <<"client">> \in has'
      BY <1>4 DEF Imported
    <2> QED BY <1>1, <1>4, <2>4, <2>5, <2>6, <2>7, Passes
  <1> QED BY <1>3, <1>4 DEF ImportRealm

(* A listing.                                                                *)
LEMMA ListStep ==
    ASSUME IInv, NEW r \in Run, List(r)
    PROVE  StepOf(r)
  <1> DEFINE p == run[r]
             new == [p EXCEPT !.do = "make", !.todo = Wants(p) \ has]
  <1>1. /\ Working(r) /\ p.do = "look" /\ Kind(p) = "list" /\ Makes(r) = Wants(p)
        /\ UNCHANGED <<keycloak, meddled>>
    BY AtIs DEF List
  <1>2. /\ TypeOK /\ WorldInv /\ p \in Progress /\ Program[p.stage].makes = Wants(p)
        /\ Wants(p) \subseteq Thing
    BY <1>1, InAStage DEF IInv, StageFacts, Kind, Wants
  <1>3. CASE Wants(p) \subseteq has /\ NextStage(r)
    <2>1. Program[p.stage].kind = "list"
      BY <1>1 DEF Kind
    <2>2. Achieved(p.stage, has, broken)
      BY <1>2, <1>3, <2>1 DEF Achieved
    <2> QED BY <1>1, <1>3, <2>2, PassesOn
  <1>4. CASE /\ ~(Wants(p) \subseteq has)
             /\ run' = [run EXCEPT ![r].do = "make", ![r].todo = Wants(p) \ has]
    <2>1. new \in Progress
      BY <1>2 DEF Progress
    <2>2. /\ new.stage = p.stage /\ new.do = "make" /\ new.todo = Wants(p) \ has
          /\ new.calm = p.calm /\ new.alone = p.alone
      BY <1>2 DEF Progress
    <2>3. run' = [run EXCEPT ![r] = new]
      BY <1>2, <1>4 DEF TypeOK
    <2>4. run \in [Run -> Progress]
      BY <1>2 DEF TypeOK
    <2> HIDE DEF new
    <2>5. Turns(r, p.stage, "make", Wants(p) \ has, new.seen, new.printed)
      BY <2>1, <2>2, <2>3, <2>4, TurnsTo
    <2>6. Wants(p) \ has # {}
      BY <1>4
    <2> QED BY <1>1, <2>5, <2>6, StaysOn DEF Fits
  <1> QED BY <1>1, <1>3, <1>4 DEF List

(* Adding to a realm that is there is building.                              *)
LEMMA AddingBuilds ==
    ASSUME IInv, <<"realm">> \in has,
           NEW things \in SUBSET Thing, has' = has \cup things, broken' \subseteq broken,
           secret' \in 0..MaxSecret, secrets' \in 0..MaxSecret, meddled' = meddled
    PROVE  Builds
  <1>1. has \subseteq Thing /\ broken \subseteq has /\ WorldInv
    BY DEF IInv, TypeOK
  <1>2. WorldInv'
    BY <1>1 DEF WorldInv
  <1> QED BY <1>1, <1>2 DEF Builds

(* What is not a SAML client or an account is of no contested stage.         *)
LEMMA NotContested ==
    ASSUME NEW things, \A x \in things : x[1] \notin {"saml", "user"},
           has' = has \cup things,
           NEW n \in Contested, Program[n].makes \subseteq has'
    PROVE  Program[n].makes \subseteq has
  <1>1. PICK x \in Thing : Program[n].makes = {x} /\ x[1] \in {"saml", "user"}
    BY ContestedStages
  <1> QED BY <1>1

(* One POST of a loop.                                                       *)
LEMMA AddMissingStep ==
    ASSUME IInv, NEW r \in Run, NEW x \in Thing, AddMissing(r, x)
    PROVE  StepOf(r)
  <1> DEFINE p == run[r]  q == run'[r]
             new == [p EXCEPT !.todo = @ \ {x}]
  <1>1. /\ Working(r) /\ p.do = "make" /\ Kind(p) = "list"
        /\ x \in p.todo /\ has' = has \cup {x}
        /\ UNCHANGED <<broken, secret, secrets, meddled>>
    BY AtIs DEF AddMissing
  <1>2. /\ TypeOK /\ WorldInv /\ p \in Progress /\ Program[p.stage].makes = Wants(p)
        /\ p.todo \subseteq Wants(p)
        /\ \A y \in Wants(p) : y[1] \in {"role", "mapper", "manager"}
        /\ Program[p.stage].kind = "list"
    BY <1>1, InAStage DEF IInv, ShapeInv, RunShape, StageFacts, Kind, Wants
  <1>3. <<"realm">> \in has
    BY DEF AddMissing, Needs
  <1>4. x[1] \notin {"saml", "user"}
    BY <1>1, <1>2
  <1>5. Builds
    BY <1>1, <1>2, <1>3, AddingBuilds DEF TypeOK
  <1>6. p.calm => Wants(p) \subseteq has \cup p.todo
    BY <1>1 DEF IInv, FirmInv, Firm
  <1>7. \A n \in Contested : Program[n].makes \subseteq has' => Program[n].makes \subseteq has
    BY <1>1, <1>4, NotContested
  <1>8. CASE p.todo = {x} /\ NextStage(r)
    <2>1. p.calm => Achieved(p.stage, has', broken')
      BY <1>1, <1>2, <1>6, <1>8 DEF Achieved
    <2> QED BY <1>1, <1>3, <1>5, <1>7, <1>8, <2>1, Passes
  <1>9. CASE p.todo # {x} /\ run' = [run EXCEPT ![r].todo = @ \ {x}]
    <2>1. new \in Progress
      BY <1>2 DEF Progress
    <2>2. /\ new.stage = p.stage /\ new.do = "make" /\ new.todo = p.todo \ {x}
          /\ new.calm = p.calm /\ new.alone = p.alone
      BY <1>1, <1>2 DEF Progress
    <2>3. run' = [run EXCEPT ![r] = new] /\ run \in [Run -> Progress]
      BY <1>2, <1>9 DEF TypeOK
    <2> HIDE DEF new
    <2>4. Turns(r, p.stage, "make", p.todo \ {x}, new.seen, new.printed)
      BY <2>1, <2>2, <2>3, TurnsTo
    <2>5. q.stage = p.stage /\ q.do = "make" /\ q.todo = p.todo \ {x}
      BY <2>4 DEF Turns
    <2>6. Kind(q) = "list"
      BY <1>1, <2>5 DEF Kind
    <2>7. Moves(r)
      <3>1. Fits("list", "make", p.todo \ {x})
        BY <1>1, <1>9 DEF Fits
      <3> QED BY <1>1, <1>2, <2>4, <3>1, TurnsAreMoves
    <2>8. Achieves(r)
      BY <1>1, <1>6, <2>5 DEF Achieves
    <2>9. KeepsSecret(r)
      BY <1>1, <2>5, <2>6 DEF KeepsSecret, Harmless
    <2>10. Races(r)
      <3>1. \A n \in Contested : Ahead(p, n) => Ahead(q, n)
        BY <1>1, <2>5 DEF Ahead
      <3> QED BY <1>3, <1>7, <2>5, <2>6, <3>1 DEF Races
    <2> QED BY <1>5, <2>7, <2>8, <2>9, <2>10 DEF StepOf
  <1> QED BY <1>8, <1>9 DEF AddMissing

(* Looking for an object.                                                    *)
LEMMA FindStep ==
    ASSUME IInv, NEW r \in Run, Find(r)
    PROVE  StepOf(r)
  <1> DEFINE p == run[r]
             new == [p EXCEPT !.do = "put", !.seen = secret]
  <1>1. /\ Working(r) /\ p.do = "look" /\ Kind(p) = "object" /\ Makes(r) = Wants(p)
        /\ UNCHANGED <<keycloak, meddled>>
    BY AtIs DEF Find
  <1>2. /\ TypeOK /\ p \in Progress /\ Program[p.stage].makes = Wants(p)
        /\ p.todo \subseteq Wants(p)
        /\ p.stage \in Contested \/ Wants(p) = {<<"client">>}
    BY <1>1, InAStage DEF IInv, ShapeInv, RunShape, StageFacts, Kind, Wants
  <1>3. CASE Wants(p) \cap has = {} /\ Goes(r, "make")
    <2>1. Turns(r, p.stage, "make", p.todo, p.seen, p.printed)
      BY <1>2, <1>3, GoesTurns
    <2>2. <<"client">> \in has => p.stage \in Contested
      BY <1>2, <1>3
    <2> QED BY <1>1, <1>2, <2>1, <2>2, StaysOn DEF Fits
  <1>4. CASE /\ Wants(p) \cap has # {} /\ NextStage(r)
             /\ Wants(p) = {<<"client">>} /\ <<"client">> \notin broken
    <2>1. Achieved(p.stage, has, broken)
      BY <1>2, <1>4 DEF Achieved
    <2> QED BY <1>1, <1>4, <2>1, PassesOn
  <1>5. CASE /\ Wants(p) \cap has # {}
             /\ run' = [run EXCEPT ![r].do = "put", ![r].seen = secret]
    <2>1. new \in Progress
      BY <1>2 DEF Progress, TypeOK
    <2>2. /\ new.stage = p.stage /\ new.do = "put" /\ new.todo = p.todo
          /\ new.seen = secret /\ new.calm = p.calm /\ new.alone = p.alone
      BY <1>2 DEF Progress
    <2>3. run' = [run EXCEPT ![r] = new] /\ run \in [Run -> Progress]
      BY <1>2, <1>5 DEF TypeOK
    <2> HIDE DEF new
    <2>4. Turns(r, p.stage, "put", p.todo, secret, new.printed)
      BY <2>1, <2>2, <2>3, TurnsTo
    <2>5. Wants(p) \subseteq has
      <3>1. CASE p.stage \in Contested
        <4>1. \E x \in Thing : Program[p.stage].makes = {x}
          BY <3>1, ContestedStages
        <4> QED BY <1>2, <1>5, <4>1
      <3>2. CASE p.stage \notin Contested
        BY <1>2, <1>5, <3>2
      <3> QED BY <3>1, <3>2
    <2> QED BY <1>1, <1>2, <2>4, <2>5, StaysOn DEF Fits
  <1> QED BY <1>1, <1>3, <1>4, <1>5 DEF Find

(* Creating it, or finding that somebody has.                                *)
LEMMA CreateStep ==
    ASSUME IInv, NEW r \in Run, Create(r)
    PROVE  StepOf(r)
  <1> DEFINE p == run[r]  q == run'[r]
  <1>1. /\ Working(r) /\ p.do = "make" /\ Kind(p) = "object" /\ Makes(r) = Wants(p)
        /\ Above(Wants(p)) \subseteq has /\ meddled' = meddled
    BY AtIs, Hanging DEF Create, Found
  <1>2. /\ TypeOK /\ p \in Progress /\ Program[p.stage].makes = Wants(p)
        /\ p.todo \subseteq Wants(p) /\ Wants(p) \subseteq Thing
        /\ p.stage \in Contested \/ Wants(p) = {<<"client">>}
        /\ p.stage \in Stages
    BY <1>1, InAStage DEF IInv, ShapeInv, RunShape, StageFacts, Kind, Wants
  <1>3. \E x \in Thing : Wants(p) = {x}
    <2>1. CASE p.stage \in Contested
      BY <1>2, <2>1, ContestedStages
    <2>2. CASE Wants(p) = {<<"client">>}
      BY <1>2, <2>2
    <2> QED BY <1>2, <2>1, <2>2
  <1>4. <<"realm">> \in has
    BY <1>1, <1>3, RealmIsAbove
  <1>5. CASE Wants(p) \subseteq has /\ Ends(r, "beaten") /\ UNCHANGED keycloak
    <2>1. Turns(r, p.stage, "beaten", {}, p.seen, p.printed)
      BY <1>2, <1>5, EndsTurns
    <2> QED BY <1>1, <1>5, <2>1, StaysOn DEF Fits
  <1>6. CASE /\ ~(Wants(p) \subseteq has)
             /\ has' = has \cup Wants(p)
             /\ IF Wants(p) = {<<"client">>} THEN NewSecret ELSE UNCHANGED <<secret, secrets>>
             /\ Goes(r, "read")
             /\ UNCHANGED broken
    <2>1. Turns(r, p.stage, "read", p.todo, p.seen, p.printed)
      BY <1>2, <1>6, GoesTurns
    <2>2. q.stage = p.stage /\ q.do = "read"
      BY <2>1 DEF Turns
    <2>3. secret' \in 0..MaxSecret /\ secrets' \in 0..MaxSecret
      BY <1>2, <1>6, BoundAssumption DEF TypeOK, NewSecret
    <2>4. Builds
      BY <1>1, <1>2, <1>4, <1>6, <2>3, AddingBuilds
    <2>5. \E x \in Thing : Wants(p) = {x}
      BY <1>3
    <2>6. Wants(p) \cap broken' = {}
      BY <1>2, <1>6, <2>5 DEF TypeOK
    <2>7. Moves(r)
      BY <1>1, <1>2, <2>1, TurnsAreMoves DEF Fits, Kind
    <2>8. Achieves(r)
      BY <1>1, <1>6, <2>2, <2>6 DEF Achieves
    <2>9. KeepsSecret(r)
      <3>1. <<"client">> \in has => secret' = secret
        BY <1>6
      <3> QED BY <2>2, <3>1 DEF KeepsSecret, Harmless
    <2>10. ASSUME NEW n \in Contested, Program[n].makes \subseteq has',
                  ~(Program[n].makes \subseteq has)
           PROVE  q.stage = n
      <3>1. PICK x \in Thing : Program[n].makes = {x} /\ x[1] \in {"saml", "user"}
        BY ContestedStages
      <3>2. Wants(p) = {x}
        BY <1>6, <2>5, <2>10, <3>1
      <3>3. p.stage \in Contested
        BY <1>2, <3>1, <3>2
      <3> QED BY <1>2, <2>2, <3>1, <3>2, <3>3, ContestedStages
    <2>11. \A n \in Contested : Ahead(p, n) => Ahead(q, n)
      BY <1>1, <2>2 DEF Ahead
    <2>12. Races(r)
      BY <1>1, <1>4, <2>2, <2>10, <2>11 DEF Races
    <2> QED BY <2>4, <2>7, <2>8, <2>9, <2>12 DEF StepOf
  <1> QED BY <1>1, <1>5, <1>6 DEF Create

(* Reading back what was created: there, or deleted by somebody.             *)
LEMMA ReadBackStep ==
    ASSUME IInv, NEW r \in Run, ReadBack(r)
    PROVE  StepOf(r)
  <1> DEFINE p == run[r]
  <1>1. /\ Working(r) /\ p.do = "read" /\ Kind(p) = "object" /\ Makes(r) = Wants(p)
        /\ Found(r) <=> Wants(p) \subseteq has
        /\ UNCHANGED <<keycloak, meddled>>
    BY AtIs, Hanging DEF ReadBack, Found
  <1>2. TypeOK /\ Program[p.stage].makes = Wants(p)
    BY DEF IInv, Wants
  <1>3. CASE Wants(p) \subseteq has /\ NextStage(r)
    <2>1. p.calm => Wants(p) \cap broken = {}
      BY <1>1 DEF IInv, FirmInv, Firm
    <2>2. p.calm => Achieved(p.stage, has, broken)
      BY <1>2, <1>3, <2>1 DEF Achieved
    <2> QED BY <1>1, <1>3, <2>2, PassesOn
  <1>4. CASE Ends(r, "dead")
    <2>1. Turns(r, p.stage, "dead", {}, p.seen, p.printed)
      BY <1>2, <1>4, EndsTurns
    <2> QED BY <1>1, <2>1, StaysOn DEF Fits
  <1> QED BY <1>1, <1>3, <1>4 DEF ReadBack

(* Putting it back with the wanted settings; the secret that goes back with  *)
(* the client is the one that was read.                                      *)
LEMMA PutBackStep ==
    ASSUME IInv, NEW r \in Run, PutBack(r)
    PROVE  StepOf(r)
  <1> DEFINE p == run[r]
  <1>1. /\ Working(r) /\ p.do = "put" /\ Kind(p) \in {"object", "fix"} /\ Makes(r) = Wants(p)
        /\ Wants(p) \subseteq has /\ broken' = broken \ Wants(p)
        /\ secret' \in IF Wants(p) = {<<"client">>} THEN {secret, p.seen} ELSE {secret}
        /\ NextStage(r)
        /\ UNCHANGED <<has, secrets, meddled>>
    BY AtIs, Hanging DEF PutBack, Found
  <1>2. /\ TypeOK /\ WorldInv /\ p \in Progress /\ Program[p.stage].makes = Wants(p)
        /\ p.stage \in Contested \/ Wants(p) = {<<"client">>} \/ Wants(p) = {<<"role_list">>}
        /\ Kind(p) = "fix" => Wants(p) = {<<"role_list">>}
    BY <1>1, InAStage DEF IInv, StageFacts, Kind, Wants
  <1>3. <<"realm">> \in has
    <2>1. CASE p.stage \in Contested
      <3>1. \E x \in Thing : Program[p.stage].makes = {x}
        BY <2>1, ContestedStages
      <3> QED BY <1>1, <1>2, <3>1 DEF WorldInv
    <2>2. CASE p.stage \notin Contested
      BY <1>1, <1>2, <2>2 DEF WorldInv
    <2> QED BY <2>1, <2>2
  <1>4. secret' \in 0..MaxSecret
    BY <1>1, <1>2 DEF TypeOK, Progress
  <1>5. Builds
    BY <1>1, <1>2, <1>3, <1>4, AddingBuilds DEF TypeOK
  <1>6. Achieved(p.stage, has', broken')
    BY <1>1, <1>2 DEF Achieved
  <1>7. Harmless(p, secret) => secret' = secret
    <2>1. CASE Wants(p) = {<<"client">>}
      <3>1. Kind(p) = "object"
        BY <1>1, <1>2, <2>1
      <3> QED BY <1>1, <2>1, <3>1 DEF Harmless
    <2>2. CASE Wants(p) # {<<"client">>}
      BY <1>1, <2>2
    <2> QED BY <2>1, <2>2
  <1>8. Kind(p) # "secret"
    BY <1>1
  <1> QED BY <1>1, <1>3, <1>5, <1>6, <1>7, <1>8, Passes

(* Looking for the role_list scope, which may be missing.                    *)
LEMMA FindRoleListStep ==
    ASSUME IInv, NEW r \in Run, FindRoleList(r)
    PROVE  StepOf(r)
  <1> DEFINE p == run[r]
  <1>1. /\ Working(r) /\ p.do = "look" /\ Kind(p) = "fix" /\ Makes(r) = Wants(p)
        /\ UNCHANGED <<keycloak, meddled>>
    BY AtIs DEF FindRoleList
  <1>2. /\ TypeOK /\ p.todo \subseteq Wants(p) /\ Program[p.stage].makes = Wants(p)
        /\ broken \subseteq has /\ Wants(p) = {<<"role_list">>}
        /\ Program[p.stage].kind = "fix"
    BY <1>1, InAStage DEF IInv, TypeOK, ShapeInv, RunShape, StageFacts, Kind, Wants
  <1>3. CASE ~(Wants(p) \subseteq has) /\ NextStage(r)
    <2>1. Achieved(p.stage, has, broken)
      BY <1>2, <1>3 DEF Achieved
    <2> QED BY <1>1, <1>3, <2>1, PassesOn
  <1>4. CASE Wants(p) \subseteq has /\ Goes(r, "read")
    <2>1. Turns(r, p.stage, "read", p.todo, p.seen, p.printed)
      BY <1>2, <1>4, GoesTurns
    <2> QED BY <1>1, <1>2, <1>4, <2>1, StaysOn DEF Fits
  <1> QED BY <1>1, <1>3, <1>4 DEF FindRoleList

(* A look at its mappers.                                                    *)
LEMMA LookAtRoleListStep ==
    ASSUME IInv, NEW r \in Run, LookAtRoleList(r)
    PROVE  StepOf(r)
  <1> DEFINE p == run[r]
  <1>1. /\ Working(r) /\ p.do = "read" /\ Kind(p) = "fix" /\ Makes(r) = Wants(p)
        /\ UNCHANGED <<keycloak, meddled>>
    BY AtIs DEF LookAtRoleList
  <1>2. /\ TypeOK /\ p.todo \subseteq Wants(p) /\ Program[p.stage].makes = Wants(p)
        /\ broken \subseteq has /\ Wants(p) = {<<"role_list">>}
        /\ Program[p.stage].kind = "fix" /\ p.stage = 4
    BY <1>1, InAStage DEF IInv, TypeOK, ShapeInv, RunShape, StageFacts, Kind, Wants
  <1>3. CASE Wants(p) \cap broken = {} /\ NextStage(r)
    <2>1. Achieved(p.stage, has, broken)
      BY <1>2, <1>3 DEF Achieved
    <2> QED BY <1>1, <1>3, <2>1, PassesOn
  <1>4. CASE Wants(p) \cap broken # {} /\ Goes(r, "put")
    <2>1. Turns(r, p.stage, "put", p.todo, p.seen, p.printed)
      BY <1>2, <1>4, GoesTurns
    <2>2. Wants(p) \subseteq has
      BY <1>2, <1>4
    <2> QED BY <1>1, <1>2, <2>1, <2>2, StaysOn DEF Fits
  <1> QED BY <1>1, <1>3, <1>4 DEF LookAtRoleList

(* A password, set whether it was or not.                                    *)
LEMMA SetPasswordStep ==
    ASSUME IInv, NEW r \in Run, SetPassword(r)
    PROVE  StepOf(r)
  <1> DEFINE p == run[r]
  <1>1. /\ Working(r) /\ Kind(p) = "set" /\ Makes(r) = Wants(p)
        /\ Above(Wants(p)) \ {<<"role", "manager">>} \subseteq has
        /\ has' = has \cup Wants(p) /\ broken' = broken \ Wants(p) /\ NextStage(r)
        /\ UNCHANGED <<secret, secrets, meddled>>
    BY AtIs, Hanging DEF SetPassword, Found
  <1>2. /\ TypeOK /\ Program[p.stage].makes = Wants(p) /\ Wants(p) \subseteq Thing
        /\ \E u \in User : Wants(p) = {<<"password", u>>}
    BY <1>1, InAStage DEF IInv, StageFacts, Kind, Wants
  <1>3. PICK u \in User : Wants(p) = {<<"password", u>>}
    BY <1>2
  <1>4. <<"realm">> \in has
    <2>1. <<"realm">> \in Above(Wants(p))
      BY <1>3, RealmIsAbove
    <2>2. <<"realm">> # <<"role", "manager">>
      OBVIOUS
    <2> QED BY <1>1, <2>1, <2>2
  <1>5. \A x \in Wants(p) : x[1] \notin {"saml", "user"}
    BY <1>3
  <1>6. Builds
    BY <1>1, <1>2, <1>4, AddingBuilds DEF TypeOK
  <1>7. Achieved(p.stage, has', broken')
    BY <1>1, <1>2 DEF Achieved
  <1>8. \A n \in Contested : Program[n].makes \subseteq has' => Program[n].makes \subseteq has
    BY <1>1, <1>5, NotContested
  <1>9. Kind(p) # "secret"
    BY <1>1
  <1> QED BY <1>1, <1>4, <1>6, <1>7, <1>8, <1>9, Passes

(* The client was public when it was found: nothing is printed.              *)
LEMMA FindPublicStep ==
    ASSUME IInv, NEW r \in Run, FindPublic(r)
    PROVE  StepOf(r)
  <1> DEFINE p == run[r]
  <1>1. /\ Working(r) /\ p.do = "look" /\ Kind(p) = "secret"
        /\ UNCHANGED <<keycloak, meddled>>
    BY AtIs DEF FindPublic
  <1>2. /\ TypeOK /\ p.todo \subseteq Wants(p) /\ p.stage = 15
    BY <1>1, InAStage DEF IInv, ShapeInv, RunShape, StageFacts, Kind, Wants
  <1>3. Nothing \in Nothing..MaxSecret
    BY BoundAssumption DEF Nothing
  <1>4. Turns(r, p.stage, "done", p.todo, p.seen, Nothing)
    BY <1>2, <1>3, PrintsTurns DEF FindPublic
  <1> QED BY <1>1, <1>2, <1>4, StaysOn DEF Fits

(* The secret is read, and printed if it is one.                             *)
LEMMA ReadSecretStep ==
    ASSUME IInv, NEW r \in Run, ReadSecret(r)
    PROVE  StepOf(r)
  <1> DEFINE p == run[r]
  <1>1. /\ Working(r) /\ p.do = "look" /\ Kind(p) = "secret"
        /\ UNCHANGED <<keycloak, meddled>>
    BY AtIs DEF ReadSecret
  <1>2. /\ TypeOK /\ p.todo \subseteq Wants(p) /\ p.stage = 15
    BY <1>1, InAStage DEF IInv, ShapeInv, RunShape, StageFacts, Kind, Wants
  <1>3. CASE secret # Masked /\ Prints(r, secret)
    <2>1. secret \in Nothing..MaxSecret
      BY <1>2 DEF TypeOK, Nothing
    <2>2. Turns(r, p.stage, "done", p.todo, p.seen, secret)
      BY <1>2, <1>3, <2>1, PrintsTurns
    <2> QED BY <1>1, <1>2, <1>3, <2>2, StaysOn DEF Fits
  <1>4. CASE secret = Masked /\ Goes(r, "make")
    <2>1. Turns(r, p.stage, "make", p.todo, p.seen, p.printed)
      BY <1>2, <1>4, GoesTurns
    <2> QED BY <1>1, <1>2, <1>4, <2>1, StaysOn DEF Fits
  <1> QED BY <1>3, <1>4 DEF ReadSecret, IsUsableSecret

(* A masked one is regenerated, and the new one printed.                     *)
LEMMA RegenerateSecretStep ==
    ASSUME IInv, NEW r \in Run, RegenerateSecret(r)
    PROVE  StepOf(r)
  <1> DEFINE p == run[r]  q == run'[r]
  <1>1. /\ Working(r) /\ p.do = "make" /\ Kind(p) = "secret"
        /\ <<"client">> \in has /\ NewSecret /\ Prints(r, secret')
        /\ UNCHANGED <<has, broken, meddled>>
    BY AtIs, Hanging DEF RegenerateSecret, Found
  <1>2. /\ TypeOK /\ WorldInv /\ p.todo \subseteq Wants(p) /\ p.stage = 15
        /\ Program[p.stage].makes = Wants(p)
    BY <1>1, InAStage DEF IInv, ShapeInv, RunShape, StageFacts, Kind, Wants
  <1>3. secret' \in 0..MaxSecret /\ secrets' \in 0..MaxSecret /\ secret' # Masked
    BY <1>1, <1>2, BoundAssumption DEF TypeOK, NewSecret, Masked
  <1>4. Turns(r, p.stage, "done", p.todo, p.seen, secret')
    <2>1. secret' \in Nothing..MaxSecret
      BY <1>3 DEF Nothing
    <2> QED BY <1>1, <1>2, <2>1, PrintsTurns
  <1>5. q.stage = p.stage /\ q.do = "done" /\ q.printed = secret'
    BY <1>4 DEF Turns
  <1>6. Moves(r)
    BY <1>1, <1>2, <1>4, TurnsAreMoves DEF Fits
  <1>7. <<"realm">> \in has
    BY <1>1, <1>2 DEF WorldInv
  <1>8. Builds
    <2>1. {} \in SUBSET Thing /\ has' = has \cup {} /\ broken' \subseteq broken
      BY <1>1
    <2> QED BY <1>1, <1>3, <1>7, <2>1, AddingBuilds
  <1>9. Achieves(r)
    BY <1>5 DEF Achieves
  <1>10. KeepsSecret(r)
    BY <1>1, <1>3, <1>5 DEF KeepsSecret, Harmless
  <1>11. \A n \in Contested : Ahead(p, n) => Ahead(q, n)
    BY <1>1, <1>5 DEF Ahead
  <1>12. Races(r)
    BY <1>1, <1>5, <1>7, <1>11 DEF Races
  <1> QED BY <1>6, <1>8, <1>9, <1>10, <1>12 DEF StepOf

(* Death, at any call.                                                       *)
LEMMA FailStep ==
    ASSUME IInv, NEW r \in Run, Fail(r)
    PROVE  StepOf(r)
  <1>1. TypeOK /\ Working(r) /\ UNCHANGED <<keycloak, meddled>>
    BY DEF IInv, Fail
  <1>2. Turns(r, run[r].stage, "dead", {}, run[r].seen, run[r].printed)
    BY <1>1, EndsTurns DEF Fail
  <1> QED BY <1>1, <1>2, StaysOn DEF Fits

(* All of it together.                                                       *)
LEMMA EveryStep ==
    ASSUME IInv, NEW r \in Run, Step(r) \/ Fail(r)
    PROVE  StepOf(r)
  BY RealmThereStep, ImportRealmStep, ListStep, AddMissingStep, FindStep, CreateStep,
     ReadBackStep, PutBackStep, FindRoleListStep, LookAtRoleListStep, SetPasswordStep,
     FindPublicStep, ReadSecretStep, RegenerateSecretStep, FailStep DEF Step

-----------------------------------------------------------------------------
(* The invariant is inductive *)

(* Initially nothing is there and no run has begun.                          *)
LEMMA Initially == Init => IInv
  <1> SUFFICES ASSUME Init PROVE IInv
    OBVIOUS
  <1>1. Ready \in Progress
    BY Table, BoundAssumption DEF Ready, Progress, Nothing
  <1>2. \A r \in Run : run[r] = Ready
    BY DEF Init
  <1>3. TypeOK
    <2>1. public \in BOOLEAN /\ sawPublic \subseteq Run
      BY DEF Init
    <2>2. run \in [Run -> Progress] /\ meddled \in 0..MaxMeddle
      BY <1>1, BoundAssumption DEF Init
    <2>3. secret \in 0..MaxSecret /\ secrets \in 0..MaxSecret
      BY BoundAssumption DEF Init, Masked
    <2> QED BY <2>1, <2>2, <2>3 DEF Init, TypeOK
  <1>4. /\ Ready.do = "ready" /\ Ready.stage = 1 /\ Ready.todo = {} /\ Ready.calm
    BY DEF Ready
  <1>5. ShapeInv /\ FirmInv /\ AloneInv /\ SecretInv /\ SoloInv
    BY <1>2, <1>4 DEF ShapeInv, RunShape, Fits, FirmInv, Firm, AloneInv, Working,
                       SecretInv, SoloInv
  <1>6. WorldInv
    BY DEF Init, WorldInv
  <1>7. RaceInv
    <2>1. ASSUME NEW n \in Contested, Program[n].makes \subseteq has PROVE FALSE
      <3>1. \E x \in Thing : Program[n].makes = {x}
        BY ContestedStages
      <3> QED BY <2>1, <3>1 DEF Init
    <2>2. has = {}
      BY DEF Init
    <2> QED BY <1>2, <1>4, <2>1, <2>2 DEF RaceInv
  <1> QED BY <1>3, <1>5, <1>6, <1>7 DEF IInv

(* What an undisturbed run has achieved, building does not undo.             *)
LEMMA FirmStays ==
    ASSUME IInv, Builds, NEW q \in Run
    PROVE  Firm(run[q], has', broken')
  <1> DEFINE p == run[q]
  <1>1. p.stage \in Stages /\ StageFacts(p.stage) /\ Firm(p, has, broken)
    BY InAStage DEF IInv, FirmInv
  <1>2. has \subseteq has' /\ (<<"realm">> \in has => broken' \subseteq broken)
    BY DEF Builds
  <1> SUFFICES ASSUME p.calm, p.do # "ready"
               PROVE  /\ \A n \in Stages : n < p.stage => Achieved(n, has', broken')
                      /\ (Kind(p) = "list" /\ p.do = "make") => Wants(p) \subseteq has' \cup p.todo
                      /\ p.do \in {"put", "read"} => Wants(p) \subseteq has'
                      /\ (Kind(p) = "object" /\ p.do = "read") => Wants(p) \cap broken' = {}
    BY DEF Firm
  <1>3. CASE p.stage = 1
    <2>1. Kind(p) = "import"
      BY <1>3, Table DEF Kind, Stage
    <2>2. \A n \in Stages : ~(n < p.stage)
      BY <1>3 DEF Stages
    <2>3. p.do \notin {"put", "read"}
      BY <2>1 DEF IInv, ShapeInv, RunShape, Fits
    <2> QED BY <2>1, <2>2, <2>3
  <1>4. CASE p.stage # 1
    <2>1. 1 \in Stages /\ 1 < p.stage
      BY <1>1, <1>4 DEF Stages
    <2>2. <<"realm">> \in has
      BY <1>1, <2>1, Table DEF Firm, Achieved, Stage
    <2> QED BY <1>1, <1>2, <2>2 DEF Firm, Achieved
  <1> QED BY <1>3, <1>4

(* A step of a run keeps the types, the shape of the runs and of the realm.  *)
LEMMA StepShape ==
    ASSUME IInv, NEW r \in Run, StepOf(r), public' \in BOOLEAN, sawPublic' \subseteq Run
    PROVE  TypeOK' /\ ShapeInv' /\ WorldInv'
  <1>1. TypeOK'
    BY DEF IInv, TypeOK, StepOf, Moves, Builds
  <1>2. ShapeInv'
    BY DEF IInv, ShapeInv, StepOf, Moves, RunShape, Wants
  <1> QED BY <1>1, <1>2 DEF StepOf, Builds

(* Every run stands as firm as it did, the one that moved included.          *)
LEMMA StepFirm ==
    ASSUME IInv, NEW r \in Run, StepOf(r)
    PROVE  FirmInv'
  <1> DEFINE p == run[r]  q == run'[r]
  <1>1. ASSUME NEW u \in Run, u # r PROVE Firm(run'[u], has', broken')
    BY <1>1, FirmStays DEF StepOf, Moves
  <1>2. Firm(p, has', broken')
    BY FirmStays DEF StepOf
  <1>3. p.stage \in Stages /\ p.do # "ready" /\ q.calm = p.calm
    BY InAStage DEF IInv, StepOf, Moves, Working
  <1>4. Firm(q, has', broken')
    <2> SUFFICES ASSUME p.calm PROVE Firm(q, has', broken')
      BY <1>3 DEF Firm
    <2>1. \A n \in Stages : n < p.stage => Achieved(n, has', broken')
      BY <1>2, <1>3 DEF Firm
    <2>2. CASE q.stage = p.stage + 1 /\ q.do = "look" /\ Achieved(p.stage, has', broken')
      <3>1. \A n \in Stages : n < q.stage => n < p.stage \/ n = p.stage
        BY <1>3, <2>2 DEF Stages
      <3> QED BY <2>1, <2>2, <3>1 DEF Firm
    <2>3. CASE /\ q.stage = p.stage
               /\ (Kind(p) = "list" /\ q.do = "make") => Wants(p) \subseteq has' \cup q.todo
               /\ q.do \in {"put", "read"} => Wants(p) \subseteq has'
               /\ (Kind(p) = "object" /\ q.do = "read") => Wants(p) \cap broken' = {}
      <3>1. Kind(q) = Kind(p) /\ Wants(q) = Wants(p)
        BY <2>3 DEF Kind, Wants
      <3> QED BY <2>1, <2>3, <3>1 DEF Firm
    <2> QED BY <2>2, <2>3 DEF StepOf, Achieves
  <1> QED BY <1>1, <1>4 DEF FirmInv

(* Nobody comes to work by a step of a run at work.                          *)
LEMMA StepAlone ==
    ASSUME IInv, NEW r \in Run, StepOf(r)
    PROVE  AloneInv'
  <1>1. \A q \in Run : run'[q].alone = run[q].alone /\ (Working(q)' => Working(q))
    BY DEF StepOf, Moves, Working
  <1> QED BY <1>1 DEF IInv, AloneInv

(* The secret that was printed by a run alone stays; and a run that prints   *)
(* one alone has nobody about to change it.                                  *)
LEMMA StepSecret ==
    ASSUME IInv, NEW r \in Run, StepOf(r)
    PROVE  SecretInv'
  <1> SUFFICES ASSUME NEW u \in Run,
                      run'[u].do = "done", run'[u].calm, run'[u].alone,
                      run'[u].printed # Nothing
               PROVE  /\ run'[u].printed = secret' /\ secret' # Masked
                      /\ \A q \in Run : Harmless(run'[q], secret')
    BY DEF SecretInv
  <1>1. /\ Working(r) /\ \A q \in Run \ {r} : run'[q] = run[q]
        /\ run'[r].alone = run[r].alone
    BY DEF StepOf, Moves
  <1>2. CASE u = r
    <2>1. run'[r].printed = secret' /\ secret' # Masked
      BY <1>2 DEF StepOf, KeepsSecret
    <2>2. ASSUME NEW q \in Run, q # r PROVE Harmless(run'[q], secret')
      <3>1. ~Working(q) /\ run'[q] = run[q]
        BY <1>1, <1>2, <2>2 DEF IInv, AloneInv
      <3> QED BY <3>1 DEF Harmless, Working
    <2>3. Harmless(run'[r], secret')
      BY <1>2 DEF Harmless
    <2> QED BY <1>2, <2>1, <2>2, <2>3
  <1>3. CASE u # r
    <2>1. run'[u] = run[u]
      BY <1>1, <1>3
    <2>2. /\ run[u].printed = secret /\ secret # Masked
          /\ \A q \in Run : Harmless(run[q], secret)
      BY <2>1 DEF IInv, SecretInv
    <2>3. \A n \in Stages : n < 15 => Achieved(n, has, broken)
      <3>1. run[u].stage = 15 /\ Firm(run[u], has, broken)
        BY <2>1 DEF IInv, ShapeInv, RunShape, FirmInv
      <3> QED BY <2>1, <3>1 DEF Firm
    <2>4. <<"realm">> \in has /\ <<"client">> \in has
      <3>1. Achieved(1, has, broken) /\ Achieved(3, has, broken)
        BY <2>3 DEF Stages
      <3> QED BY <3>1, Table DEF Achieved, Stage
    <2>5. secret' = secret /\ Harmless(run'[r], secret)
      BY <2>2, <2>4 DEF StepOf, KeepsSecret
    <2> QED BY <1>1, <2>1, <2>2, <2>5
  <1> QED BY <1>2, <1>3

(* Nor is a run alone about to change a real secret after a step of its own. *)
LEMMA StepSolo ==
    ASSUME IInv, NEW r \in Run, StepOf(r)
    PROVE  SoloInv'
  <1> SUFFICES ASSUME NEW u \in Run, Working(u)', run'[u].alone, secret' # Masked
               PROVE  Harmless(run'[u], secret')
    BY DEF SoloInv
  <1>1. /\ Working(r) /\ \A q \in Run \ {r} : run'[q] = run[q]
    BY DEF StepOf, Moves
  <1>2. CASE u = r
    BY <1>2 DEF StepOf, KeepsSecret
  <1>3. CASE u # r
    <2>1. Working(u) /\ run[u].alone
      BY <1>1, <1>3 DEF Working
    <2> QED BY <1>1, <1>3, <2>1 DEF IInv, AloneInv
  <1> QED BY <1>2, <1>3

(* While nobody meddles, the race for an object leaves somebody ahead.       *)
LEMMA StepRace ==
    ASSUME IInv, NEW r \in Run, StepOf(r)
    PROVE  RaceInv'
  <1> DEFINE p == run[r]  q == run'[r]
  <1> SUFFICES ASSUME meddled = 0 PROVE RaceInv'
    BY DEF RaceInv, StepOf, Builds
  <1>1. /\ \A u \in Run \ {r} : run'[u] = run[u]
        /\ q.calm = p.calm /\ Working(r)
        /\ has \subseteq has'
    BY DEF StepOf, Moves, Builds
  <1>2. /\ \A u \in Run : run[u].calm
        /\ <<"realm">> \in has => <<"client">> \in has
        /\ \A u \in Run :
              /\ (Kind(run[u]) = "object" /\ run[u].do = "make") => run[u].stage \in Contested
              /\ run[u].do = "beaten" =>
                    run[u].stage \in Contested /\ Wants(run[u]) \subseteq has
        /\ \A n \in Contested :
              Program[n].makes \subseteq has => \E u \in Run : Ahead(run[u], n)
    BY DEF IInv, RaceInv
  <1>3. /\ <<"realm">> \in has' => <<"realm">> \in has \/ <<"client">> \in has'
        /\ (Kind(q) = "object" /\ q.do = "make" /\ <<"client">> \in has) => q.stage \in Contested
        /\ q.do = "beaten" =>
              Kind(p) = "object" /\ p.do = "make" /\ q.stage = p.stage /\ Wants(p) \subseteq has'
        /\ \A n \in Contested :
              Program[n].makes \subseteq has' =>
                  Program[n].makes \subseteq has \/ (q.stage = n /\ q.do = "read")
        /\ \A n \in Contested : Ahead(p, n) => Ahead(q, n)
    BY DEF StepOf, Races
  <1>4. \A u \in Run : run'[u].calm
    BY <1>1, <1>2
  <1>5. <<"realm">> \in has' => <<"client">> \in has'
    BY <1>1, <1>2, <1>3
  <1>6. (Kind(q) = "object" /\ q.do = "make") => q.stage \in Contested
    <2> SUFFICES ASSUME Kind(q) = "object", q.do = "make" PROVE q.stage \in Contested
      OBVIOUS
    <2>1. q.stage = p.stage
      BY DEF StepOf, Achieves
    <2>2. Kind(p) = "object"
      BY <2>1 DEF Kind
    <2>3. p.stage \in Stages /\ p.stage # 1
      BY <2>2, InAStage, Table DEF IInv, Kind, Stage
    <2>4. Achieved(1, has, broken)
      <3>1. Firm(p, has, broken) /\ p.do # "ready" /\ 1 \in Stages /\ 1 < p.stage
        BY <1>1, <2>3 DEF IInv, FirmInv, Working, Stages
      <3> QED BY <1>2, <3>1 DEF Firm
    <2>5. <<"realm">> \in has
      BY <2>4, Table DEF Achieved, Stage
    <2> QED BY <1>2, <1>3, <2>5
  <1>7. q.do = "beaten" => q.stage \in Contested /\ Wants(q) \subseteq has'
    <2> SUFFICES ASSUME q.do = "beaten" PROVE q.stage \in Contested /\ Wants(q) \subseteq has'
      OBVIOUS
    <2>1. Wants(q) = Wants(p)
      BY <1>3 DEF Wants
    <2> QED BY <1>2, <1>3, <2>1
  <1>8. ASSUME NEW u \in Run
        PROVE  /\ (Kind(run'[u]) = "object" /\ run'[u].do = "make") => run'[u].stage \in Contested
               /\ run'[u].do = "beaten" =>
                     run'[u].stage \in Contested /\ Wants(run'[u]) \subseteq has'
    BY <1>1, <1>2, <1>6, <1>7
  <1>9. ASSUME NEW n \in Contested, Program[n].makes \subseteq has'
        PROVE  \E u \in Run : Ahead(run'[u], n)
    <2>1. CASE Program[n].makes \subseteq has
      <3>1. PICK u \in Run : Ahead(run[u], n)
        BY <1>2, <2>1
      <3>2. Ahead(run'[u], n)
        BY <1>1, <1>3, <3>1
      <3> QED BY <3>2
    <2>2. CASE q.stage = n /\ q.do = "read"
      BY <2>2 DEF Ahead
    <2> QED BY <1>3, <1>9, <2>1, <2>2
  <1> QED BY <1>4, <1>5, <1>8, <1>9 DEF RaceInv, Kind, Wants

(* A run starts: the realm is as it was, and nobody is alone with it.        *)
LEMMA StartKeeps ==
    ASSUME IInv, NEW r \in Run, Start(r)
    PROVE  IInv'
  <1>1. /\ run \in [Run -> Progress] /\ run[r].do = "ready" /\ run[r].stage = 1
        /\ UNCHANGED <<keycloak, meddled>>
        /\ has' = has /\ broken' = broken /\ secret' = secret /\ secrets' = secrets
        /\ meddled' = meddled /\ public' = public /\ sawPublic' = sawPublic
    BY DEF IInv, TypeOK, ShapeInv, RunShape, Start, keycloak
  <1>2. run'[r] = [run[r] EXCEPT !.do = "look", !.alone = \A p \in Run : ~Working(p)]
    BY DEF Start
  <1>3. ASSUME NEW q \in Run, q # r
        PROVE  run'[q] = [run[q] EXCEPT !.alone = @ /\ ~Working(q)]
    BY <1>3 DEF Start
  <1>4. ASSUME NEW q \in Run
        PROVE  /\ run'[q] \in Progress
               /\ run'[q].stage = run[q].stage /\ run'[q].todo = run[q].todo
               /\ run'[q].seen = run[q].seen /\ run'[q].printed = run[q].printed
               /\ run'[q].calm = run[q].calm
    <2>1. run[q] \in Progress
      BY <1>1
    <2>2. CASE q = r
      BY <1>2, <2>1, <2>2 DEF Progress
    <2>3. CASE q # r
      BY <1>3, <2>1, <2>3 DEF Progress
    <2> QED BY <2>2, <2>3
  <1>5. run'[r].do = "look" /\ (run'[r].alone <=> \A p \in Run : ~Working(p))
    BY <1>1, <1>2 DEF Progress
  <1>6. ASSUME NEW q \in Run, q # r
        PROVE  run'[q].do = run[q].do /\ (run'[q].alone <=> run[q].alone /\ ~Working(q))
    BY <1>1, <1>3, <1>6 DEF Progress
  <1>7. TypeOK'
    <2>1. run' = [q \in Run |-> run'[q]]
      BY DEF Start
    <2> QED BY <1>1, <1>4, <2>1 DEF IInv, TypeOK
  <1>8. \A q \in Run : Kind(run'[q]) = Kind(run[q]) /\ Wants(run'[q]) = Wants(run[q])
    BY <1>4 DEF Kind, Wants
  <1>9. ShapeInv'
    <2>1. ASSUME NEW q \in Run, q # r PROVE RunShape(run'[q])
      BY <1>4, <1>6, <1>8, <2>1 DEF IInv, ShapeInv, RunShape
    <2>2. RunShape(run'[r])
      BY <1>1, <1>4, <1>5, <1>8 DEF IInv, ShapeInv, RunShape, Fits
    <2> QED BY <2>1, <2>2 DEF ShapeInv, RunShape, Kind, Wants
  <1>10. WorldInv'
    BY <1>1 DEF IInv, WorldInv
  <1>11. Kind(run[r]) = "import"
    BY <1>1, Table DEF Kind, Stage
  <1>12. FirmInv'
    <2>1. \A n \in Stages : ~(n < run'[r].stage)
      BY <1>1, <1>4 DEF Stages
    <2>2. Firm(run'[r], has, broken)
      BY <1>5, <1>8, <1>11, <2>1 DEF Firm
    <2>3. ASSUME NEW q \in Run, q # r PROVE Firm(run'[q], has, broken)
      BY <1>4, <1>6, <1>8, <2>3 DEF IInv, FirmInv, Firm
    <2> QED BY <1>1, <2>2, <2>3 DEF FirmInv
  <1>13. AloneInv'
    <2>1. ASSUME NEW q \in Run, q # r PROVE Working(q)' <=> Working(q)
      BY <1>6, <2>1 DEF Working
    <2> QED BY <1>5, <1>6, <2>1 DEF AloneInv
  <1>14. SecretInv'
    <2>1. ASSUME NEW q \in Run, Harmless(run[q], secret) PROVE Harmless(run'[q], secret)
      BY <1>4, <1>5, <1>6, <1>8, <2>1 DEF Harmless
    <2> QED BY <1>1, <1>4, <1>5, <1>6, <2>1 DEF IInv, SecretInv
  <1>15. SoloInv'
    <2>1. ASSUME NEW q \in Run, Working(q)', run'[q].alone PROVE q = r
      <3>1. q # r => ~Working(q)
        BY <1>6, <2>1
      <3> QED BY <1>6, <2>1, <3>1 DEF Working
    <2> QED BY <1>5, <2>1 DEF SoloInv, Harmless
  <1>16. RaceInv'
    <2>1. ASSUME NEW q \in Run, NEW n \in Contested, Ahead(run[q], n) PROVE Ahead(run'[q], n)
      BY <1>1, <1>4, <1>6, <2>1 DEF Ahead
    <2>2. ASSUME NEW q \in Run, run'[q].do \in {"make", "beaten"} PROVE run'[q].do = run[q].do
      BY <1>5, <1>6, <2>2
    <2> QED BY <1>1, <1>4, <1>8, <2>1, <2>2 DEF IInv, RaceInv
  <1> QED BY <1>7, <1>9, <1>10, <1>12, <1>13, <1>14, <1>15, <1>16 DEF IInv

(* A change by hand, as the runs know of it: none that is at work is calm.   *)
LEMMA DisturbKeeps ==
    ASSUME IInv, Disturb,
           has' \subseteq Thing, broken' \subseteq has', WorldInv',
           secret' = secret, secrets' = secrets, public' \in BOOLEAN
    PROVE  IInv'
  <1>1. run \in [Run -> Progress] /\ meddled \in 0..MaxMeddle
    BY DEF IInv, TypeOK
  <1>2. meddled' \in 0..MaxMeddle /\ meddled' # 0
    BY <1>1, BoundAssumption DEF Disturb
  <1>3. ASSUME NEW r \in Run
        PROVE  /\ run'[r] \in Progress
               /\ run'[r].stage = run[r].stage /\ run'[r].do = run[r].do
               /\ run'[r].todo = run[r].todo /\ run'[r].seen = run[r].seen
               /\ run'[r].alone = run[r].alone
               /\ run'[r].calm <=> run[r].do = "ready"
    <2>1. run'[r] = [run[r] EXCEPT !.calm = (run[r].do = "ready")]
      BY DEF Disturb
    <2>2. run[r] \in Progress
      BY <1>1
    <2> QED BY <2>1, <2>2 DEF Progress
  <1>4. TypeOK'
    <2>1. run' = [r \in Run |-> run'[r]] /\ sawPublic' = sawPublic
      BY DEF Disturb
    <2> QED BY <1>2, <1>3, <2>1 DEF IInv, TypeOK
  <1>5. ShapeInv'
    BY <1>3 DEF IInv, ShapeInv, RunShape, Fits, Kind, Wants
  <1>6. FirmInv'
    BY <1>3 DEF FirmInv, Firm
  <1>7. AloneInv'
    BY <1>3 DEF IInv, AloneInv, Working
  <1>8. SecretInv'
    BY <1>3 DEF SecretInv
  <1>9. SoloInv'
    BY <1>3 DEF IInv, SoloInv, Working, Harmless, Kind, Wants
  <1>10. RaceInv'
    BY <1>2 DEF RaceInv
  <1> QED BY <1>4, <1>5, <1>6, <1>7, <1>8, <1>9, <1>10 DEF IInv

(* Whatever is deleted, the rest hangs on a realm that is there.             *)
LEMMA DeleteThingKeeps ==
    ASSUME IInv, NEW x \in Thing, DeleteThing(x)
    PROVE  IInv'
  <1>1. has \subseteq Thing /\ broken \subseteq has /\ WorldInv
    BY DEF IInv, TypeOK
  <1>2. has' \subseteq has /\ broken' = broken \cap has'
    BY DEF DeleteThing, Without
  <1>3. WorldInv'
    <2>1. CASE x = <<"realm">>
      BY <1>1, <1>2, <2>1 DEF WorldInv, DeleteThing
    <2>2. CASE x # <<"realm">>
      <3>1. Needs(<<"realm">>) = {<<"realm">>}
        BY DEF Needs
      <3>2. <<"realm">> \in has'
        BY <1>1, <2>2, <3>1 DEF WorldInv, DeleteThing, Without
      <3> QED BY <1>1, <1>2, <3>2 DEF WorldInv
    <2> QED BY <2>1, <2>2
  <1>4. has' \subseteq Thing /\ broken' \subseteq has' /\ public' \in BOOLEAN
    BY <1>1, <1>2 DEF DeleteThing, IInv, TypeOK
  <1> QED BY <1>3, <1>4, DisturbKeeps DEF DeleteThing

(* Only what can be misconfigured is.                                        *)
LEMMA BreakThingKeeps ==
    ASSUME IInv, NEW x \in Thing, BreakThing(x)
    PROVE  IInv'
  <1>1. has \subseteq Thing /\ broken \subseteq has /\ WorldInv
    BY DEF IInv, TypeOK
  <1>2. WorldInv'
    BY <1>1 DEF BreakThing, WorldInv, Breakable
  <1>3. has' \subseteq Thing /\ broken' \subseteq has' /\ public' \in BOOLEAN
    BY <1>1 DEF BreakThing, IInv, TypeOK
  <1> QED BY <1>2, <1>3, DisturbKeeps DEF BreakThing

(* A promotion adds a thing to a realm that is there.                        *)
LEMMA PromoteKeeps ==
    ASSUME IInv, Promote
    PROVE  IInv'
  <1>1. has \subseteq Thing /\ broken \subseteq has /\ WorldInv
    BY DEF IInv, TypeOK
  <1>2. <<"manager", "testuser">> \in Thing
    BY DEF Thing, User
  <1>3. WorldInv'
    BY <1>1 DEF Promote, WorldInv
  <1>4. has' \subseteq Thing /\ broken' \subseteq has' /\ public' \in BOOLEAN
    BY <1>1, <1>2 DEF Promote, IInv, TypeOK
  <1> QED BY <1>3, <1>4, DisturbKeeps DEF Promote

(* What becomes of a public client is not the invariant's concern.           *)
LEMMA MakePublicKeeps ==
    ASSUME IInv, MakePublic
    PROVE  IInv'
  <1>1. has' = has /\ broken' = broken /\ public' \in BOOLEAN
    BY DEF MakePublic
  <1>2. has' \subseteq Thing /\ broken' \subseteq has' /\ WorldInv'
    BY <1>1 DEF IInv, TypeOK, WorldInv
  <1> QED BY <1>1, <1>2, DisturbKeeps DEF MakePublic

(* The client is public or not, and runs have found it so.                   *)
LEMMA PublicTyped ==
    ASSUME IInv, NEW r \in Run, Step(r) \/ Fail(r)
    PROVE  public' \in BOOLEAN /\ sawPublic' \subseteq Run
  <1>1. public \in BOOLEAN /\ sawPublic \subseteq Run
    BY DEF IInv, TypeOK
  <1>2. CASE RealmThere(r) \/ ImportRealm(r) \/ List(r) \/ Fail(r)
    BY <1>1, <1>2 DEF RealmThere, ImportRealm, List, Fail, keycloak
  <1>3. CASE \E x \in Thing : AddMissing(r, x)
    BY <1>1, <1>3 DEF AddMissing
  <1>4. CASE Find(r) \/ ReadBack(r)
    BY <1>1, <1>4 DEF Find, ReadBack, KeepsClient, keycloak
  <1>5. CASE Create(r) \/ PutBack(r)
    <2>1. sawPublic' = sawPublic
      BY <1>5 DEF Create, PutBack
    <2>2. CASE Create(r)
      <3>1. public' = public \/ public' = FALSE
        BY <2>2 DEF Create, keycloak
      <3> QED BY <1>1, <2>1, <3>1
    <2>3. CASE PutBack(r)
      <3>1. public' = public \/ public' = (r \in sawPublic)
        BY <2>3 DEF PutBack
      <3>2. CASE public' = (r \in sawPublic)
        <4>1. CASE r \in sawPublic
          <5>1. public' = TRUE
            BY <3>2, <4>1
          <5> QED BY <1>1, <2>1, <5>1
        <4>2. CASE r \notin sawPublic
          <5>1. (r \in sawPublic) = FALSE
            BY <4>2
          <5>2. public' = FALSE
            BY <3>2, <5>1
          <5> QED BY <1>1, <2>1, <5>2
        <4> QED BY <4>1, <4>2
      <3> QED BY <1>1, <2>1, <3>1, <3>2
    <2> QED BY <1>5, <2>2, <2>3
  <1>6. CASE FindRoleList(r) \/ LookAtRoleList(r) \/ SetPassword(r)
    BY <1>1, <1>6 DEF FindRoleList, LookAtRoleList, SetPassword, keycloak
  <1>7. CASE FindPublic(r) \/ ReadSecret(r) \/ RegenerateSecret(r)
    BY <1>1, <1>7 DEF FindPublic, ReadSecret, RegenerateSecret, keycloak
  <1> QED BY <1>2, <1>3, <1>4, <1>5, <1>6, <1>7 DEF Step

(* Every step keeps the invariant.                                           *)
LEMMA Preserved == IInv /\ [Next]_vars => IInv'
  <1> SUFFICES ASSUME IInv, [Next]_vars PROVE IInv'
    OBVIOUS
  <1>1. ASSUME NEW r \in Run, Start(r) PROVE IInv'
    BY <1>1, StartKeeps
  <1>2. ASSUME NEW r \in Run, Step(r) \/ Fail(r) PROVE IInv'
    <2>1. StepOf(r)
      BY <1>2, EveryStep
    <2>2. public' \in BOOLEAN /\ sawPublic' \subseteq Run
      BY <1>2, PublicTyped
    <2> QED
      BY <2>1, <2>2, StepShape, StepFirm, StepAlone, StepSecret, StepSolo, StepRace DEF IInv
  <1>3. ASSUME NEW x \in Thing, DeleteThing(x) \/ BreakThing(x) PROVE IInv'
    BY <1>3, DeleteThingKeeps, BreakThingKeeps
  <1>4. CASE Promote \/ MakePublic
    BY <1>4, PromoteKeeps, MakePublicKeeps
  <1>5. CASE UNCHANGED vars
    BY <1>5 DEF vars, IInv, TypeOK, ShapeInv, WorldInv, FirmInv, AloneInv, Working, SecretInv,
               SoloInv, RaceInv, Kind, Wants
  <1> QED BY <1>1, <1>2, <1>3, <1>4, <1>5 DEF Next

(* The invariant holds of the script, for every number of runs and bound.    *)
THEOREM Invariance == Spec => []IInv
  BY Initially, Preserved, PTL DEF Spec

(* The state of Keycloak and of the runs is always well typed.               *)
THEOREM TypeCorrect == Spec => []TypeOK
  <1>1. IInv => TypeOK
    BY DEF IInv
  <1> QED BY <1>1, Invariance, PTL

-----------------------------------------------------------------------------
(* What the script promises *)

(* Everything but a promotion of testuser is some stage's, before the last.  *)
LEMMA SomeStageMakes ==
    ASSUME NEW x \in Thing, x # <<"manager", "testuser">>
    PROVE  \E n \in Stages :
               /\ n < 15 /\ x \in Program[n].makes
               /\ x # <<"role_list">> => Program[n].kind # "fix"
  <1> DEFINE Made(n) == /\ n \in Stages /\ n < 15 /\ x \in Program[n].makes
                        /\ x # <<"role_list">> => Program[n].kind # "fix"
  <1> USE Table DEF Stage, Stages
  <1>1. CASE x = <<"realm">>
    <2>1. Made(1)
      BY <1>1
    <2> QED BY <2>1
  <1>2. CASE x = <<"role", "manager">>
    <2>1. Made(2)
      BY <1>2
    <2> QED BY <2>1
  <1>3. CASE x = <<"client">>
    <2>1. Made(3)
      BY <1>3
    <2> QED BY <2>1
  <1>4. CASE x = <<"role_list">>
    <2>1. Made(4)
      BY <1>4
    <2> QED BY <2>1
  <1>5. CASE x \in {<<"saml", c>> : c \in Saml}
    <2>1. x = <<"saml", "docs">> \/ x = <<"saml", "dashboard">>
      BY <1>5 DEF Saml
    <2>2. Made(5) \/ Made(7)
      BY <2>1
    <2> QED BY <2>2
  <1>6. CASE x \in {<<"mapper", c, m>> : c \in Saml, m \in Mapper}
    <2>1. PICK m \in Mapper : x = <<"mapper", "docs", m>> \/ x = <<"mapper", "dashboard", m>>
      BY <1>6 DEF Saml
    <2>2. Made(6) \/ Made(8)
      BY <2>1
    <2> QED BY <2>2
  <1>7. CASE x \in {<<"user", u>> : u \in User}
    <2>1. x = <<"user", "testuser">> \/ x = <<"user", "manageruser">>
      BY <1>7 DEF User
    <2>2. Made(9) \/ Made(12)
      BY <2>1
    <2> QED BY <2>2
  <1>8. CASE x \in {<<"password", u>> : u \in User}
    <2>1. x = <<"password", "testuser">> \/ x = <<"password", "manageruser">>
      BY <1>8 DEF User
    <2>2. Made(10) \/ Made(13)
      BY <2>1
    <2> QED BY <2>2
  <1>9. CASE x \in {<<"manager", u>> : u \in User}
    <2>1. x = <<"manager", "manageruser">>
      BY <1>9 DEF User
    <2>2. Made(14)
      BY <2>1
    <2> QED BY <2>2
  <1> HIDE Table DEF Stage, Stages, Made
  <1> QED
    BY <1>1, <1>2, <1>3, <1>4, <1>5, <1>6, <1>7, <1>8, <1>9 DEF Thing

(* Safe to re-run: a run that reaches its end undisturbed leaves everything  *)
(* in place, and configured except for mappers misconfigured before it began *)
(* (it goes by their names), whatever earlier runs died of and whatever runs *)
(* were at work beside it.                                                   *)
THEOREM AllIsProvisioned == Spec => []Provisioned
  <1>1. ASSUME IInv, NEW r \in Run, run[r].do = "done", run[r].calm
        PROVE  Desired \subseteq has /\ \A x \in broken : x[1] = "mapper"
    <2>1. \A n \in Stages : n < 15 => Achieved(n, has, broken)
      <3>1. run[r].stage = 15 /\ Firm(run[r], has, broken)
        BY <1>1 DEF IInv, ShapeInv, RunShape, FirmInv
      <3> QED BY <1>1, <3>1 DEF Firm
    <2>2. ASSUME NEW x \in Desired PROVE x \in has
      <3>1. x \in Thing /\ x # <<"manager", "testuser">> /\ x # <<"role_list">>
        BY DEF Desired
      <3>2. PICK n \in Stages : n < 15 /\ x \in Program[n].makes /\ Program[n].kind # "fix"
        BY <3>1, SomeStageMakes
      <3> QED BY <2>1, <3>2 DEF Achieved
    <2>3. ASSUME NEW x \in broken, x[1] # "mapper" PROVE FALSE
      <3>1. x \in Thing /\ x[1] \in Breakable
        BY <1>1, <2>3 DEF IInv, TypeOK, WorldInv
      <3>2. x # <<"manager", "testuser">>
        BY <3>1 DEF Breakable
      <3>3. PICK n \in Stages : n < 15 /\ x \in Program[n].makes
        BY <3>1, <3>2, SomeStageMakes
      <3>4. Program[n].kind # "list"
        BY <2>3, <3>1, <3>3, StageTable DEF StageFacts, Breakable
      <3> QED BY <2>1, <2>3, <3>3, <3>4 DEF Achieved
    <2> QED BY <2>2, <2>3
  <1>2. IInv => Provisioned
    BY <1>1 DEF Provisioned
  <1> QED BY <1>2, Invariance, PTL

(* No step of a run deletes an object or spoils its settings, whoever made   *)
(* it; and while no two runs overlap, none replaces a real secret of the     *)
(* client.                                                                   *)
THEOREM NothingIsUndone == Spec => NothingUndone
  <1> DEFINE Solo == \A r \in Run : Working(r) => run[r].alone
             Kept == /\ has \subseteq has' /\ broken' \cap has \subseteq broken
                     /\ (<<"client">> \in has /\ secret # Masked /\ Solo) => secret' = secret
  <1>1. IInv /\ [Next]_vars => [meddled' = meddled => Kept]_vars
    <2> SUFFICES ASSUME IInv, Next, meddled' = meddled
                 PROVE  Kept
      OBVIOUS
    <2>1. ASSUME NEW r \in Run, Start(r) PROVE Kept
      BY <2>1 DEF Start, keycloak
    <2>2. ASSUME NEW r \in Run, Step(r) \/ Fail(r)
          PROVE  Kept
      <3>1. StepOf(r)
        BY <2>2, EveryStep
      <3>2. has \subseteq has' /\ (<<"realm">> \in has => broken' \subseteq broken)
        BY <3>1 DEF StepOf, Builds
      <3>3. has # {} => <<"realm">> \in has
        BY DEF IInv, WorldInv
      <3>4. ASSUME <<"client">> \in has, secret # Masked, Solo PROVE secret' = secret
        <4>1. Working(r) /\ run[r].alone
          BY <3>1, <3>4 DEF StepOf, Moves
        <4>2. Harmless(run[r], secret)
          BY <3>4, <4>1 DEF IInv, SoloInv
        <4> QED BY <3>1, <3>3, <3>4, <4>2 DEF StepOf, KeepsSecret
      <3> QED BY <3>2, <3>3, <3>4
    <2>3. ~Disturb
      <3>1. meddled \in 0..MaxMeddle
        BY DEF IInv, TypeOK
      <3> QED BY <3>1, BoundAssumption DEF Disturb
    <2> QED BY <2>1, <2>2, <2>3 DEF Next, DeleteThing, BreakThing, Promote, MakePublic
  <1> QED BY <1>1, Invariance, PTL DEF Spec, NothingUndone

(* The secret a run printed with no other beside it is a real one, and stays *)
(* the client's through later runs until somebody changes the realm by hand. *)
THEOREM PrintedSecretStays == Spec => []PrintedSecretIsCurrent
  <1>1. IInv => PrintedSecretIsCurrent
    BY DEF IInv, SecretInv, PrintedSecretIsCurrent
  <1> QED BY <1>1, Invariance, PTL

(* Runs that only have each other in their way never all perish of a 409:    *)
(* whoever was beaten, somebody is at a later stage, up to the last of them. *)
THEOREM SomeRunSurvives == Spec => []NotAllBeaten
  <1>1. ASSUME IInv, meddled = 0, \A r \in Run : run[r].do = "beaten" PROVE FALSE
    <2>1. \A r \in Run : run[r].stage \in Contested /\ Wants(run[r]) \subseteq has
      BY <1>1 DEF IInv, RaceInv
    <2>2. ASSUME NEW r \in Run PROVE \E q \in Run : run[q].stage > run[r].stage
      <3>1. Program[run[r].stage].makes \subseteq has
        BY <2>1 DEF Wants
      <3>2. PICK q \in Run : Ahead(run[q], run[r].stage)
        BY <1>1, <2>1, <3>1 DEF IInv, RaceInv
      <3> QED BY <1>1, <3>2 DEF Ahead
    <2>3. ASSUME NEW r \in Run, run[r].stage = 12 PROVE FALSE
      <3>1. PICK q \in Run : run[q].stage > 12
        BY <2>2, <2>3
      <3>2. run[q].stage \in {5, 7, 9, 12}
        BY <2>1 DEF Contested
      <3> QED BY <3>1, <3>2
    <2>4. ASSUME NEW r \in Run, run[r].stage = 9 PROVE FALSE
      <3>1. PICK q \in Run : run[q].stage > 9
        BY <2>2, <2>4
      <3>2. run[q].stage \in {5, 7, 9, 12}
        BY <2>1 DEF Contested
      <3> QED BY <3>1, <3>2, <2>3
    <2>5. ASSUME NEW r \in Run, run[r].stage = 7 PROVE FALSE
      <3>1. PICK q \in Run : run[q].stage > 7
        BY <2>2, <2>5
      <3>2. run[q].stage \in {5, 7, 9, 12}
        BY <2>1 DEF Contested
      <3> QED BY <3>1, <3>2, <2>3, <2>4
    <2>6. ASSUME NEW r \in Run, run[r].stage = 5 PROVE FALSE
      <3>1. PICK q \in Run : run[q].stage > 5
        BY <2>2, <2>6
      <3>2. run[q].stage \in {5, 7, 9, 12}
        BY <2>1 DEF Contested
      <3> QED BY <3>1, <3>2, <2>3, <2>4, <2>5
    <2> QED BY <2>1, <2>3, <2>4, <2>5, <2>6, RunAssumption DEF Contested
  <1>2. IInv => NotAllBeaten
    BY <1>1 DEF NotAllBeaten
  <1> QED BY <1>2, Invariance, PTL

(* What a thing hangs on is made by stages before its own: the order of      *)
(* main() is right.                                                          *)
LEMMA NeedsComeFirst ==
    ASSUME NEW n \in Stages, Program[n].kind # "import",
           NEW x \in Program[n].makes, NEW y \in Needs(x)
    PROVE  \E k \in Stages : k < n /\ Program[k].kind # "fix" /\ y \in Program[k].makes
  <1> DEFINE Before(k) == /\ k \in Stages /\ k < n /\ Program[k].kind # "fix"
                          /\ y \in Program[k].makes
  <1>1. n \in Stages /\ n # 1
    BY Table DEF Stage
  <1>2. CASE y = <<"realm">>
    <2>1. Before(1)
      BY <1>1, <1>2, Table DEF Stage, Stages
    <2> QED BY <2>1
  <1>3. CASE y = <<"role", "manager">> /\ x[1] = "manager"
    <2>1. n = 14
      BY <1>3, Table DEF Stage, Stages
    <2>2. Before(2)
      BY <1>3, <2>1, Table DEF Stage, Stages
    <2> QED BY <2>2
  <1>4. CASE y = <<"saml", x[2]>> /\ x[1] = "mapper"
    <2>1. n = 6 \/ n = 8
      BY <1>4, Table DEF Stage, Stages
    <2>2. CASE n = 6
      <3>1. x[2] = "docs"
        BY <2>2, Table DEF Stage
      <3>2. Before(5)
        BY <1>4, <2>2, <3>1, Table DEF Stage, Stages
      <3> QED BY <3>2
    <2>3. CASE n = 8
      <3>1. x[2] = "dashboard"
        BY <2>3, Table DEF Stage
      <3>2. Before(7)
        BY <1>4, <2>3, <3>1, Table DEF Stage, Stages
      <3> QED BY <3>2
    <2> QED BY <2>1, <2>2, <2>3
  <1>5. CASE y = <<"user", x[2]>> /\ x[1] \in {"password", "manager"}
    <2>1. n \in {10, 13, 14}
      BY <1>5, Table DEF Stage, Stages
    <2>2. CASE n = 10
      <3>1. x[2] = "testuser"
        BY <2>2, Table DEF Stage
      <3>2. Before(9)
        BY <1>5, <2>2, <3>1, Table DEF Stage, Stages
      <3> QED BY <3>2
    <2>3. CASE n \in {13, 14}
      <3>1. x[2] = "manageruser"
        BY <2>3, Table DEF Stage
      <3>2. Before(12)
        BY <1>5, <2>3, <3>1, Table DEF Stage, Stages
      <3> QED BY <3>2
    <2> QED BY <2>1, <2>2, <2>3
  <1> QED BY <1>2, <1>3, <1>4, <1>5 DEF Needs

(* Each call finds what it hangs on: an undisturbed run is never refused for *)
(* want of an object, whatever earlier runs died of and whoever is at work   *)
(* beside it; only a crash or a 409 keeps it from its end.                   *)
THEOREM NoCallIsRefused == Spec => []NeverStuck
  <1>1. ASSUME IInv, NEW r \in Run, Working(r), run[r].calm
        PROVE  Found(r)
    <2> DEFINE p == run[r]
    <2>1. /\ p.stage \in Stages /\ StageFacts(p.stage) /\ p \in Progress
          /\ RunShape(p) /\ Firm(p, has, broken)
      BY <1>1, InAStage DEF IInv, ShapeInv, FirmInv
    <2>2. p.do \in {"look", "make", "put", "read"}
      BY <1>1, <2>1 DEF Progress, Working
    <2>3. \A n \in Stages : n < p.stage => Achieved(n, has, broken)
      BY <1>1, <2>2, <2>1 DEF Firm
    <2>4. ASSUME Kind(p) # "import", NEW x \in Wants(p) PROVE Needs(x) \subseteq has
      <3> SUFFICES ASSUME NEW y \in Needs(x) PROVE y \in has
        OBVIOUS
      <3>1. PICK k \in Stages : k < p.stage /\ Program[k].kind # "fix" /\ y \in Program[k].makes
        BY <2>1, <2>4, NeedsComeFirst DEF Kind, Wants
      <3> QED BY <2>3, <3>1 DEF Achieved
    <2>5. ASSUME Kind(p) # "import", NEW things \in SUBSET Wants(p)
          PROVE  Above(things) \subseteq has
      BY <2>4, <2>5 DEF Above
    <2>6. CASE Kind(p) = "import"
      BY <2>6, Hanging DEF Found
    <2>7. CASE Kind(p) = "secret"
      <3>1. p.stage = 15
        BY <2>1, <2>7 DEF StageFacts, Kind
      <3>2. Achieved(3, has, broken)
        BY <2>3, <3>1 DEF Stages
      <3>3. <<"client">> \in has
        BY <3>2, Table DEF Achieved, Stage
      <3> QED BY <2>7, <3>3, Hanging DEF Found
    <2>8. CASE Kind(p) \notin {"import", "secret"} /\ p.do = "look"
      <3>1. Above(Wants(p)) \subseteq has
        BY <2>5, <2>8
      <3> QED BY <2>8, <3>1, Hanging DEF Found
    <2>9. CASE Kind(p) = "list" /\ p.do = "make"
      <3>1. Above(p.todo) \subseteq has
        BY <2>1, <2>5, <2>9 DEF RunShape
      <3> QED BY <2>9, <3>1, Hanging DEF Found
    <2>10. CASE Kind(p) = "object" /\ p.do = "make"
      <3>1. Above(Wants(p)) \subseteq has
        BY <2>5, <2>10
      <3> QED BY <2>10, <3>1, Hanging DEF Found
    <2>11. CASE Kind(p) \notin {"import", "secret"} /\ p.do \in {"put", "read"}
      <3>1. Wants(p) \subseteq has
        BY <1>1, <2>1, <2>11 DEF Firm
      <3> QED BY <2>11, <3>1, Hanging DEF Found
    <2>12. p.do = "make" => Kind(p) \in {"import", "list", "object", "secret"}
      BY <2>1 DEF RunShape, Fits
    <2> QED BY <2>2, <2>6, <2>7, <2>8, <2>9, <2>10, <2>11, <2>12
  <1>2. IInv => NeverStuck
    BY <1>1 DEF NeverStuck
  <1> QED BY <1>2, Invariance, PTL

-----------------------------------------------------------------------------
(* What termination rests on *)

(* How far a run is in its stage.                                            *)
Rank(do) ==
    CASE do = "ready" -> 0
      [] do = "look" -> 1
      [] do = "make" -> 2
      [] do = "read" -> 3
      [] do = "put" -> 4
      [] OTHER -> 5

(* Further in the program, further in a stage, or with less left to add.     *)
Advances(p, q) ==
    \/ q.stage > p.stage
    \/ q.stage = p.stage /\ Rank(q.do) > Rank(p.do)
    \/ q.stage = p.stage /\ q.do = p.do /\ q.todo \subseteq p.todo /\ q.todo # p.todo

Stays(p, q) == q.stage = p.stage /\ q.do = p.do /\ q.todo = p.todo

(* Each call takes a run further, and neither another run nor a change by    *)
(* hand sets it back.                                                        *)
GetsAhead ==
    \A r \in Run :
        /\ (Start(r) \/ Step(r) \/ Fail(r)) => Advances(run[r], run'[r])
        /\ Advances(run[r], run'[r]) \/ Stays(run[r], run'[r])

(* The next stage is further.                                                *)
LEMMA NextIsFurther ==
    ASSUME IInv, NEW r \in Run, Kind(run[r]) # "secret", NextStage(r)
    PROVE  Advances(run[r], run'[r])
  <1>1. run[r].stage \in Nat
    BY InAStage DEF IInv, Stages
  <1>2. run'[r].stage = run[r].stage + 1
    BY NextStageTurns DEF IInv, Turns
  <1> QED BY <1>1, <1>2 DEF Advances

(* So is the next call in a stage, or the end.                               *)
LEMMA NextCallIsFurther ==
    ASSUME NEW r, NEW do, NEW todo, NEW seen, NEW printed,
           Turns(r, run[r].stage, do, todo, seen, printed), Rank(do) > Rank(run[r].do)
    PROVE  Advances(run[r], run'[r])
  BY DEF Turns, Advances

(* Every call of the script advances it.                                     *)
LEMMA CallAdvances ==
    ASSUME IInv, NEW r \in Run, Step(r) \/ Fail(r)
    PROVE  Advances(run[r], run'[r])
  <1> DEFINE p == run[r]  q == run'[r]
  <1>1. TypeOK /\ p \in Progress
    BY DEF IInv, TypeOK
  <1>2. /\ Rank("look") = 1 /\ Rank("make") = 2 /\ Rank("read") = 3 /\ Rank("put") = 4
        /\ Rank("done") = 5 /\ Rank("dead") = 5 /\ Rank("beaten") = 5
    BY DEF Rank
  <1>3. ASSUME NEW do \in {"make", "put", "read"}, Goes(r, do), Rank(do) > Rank(p.do)
        PROVE  Advances(p, q)
    BY <1>1, <1>3, GoesTurns, NextCallIsFurther
  <1>4. ASSUME NEW how \in {"dead", "beaten"}, Ends(r, how), Working(r)
        PROVE  Advances(p, q)
    <2>1. Rank(p.do) < Rank(how)
      BY <1>1, <1>2, <1>4 DEF Working, Progress
    <2> QED BY <1>1, <1>4, <2>1, EndsTurns, NextCallIsFurther
  <1>5. ASSUME NEW value \in Nothing..MaxSecret, Prints(r, value), p.do \in {"look", "make"}
        PROVE  Advances(p, q)
    <2>1. Rank(p.do) < Rank("done")
      BY <1>2, <1>5
    <2> QED BY <1>1, <1>5, <2>1, PrintsTurns, NextCallIsFurther
  <1>6. CASE RealmThere(r) \/ ImportRealm(r)
    <2>1. Kind(p) = "import" /\ (p.do = "look" \/ NextStage(r))
      BY <1>6, AtIs DEF RealmThere, ImportRealm
    <2> QED BY <1>2, <1>3, <1>6, <2>1, NextIsFurther DEF RealmThere, ImportRealm
  <1>7. CASE List(r)
    <2>1. Kind(p) = "list" /\ p.do = "look"
      BY <1>7, AtIs DEF List
    <2>2. ASSUME run' = [run EXCEPT ![r].do = "make", ![r].todo = Makes(r) \ has]
          PROVE  q.stage = p.stage /\ q.do = "make"
      BY <1>1, <2>2 DEF TypeOK, Progress
    <2> QED BY <1>2, <1>7, <2>1, <2>2, NextIsFurther DEF List, Advances
  <1>8. ASSUME NEW x \in Thing, AddMissing(r, x) PROVE Advances(p, q)
    <2>1. Kind(p) = "list" /\ p.do = "make" /\ x \in p.todo
      BY <1>8, AtIs DEF AddMissing
    <2>2. ASSUME run' = [run EXCEPT ![r].todo = @ \ {x}]
          PROVE  q.stage = p.stage /\ q.do = p.do /\ q.todo = p.todo \ {x}
      BY <1>1, <2>2 DEF TypeOK, Progress
    <2> QED BY <1>8, <2>1, <2>2, NextIsFurther DEF AddMissing, Advances
  <1>9. CASE Find(r)
    <2>1. Kind(p) = "object" /\ p.do = "look"
      BY <1>9, AtIs DEF Find
    <2>2. ASSUME run' = [run EXCEPT ![r].do = "put", ![r].seen = secret]
          PROVE  q.stage = p.stage /\ q.do = "put"
      BY <1>1, <2>2 DEF TypeOK, Progress
    <2>3. Goes(r, "make") => Advances(p, q)
      BY <1>2, <1>3, <2>1
    <2>4. NextStage(r) => Advances(p, q)
      BY <2>1, NextIsFurther
    <2> QED BY <1>2, <1>9, <2>1, <2>2, <2>3, <2>4 DEF Find, Advances
  <1>10. CASE Create(r)
    <2>1. p.do = "make" /\ Working(r)
      BY <1>10, AtIs DEF Create
    <2> QED BY <1>2, <1>3, <1>4, <1>10, <2>1 DEF Create
  <1>11. CASE ReadBack(r) \/ PutBack(r) \/ FindRoleList(r) \/ LookAtRoleList(r) \/ SetPassword(r)
    <2>1. Kind(p) \in {"object", "fix", "set"} /\ Working(r)
      BY <1>11, AtIs DEF ReadBack, PutBack, FindRoleList, LookAtRoleList, SetPassword
    <2>2. \/ NextStage(r) \/ Ends(r, "dead")
          \/ Goes(r, "read") /\ p.do = "look"
          \/ Goes(r, "put") /\ p.do = "read"
      BY <1>11 DEF ReadBack, PutBack, FindRoleList, LookAtRoleList, SetPassword, At
    <2> QED BY <1>2, <1>3, <1>4, <2>1, <2>2, NextIsFurther
  <1>12. CASE FindPublic(r) \/ ReadSecret(r)
    <2>1. p.do = "look"
      BY <1>12 DEF FindPublic, ReadSecret, At
    <2>2. Nothing \in Nothing..MaxSecret /\ secret \in Nothing..MaxSecret
      BY <1>1, BoundAssumption DEF TypeOK, Nothing
    <2> QED BY <1>2, <1>3, <1>5, <1>12, <2>1, <2>2 DEF FindPublic, ReadSecret
  <1>13. CASE RegenerateSecret(r)
    <2>1. p.do = "make"
      BY <1>13 DEF RegenerateSecret, At
    <2>2. secret' \in Nothing..MaxSecret
      BY <1>1, <1>13, BoundAssumption DEF RegenerateSecret, NewSecret, TypeOK, Nothing
    <2> QED BY <1>5, <1>13, <2>1, <2>2 DEF RegenerateSecret
  <1>14. CASE Fail(r)
    BY <1>4, <1>14 DEF Fail
  <1> QED
    BY <1>6, <1>7, <1>8, <1>9, <1>10, <1>11, <1>12, <1>13, <1>14 DEF Step

(* A run makes finitely many calls: each takes it strictly further in the    *)
(* program, a stage or a list, and nothing sets it back.  With NeverStuck an *)
(* undisturbed run therefore comes to its end, unless it dies or is beaten.  *)
THEOREM RunsGetAhead == Spec => [][GetsAhead]_vars
  <1>1. IInv /\ [Next]_vars => [GetsAhead]_vars
    <2> SUFFICES ASSUME IInv, Next, NEW r \in Run
                 PROVE  /\ (Start(r) \/ Step(r) \/ Fail(r)) => Advances(run[r], run'[r])
                        /\ Advances(run[r], run'[r]) \/ Stays(run[r], run'[r])
      BY DEF GetsAhead
    <2>1. TypeOK /\ run[r] \in Progress
      BY DEF IInv, TypeOK
    <2>2. Start(r) => Advances(run[r], run'[r])
      <3> SUFFICES ASSUME Start(r) PROVE Advances(run[r], run'[r])
        OBVIOUS
      <3>1. /\ run[r].do = "ready"
            /\ run'[r] = [run[r] EXCEPT !.do = "look", !.alone = \A p \in Run : ~Working(p)]
        BY DEF Start
      <3>2. run'[r].stage = run[r].stage /\ run'[r].do = "look"
        BY <2>1, <3>1 DEF Progress
      <3> QED BY <3>1, <3>2 DEF Advances, Rank
    <2>3. (Start(r) \/ Step(r) \/ Fail(r)) => Advances(run[r], run'[r])
      BY <2>2, CallAdvances
    <2>4. ASSUME NEW q \in Run, q # r, Start(q) PROVE Stays(run[r], run'[r])
      <3>1. run'[r] = [run[r] EXCEPT !.alone = @ /\ ~Working(r)]
        BY <2>4 DEF Start
      <3> QED BY <2>1, <3>1 DEF Progress, Stays
    <2>5. ASSUME NEW q \in Run, q # r, Step(q) \/ Fail(q) PROVE Stays(run[r], run'[r])
      BY <2>5, EveryStep DEF StepOf, Moves, Stays
    <2>6. Disturb => Stays(run[r], run'[r])
      <3>1. Disturb => run'[r] = [run[r] EXCEPT !.calm = (run[r].do = "ready")]
        BY DEF Disturb
      <3> QED BY <2>1, <3>1 DEF Progress, Stays
    <2> QED
      BY <2>3, <2>4, <2>5, <2>6 DEF Next, DeleteThing, BreakThing, Promote, MakePublic
  <1> QED BY <1>1, Invariance, PTL DEF Spec
=============================================================================
