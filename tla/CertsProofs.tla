---------------------------- MODULE CertsProofs -----------------------------
(* The promises of Certs, for any number of runs.  IInv is inductive: a plain *)
(* run only ever adds to clean material, and a forced one that ends has made  *)
(* all of it.                                                                 *)
EXTENDS Certs, TLAPS

\* The four targets are the four pairs of files, the CA's first.
LEMMA Targets ==
    /\ \A i \in 1..4 : Target[i] \in Files
    /\ \A i, j \in 1..4 : Target[i] = Target[j] => i = j
    /\ \A i \in 1..4 : Target[i] = "ca" <=> i = 1
    /\ \A t \in Files : \E i \in 1..4 : Target[i] = t
    /\ Len(Target) = 4
  BY DEF Target, Files, Service

\* A fresh clone satisfies the invariant.
LEMMA Initially == Init => IInv
  <1> SUFFICES ASSUME Init PROVE IInv
    OBVIOUS
  <1>1. ~Working /\ run.part = "done" /\ run.number = 0 /\ \A t \in Files : crt[t] = Absent
    BY DEF Init, Working
  <1>2. TypeOK
    <2>1. run \in [number : 0..MaxRuns, force : BOOLEAN, target : 1..4, part : Part]
      BY RunsAssumption DEF Init, Part
    <2> QED BY <2>1 DEF Init, TypeOK
  <1>3. RunInv /\ ForcedInv /\ CleanInv
    BY <1>1 DEF RunInv, ForcedInv, CleanInv, Clean
  <1>4. LoadedInv
    BY DEF Init, LoadedInv
  <1> QED BY <1>2, <1>3, <1>4 DEF IInv

\* A run that starts has dealt with nothing yet.
LEMMA Starting == IInv /\ Start => IInv'
  <1> SUFFICES ASSUME IInv, Start PROVE IInv'
    OBVIOUS
  <1>1. PICK force \in BOOLEAN :
           run' = [number |-> run.number + 1, force |-> force, target |-> 1, part |-> "check"]
    BY DEF Start
  <1>2. run.number \in Nat /\ run.number + 1 \in Key
    BY RunsAssumption DEF IInv, TypeOK, Start, Key
  <1>3. TypeOK'
    BY <1>1, <1>2, RunsAssumption DEF IInv, TypeOK, Start, Part, Key
  <1>4. RunInv' /\ ForcedInv' /\ LoadedInv'
    BY <1>1, <1>2 DEF IInv, RunInv, ForcedInv, LoadedInv, Dealt, Working, Start
  <1>5. CleanInv'
    BY <1>1 DEF IInv, CleanInv, Clean, Working, Dealt, Start
  <1> QED BY <1>3, <1>4, <1>5 DEF IInv

\* The run goes on to its next target or ends.
LEMMA GoingOn ==
    ASSUME IInv, Working, GoesOn
    PROVE  /\ run' \in [number : {run.number}, force : {run.force}, target : 1..4,
                        part : {"check", "done"}]
           /\ \/ run.target < 4 /\ run'.target = run.target + 1 /\ run'.part = "check"
              \/ run.target = 4 /\ run'.target = 4 /\ run'.part = "done"
           /\ torn' = (torn /\ ~(run.force /\ run'.part = "done"))
           /\ \A i \in 1..4 : Dealt(i)' <=> Dealt(i) \/ i = run.target
  <1>1. /\ run \in [number : 0..MaxRuns, force : BOOLEAN, target : 1..4, part : Part]
        /\ run.part # "done"
    BY DEF IInv, TypeOK, Working
  <1>2. CASE run.target < 4
    <2>1. run' = [run EXCEPT !.target = run.target + 1, !.part = "check"]
      BY <1>2, Targets DEF GoesOn
    <2>2. /\ run'.number = run.number /\ run'.force = run.force
          /\ run'.target = run.target + 1 /\ run'.part = "check"
          /\ run' \in [number : {run.number}, force : {run.force}, target : 1..4,
                       part : {"check", "done"}]
      <3>1. run' = [number |-> run.number, force |-> run.force,
                    target |-> run.target + 1, part |-> "check"]
        BY <1>1, <2>1
      <3>2. run.target + 1 \in 1..4
        BY <1>1, <1>2
      <3> QED BY <3>1, <3>2
    <2>3. ASSUME NEW i \in 1..4 PROVE Dealt(i)' <=> Dealt(i) \/ i = run.target
      <3>1. run.target \in 1..4 /\ (i < run.target + 1 <=> i < run.target \/ i = run.target)
        BY <1>1
      <3> QED BY <1>1, <2>2, <3>1 DEF Dealt
    <2> QED BY <1>2, <2>2, <2>3 DEF GoesOn
  <1>3. CASE ~(run.target < 4)
    <2>1. run' = [run EXCEPT !.part = "done"] /\ run.target = 4
      BY <1>1, <1>3, Targets DEF GoesOn, Goes
    <2> QED BY <1>1, <2>1 DEF GoesOn, Dealt
  <1> QED BY <1>2, <1>3

\* A plain run skips what is there; in clean material that is sound already.
LEMMA Checking == IInv /\ Check => IInv'
  <1> SUFFICES ASSUME IInv, Check PROVE IInv'
    OBVIOUS
  <1>0. Working /\ run.part = "check"
    BY DEF Check, Working
  <1>1. CASE Present /\ ~run.force /\ GoesOn
    <2> USE <1>0, <1>1, GoingOn
    <2>1. TypeOK'
      BY DEF IInv, TypeOK, Check, Part
    <2>2. RunInv' /\ LoadedInv' /\ ForcedInv'
      BY DEF IInv, RunInv, LoadedInv, ForcedInv, Working, Check
    <2>3. CleanInv'
      <3> SUFFICES ASSUME ~torn PROVE CleanInv'
        BY DEF CleanInv
      <3>1. Clean /\ \A i \in 1..4 : Dealt(i)' => crt[Target[i]] # Absent
        BY DEF IInv, CleanInv, Present, Now
      <3>2. run'.part = "done" => \A t \in Files : crt[t] # Absent
        BY <3>1, Targets DEF Dealt
      <3> QED BY <3>1, <3>2 DEF CleanInv, Clean, Check
    <2> QED BY <2>1, <2>2, <2>3 DEF IInv
  <1>2. CASE ~(Present /\ ~run.force) /\ Goes("key") /\ UNCHANGED torn
    <2>1. /\ run' = [run EXCEPT !.part = "key"]
          /\ run \in [number : 0..MaxRuns, force : BOOLEAN, target : 1..4, part : Part]
      BY <1>2 DEF Goes, IInv, TypeOK
    <2>2. TypeOK'
      BY <1>2, <2>1 DEF IInv, TypeOK, Check, Part
    <2>3. RunInv' /\ LoadedInv' /\ ForcedInv'
      BY <1>0, <1>2, <2>1
      DEF IInv, RunInv, LoadedInv, ForcedInv, Working, Check, Dealt
    <2>4. CleanInv'
      <3> SUFFICES ASSUME ~torn, ~run.force PROVE CleanInv'
        BY <1>2, <2>1 DEF CleanInv, Working
      <3>1. Clean /\ \A i \in 1..4 : Dealt(i) => crt[Target[i]] # Absent
        BY <1>0 DEF IInv, CleanInv
      <3>2. crt[Now] = Absent
        BY <1>2, <3>1, <2>1, Targets, NoFileAssumption
        DEF Present, Clean, IInv, TypeOK, Now, Cert
      <3> QED BY <1>0, <1>2, <2>1, <3>1, <3>2 DEF CleanInv, Clean, Check, Now, Dealt, Working
    <2> QED BY <2>2, <2>3, <2>4 DEF IInv
  <1> QED BY <1>1, <1>2 DEF Check

\* A key is made only where its certificate is missing, or by a forced run.
LEMMA MakingKey == IInv /\ MakeKey => IInv'
  <1> SUFFICES ASSUME IInv, MakeKey PROVE IInv'
    OBVIOUS
  <1>1. /\ run' = [run EXCEPT !.part = "crt"]
        /\ run \in [number : 0..MaxRuns, force : BOOLEAN, target : 1..4, part : Part]
        /\ run.part = "key" /\ Working /\ run.number \in Key
    BY DEF IInv, TypeOK, RunInv, MakeKey, Goes, Working
  <1>2. key' = [key EXCEPT ![Now] = run.number] /\ Now \in Files /\ key \in [Files -> Key \cup {Absent, Empty}]
    BY <1>1, Targets DEF MakeKey, Now, IInv, TypeOK
  <1>3. TypeOK'
    BY <1>1, <1>2 DEF IInv, TypeOK, MakeKey, Part
  <1>4. RunInv' /\ LoadedInv'
    BY <1>1, <1>2 DEF IInv, RunInv, LoadedInv, MakeKey, Now
  <1>5. ForcedInv'
    BY <1>1, <1>2, Targets DEF IInv, ForcedInv, MakeKey, Dealt, Now, Working
  <1>6. CleanInv'
    <2> SUFFICES ASSUME ~torn, ~run.force PROVE CleanInv'
      BY <1>1 DEF CleanInv, MakeKey, Working
    <2>1. Clean /\ crt[Now] = Absent /\ \A i \in 1..4 : Dealt(i) => crt[Target[i]] # Absent
      BY <1>1 DEF IInv, CleanInv
    <2>2. Clean'
      BY <2>1, <1>2 DEF Clean, MakeKey
    <2> QED BY <1>1, <2>1, <2>2 DEF CleanInv, MakeKey, Now, Dealt, Working
  <1> QED BY <1>3, <1>4, <1>5, <1>6 DEF IInv

\* A certificate made is for its key and signed by the CA of the moment.
LEMMA MakingCrt == IInv /\ MakeCrt => IInv'
  <1> SUFFICES ASSUME IInv, MakeCrt PROVE IInv'
    OBVIOUS
  <1>1. /\ run.part = "crt" /\ Working /\ GoesOn
        /\ run.number \in Key /\ key[Now] = run.number
        /\ run.target \in 1..4 /\ Now = Target[run.target] /\ Now \in Files
    BY Targets DEF IInv, TypeOK, RunInv, MakeCrt, Working, Now
  <1>2. Now # "ca" => crt["ca"] \in Cert /\ crt["ca"].key = key["ca"]
    BY DEF MakeCrt, CaUsable
  <1>3. Signer \in Key
    BY <1>1, <1>2 DEF Signer, Cert
  <1>4. /\ crt' = [crt EXCEPT ![Now] = [key |-> run.number, signer |-> Signer]]
        /\ crt \in [Files -> Cert \cup {Absent}] /\ "ca" \in Files
        /\ [key |-> run.number, signer |-> Signer] \in Cert
        /\ [key |-> run.number, signer |-> Signer] # Absent
    BY <1>1, <1>3, NoFileAssumption DEF MakeCrt, IInv, TypeOK, Files, Cert
  <1>5. TypeOK'
    <2>1. run' \in [number : 0..MaxRuns, force : BOOLEAN, target : 1..4, part : Part]
          /\ torn' \in BOOLEAN
      BY <1>1, GoingOn DEF IInv, TypeOK, Part
    <2> QED BY <1>4, <2>1 DEF IInv, TypeOK, MakeCrt
  <1>6. RunInv' /\ LoadedInv'
    BY <1>1, <1>4, GoingOn DEF IInv, RunInv, LoadedInv, MakeCrt, Working, Service, Files
  <1>7. ASSUME run.force
        PROVE  \A i \in 1..4 : Dealt(i)' =>
                  /\ key[Target[i]] = run.number
                  /\ crt'[Target[i]] = [key |-> run.number, signer |-> run.number]
    <2>1. Signer = run.number
      BY <1>1, <1>7, Targets DEF IInv, ForcedInv, Signer, Dealt
    <2> QED BY <1>1, <1>4, <1>7, <2>1, GoingOn, Targets DEF IInv, ForcedInv
  <1>8. ForcedInv'
    BY <1>1, <1>7, GoingOn DEF ForcedInv, MakeCrt
  <1>9. CleanInv'
    <2>1. CASE run.force
      <3>1. run'.part = "done" =>
               /\ \A i \in 1..4 : Dealt(i)'
               /\ \A t \in Files : key[t] = run.number
                     /\ crt'[t] = [key |-> run.number, signer |-> run.number]
        BY <1>7, <2>1, Targets DEF Dealt
      <3>2. run'.part = "done" => \A t \in Files : crt'[t] # Absent
        BY <3>1, <1>1, NoFileAssumption DEF Cert
      <3>3. run'.part = "done" => Clean'
        BY <3>1, <1>4 DEF Clean, MakeCrt
      <3>4. run'.force = run.force /\ run'.part \in {"check", "done"}
        BY <1>1, GoingOn
      <3> QED BY <2>1, <3>2, <3>3, <3>4 DEF CleanInv, Working
    <2>2. CASE ~run.force /\ ~torn
      <3>1. Clean /\ crt[Now] = Absent /\ \A i \in 1..4 : Dealt(i) => crt[Target[i]] # Absent
        BY <1>1, <2>2 DEF IInv, CleanInv
      <3>2. Clean'
        <4>1. CASE Now = "ca"
          BY <4>1, <3>1, <1>1, <1>4 DEF Clean, MakeCrt, Signer
        <4>2. CASE Now # "ca"
          BY <4>2, <3>1, <1>1, <1>2, <1>4, NoFileAssumption DEF Clean, MakeCrt, Signer
        <4> QED BY <4>1, <4>2
      <3>3. \A i \in 1..4 : Dealt(i)' => crt'[Target[i]] # Absent
        BY <3>1, <1>1, <1>4, GoingOn, Targets
      <3>4. run'.part = "done" => \A t \in Files : crt'[t] # Absent
        BY <3>3, Targets DEF Dealt
      <3> QED BY <3>2, <3>3, <3>4, <1>1, GoingOn DEF CleanInv
    <2>3. CASE ~run.force /\ torn
      BY <2>3, <1>1, GoingOn DEF CleanInv
    <2> QED BY <2>1, <2>2, <2>3
  <1> QED BY <1>5, <1>6, <1>8, <1>9 DEF IInv

\* A plain run that stops leaves at most a target without a certificate.
LEMMA Stopping == IInv /\ Stop => IInv'
  <1> SUFFICES ASSUME IInv, Stop PROVE IInv'
    OBVIOUS
  <1>1. /\ run' = [run EXCEPT !.part = "dead"]
        /\ run \in [number : 0..MaxRuns, force : BOOLEAN, target : 1..4, part : Part]
        /\ Working /\ Now \in Files
        /\ torn' = (torn \/ run.force) /\ UNCHANGED <<crt, loaded>>
    BY Targets DEF IInv, TypeOK, Stop, Goes, Now
  <1>2. TypeOK'
    BY <1>1 DEF IInv, TypeOK, Stop, Part
  <1>3. RunInv' /\ ForcedInv' /\ LoadedInv'
    BY <1>1 DEF IInv, RunInv, ForcedInv, LoadedInv, Working, Stop
  <1>4. CleanInv'
    <2> SUFFICES ASSUME ~torn, ~run.force PROVE CleanInv'
      BY <1>1 DEF CleanInv, IInv, TypeOK
    <2>1. Clean /\ (run.part \in {"key", "crt"} => crt[Now] = Absent)
      BY <1>1 DEF IInv, CleanInv
    <2>2. Clean'
      BY <1>1, <2>1 DEF Clean, Stop, IInv, TypeOK
    <2> QED BY <1>1, <2>2 DEF CleanInv, Working
  <1> QED BY <1>2, <1>3, <1>4 DEF IInv

\* What a container loads is on disk.
LEMMA Restarting == ASSUME NEW s \in Service, IInv, Restart(s) PROVE IInv'
  <1>1. MtlsContext(s) \in Context \cup {Absent}
    <2>1. s \in Files /\ "ca" \in Files
      BY DEF Files
    <2> QED BY <2>1 DEF MtlsContext, Loadable, Matches, Context, Cert, IInv, TypeOK
  <1>2. TypeOK'
    BY <1>1 DEF IInv, TypeOK, Restart
  <1>3. LoadedInv'
    BY NoFileAssumption DEF IInv, TypeOK, LoadedInv, Restart, MtlsContext, Loadable, Matches
  <1>4. RunInv' /\ ForcedInv' /\ CleanInv'
    BY DEF IInv, RunInv, ForcedInv, CleanInv, Clean, Dealt, Working, Now, Restart
  <1> QED BY <1>2, <1>3, <1>4 DEF IInv

\* Every step keeps the invariant.
LEMMA Steps == IInv /\ [Next]_vars => IInv'
  <1> SUFFICES ASSUME IInv, [Next]_vars PROVE IInv'
    OBVIOUS
  <1>1. CASE UNCHANGED vars
    BY <1>1 DEF vars, IInv, TypeOK, RunInv, ForcedInv, CleanInv, Clean, LoadedInv,
                Dealt, Working, Now
  <1> QED
    BY <1>1, Starting, Checking, MakingKey, MakingCrt, Stopping, Restarting DEF Next

\* The invariant, for any bound on the runs (generate.sh:25-76).
THEOREM Invariance == Spec => []IInv
  BY Initially, Steps, PTL DEF Spec

\* Files, runs and TLS contexts keep their types.
THEOREM TypeCorrect == Spec => []TypeOK
  BY Invariance, PTL DEF IInv

\* A run that ends leaves sound material, whatever earlier runs were stopped at,
\* unless a forced one was and none has ended since (generate.sh:13-19, 45-46).
THEOREM EndsSound == Spec => []EndMeansSound
  <1>1. IInv => EndMeansSound
    <2> SUFFICES ASSUME IInv, run.part = "done", run.number > 0, ~torn PROVE Sound
      BY DEF EndMeansSound
    <2>1. Clean /\ \A t \in Files : crt[t] # Absent
      BY DEF IInv, CleanInv, Working
    <2>2. \A t \in Files : crt[t] \in Cert
      BY <2>1 DEF IInv, TypeOK
    <2> QED BY <2>1, <2>2 DEF Sound, Chains, CaUsable, Matches, Clean, Files
  <1> QED BY <1>1, Invariance, PTL

\* After a run that ended, containers that hold what is on disk shake hands
\* (generate.sh:18-23).
THEOREM RestartsSuffice == Spec => []RestartSuffices
  <1>1. IInv => RestartSuffices
    <2> SUFFICES ASSUME IInv, run.part = "done", run.number > 0, ~torn,
                        \A s \in Service : loaded[s] = MtlsContext(s),
                        NEW s \in {"orders", "inventory"}
                 PROVE  Handshake(s)
      BY DEF RestartSuffices, AllShake
    <2>1. Clean /\ \A t \in Files : crt[t] \in Cert
      BY DEF IInv, CleanInv, Working, TypeOK
    <2>2. /\ s \in Service /\ "gateway" \in Service
          /\ s \in Files /\ "gateway" \in Files /\ "ca" \in Files
      BY DEF Service, Files
    <2>3. Loadable(s) /\ Loadable("gateway")
      BY <2>1, <2>2, NoFileAssumption DEF Loadable, Matches, Clean
    <2>4. MtlsContext(s) = [key |-> key[s], crt |-> crt[s], ca |-> crt["ca"].key]
      BY <2>3 DEF MtlsContext
    <2>5. MtlsContext(s) # Absent
      BY <2>1, <2>2, <2>3, <2>4, NoContextAssumption DEF Context, Cert, Loadable, Matches
    <2>6. crt[s].signer = crt["ca"].key /\ crt["gateway"].signer = crt["ca"].key
      BY <2>1, <2>2, NoFileAssumption DEF Clean
    <2> QED BY <2>2, <2>3, <2>4, <2>5, <2>6 DEF Handshake, UpstreamOffers, UpstreamTrusts, Requires
  <1> QED BY <1>1, Invariance, PTL

\* A plain run does not disturb a stack whose handshakes succeed, ended or
\* stopped, with containers restarting meanwhile, unless a forced run was stopped and
\* none has ended since (SETUP.md:13-16).
THEOREM PlainRunsAreHarmless == Spec => PlainRunHarmless
  <1>1. IInv /\ [Next]_vars =>
           [AllShake /\ ~torn /\ ~run.force /\ ~run'.force => AllShake']_vars
    <2> SUFFICES ASSUME IInv, Next, AllShake, ~torn, ~run.force PROVE AllShake'
      BY DEF AllShake, vars
    <2> DEFINE Upstream == {"orders", "inventory"}
    <2>1. /\ Clean /\ (run.part \in {"key", "crt"} => crt[Now] = Absent)
          /\ "ca" \in Files /\ "gateway" \in Files /\ Upstream \subseteq Service \cap Files
      BY DEF IInv, CleanInv, Files, Service
    <2>2. Loadable("gateway") /\ \A s \in Upstream : loaded[s] # Absent /\ crt[s] # Absent
      BY <2>1 DEF AllShake, Handshake, UpstreamOffers, IInv, LoadedInv
    <2>3. /\ crt["ca"] \in Cert /\ crt["ca"] # Absent
          /\ crt["gateway"] \in Cert /\ crt["gateway"] # Absent
      BY <2>2, NoFileAssumption DEF Loadable, Matches
    <2>4. CASE UNCHANGED <<loaded, key, crt>>
      BY <2>4 DEF AllShake, Handshake, UpstreamOffers, UpstreamTrusts, Requires, Loadable, Matches
    <2>5. ASSUME UNCHANGED loaded, crt'["ca"] = crt["ca"], crt'["gateway"] = crt["gateway"],
                 key'["gateway"] = key["gateway"]
          PROVE  AllShake'
      BY <2>5 DEF AllShake, Handshake, UpstreamOffers, UpstreamTrusts, Requires, Loadable, Matches
    <2>6. CASE MakeKey
      BY <2>1, <2>3, <2>5, <2>6 DEF MakeKey, IInv, TypeOK
    <2>7. CASE MakeCrt
      BY <2>1, <2>3, <2>5, <2>7 DEF MakeCrt, IInv, TypeOK
    <2>8. CASE Stop
      BY <2>1, <2>3, <2>4, <2>5, <2>8 DEF Stop, IInv, TypeOK
    <2>9. ASSUME NEW s \in Service, Restart(s) PROVE AllShake'
      <3>1. ASSUME NEW u \in Upstream PROVE Handshake(u)'
        <4>0. Handshake(u) /\ UNCHANGED <<key, crt>>
          BY <2>9 DEF AllShake, Restart
        <4>1. CASE u # s
          BY <4>0, <4>1, <2>9, <2>1 DEF Restart, Handshake, UpstreamOffers, UpstreamTrusts,
                             Requires, Loadable, Matches, IInv, TypeOK
        <4>2. CASE u = s
          <5>1. /\ crt[u] \in Cert /\ crt[u].key = key[u]
                /\ crt[u].signer = crt["ca"].key /\ crt["gateway"].signer = crt["ca"].key
            BY <2>1, <2>2, <2>3 DEF Clean, IInv, TypeOK
          <5>2. loaded'[u] = [key |-> key[u], crt |-> crt[u], ca |-> crt["ca"].key]
            BY <4>2, <5>1, <2>1, <2>3, <2>9
            DEF Restart, MtlsContext, Loadable, Matches, IInv, TypeOK
          <5>3. loaded'[u] # Absent
            BY <5>1, <5>2, <2>3, NoContextAssumption DEF Context, Cert
          <5> QED
            BY <4>0, <5>1, <5>2, <5>3, <2>2
            DEF Handshake, UpstreamOffers, UpstreamTrusts, Requires, Loadable, Matches
        <4> QED BY <4>1, <4>2
      <3> QED BY <3>1 DEF AllShake
    <2> QED
      BY <2>4, <2>6, <2>7, <2>8, <2>9 DEF Next, Start, Check
  <1> QED BY <1>1, Invariance, PTL DEF Spec, PlainRunHarmless
=============================================================================
