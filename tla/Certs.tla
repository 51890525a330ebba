------------------------------- MODULE Certs --------------------------------
(* certs/generate.sh and what the gateway, orders and inventory make of its  *)
(* files: the lab's CA, three certificates under it, and mutual TLS between  *)
(* containers that read them at different times.                             *)
EXTENDS Integers, Sequences

CONSTANTS
    MaxRuns,    \* bound on the runs of the script
    Absent,     \* no such file
    Empty       \* a key file that openssl had opened when it was stopped

ASSUME RunsAssumption == MaxRuns \in Nat

Target == <<"ca", "gateway", "orders", "inventory">>
Service == {"gateway", "orders", "inventory"}

\* A key is named by the run that made it: a run makes at most one per target.
\* A certificate has the key it is for, and the CA's key that signed it.
Key == 1..MaxRuns
Cert == [key : Key, signer : Key]

ASSUME NoFileAssumption == Absent \notin Key \cup Cert \cup {Empty}

VARIABLES
    key,        \* the files <target>.key
    crt,        \* the files <target>.crt
    run,        \* the run: its number, --force, the target and part it is at
    torn,       \* a --force run was stopped, and none has ended since (history)
    loaded      \* what each container has read into its TLS context, or Absent

vars == <<key, crt, run, torn, loaded>>

Files == {"ca"} \cup Service
Part == {"check", "key", "crt", "done", "dead"}
Context == [key : Key, crt : Cert, ca : Key]

ASSUME NoContextAssumption == Absent \notin Context

TypeOK ==
    /\ key \in [Files -> Key \cup {Absent, Empty}]
    /\ crt \in [Files -> Cert \cup {Absent}]
    /\ run \in [number : 0..MaxRuns, force : BOOLEAN, target : 1..4, part : Part]
    /\ torn \in BOOLEAN
    /\ loaded \in [Service -> Context \cup {Absent}]

\* A fresh clone, before any run.
Init ==
    /\ key = [t \in Files |-> Absent]
    /\ crt = [t \in Files |-> Absent]
    /\ run = [number |-> 0, force |-> FALSE, target |-> 1, part |-> "done"]
    /\ torn = FALSE
    /\ loaded = [s \in Service |-> Absent]

Now == Target[run.target]
Working == run.part \in {"check", "key", "crt"}
Goes(part) == run' = [run EXCEPT !.part = part]

\* Mutant: one target too many.
GoesOnPast ==
    /\ run' = [run EXCEPT !.target = @ + 1, !.part = "check"]
    /\ UNCHANGED torn

\* The next target, or the end of the script.
GoesOn ==
    /\ IF run.target < Len(Target)
       THEN run' = [run EXCEPT !.target = @ + 1, !.part = "check"]
       ELSE Goes("done")
    /\ torn' = (torn /\ ~(run.force /\ run'.part = "done"))

-----------------------------------------------------------------------------

Start ==
    /\ ~Working
    /\ run.number < MaxRuns
    /\ \E force \in BOOLEAN :
          run' = [number |-> run.number + 1, force |-> force, target |-> 1, part |-> "check"]
    /\ UNCHANGED <<key, crt, torn, loaded>>

\* Mutant: the key alone is looked for.
PresentKey == key[Now] # Absent

\* Mutant: every run makes a new CA.
PresentService == Now # "ca" /\ key[Now] # Absent /\ crt[Now] # Absent

\* -f, which an empty file satisfies
Present == key[Now] # Absent /\ crt[Now] # Absent

Check ==
    /\ run.part = "check"
    /\ \/ Present /\ ~run.force /\ GoesOn
       \/ ~(Present /\ ~run.force) /\ Goes("key") /\ UNCHANGED torn
    /\ UNCHANGED <<key, crt, loaded>>

\* openssl genrsa
MakeKey ==
    /\ run.part = "key"
    /\ key' = [key EXCEPT ![Now] = run.number]
    /\ Goes("crt")
    /\ UNCHANGED <<crt, torn, loaded>>

\* openssl x509 needs a CA whose certificate is for its key.
CaUsable == crt["ca"] \in Cert /\ crt["ca"].key = key["ca"]

\* Mutant: a service certificate is signed with the service's own key.
SignerSelf == key[Now]

Signer == IF Now = "ca" THEN key[Now] ELSE key["ca"]

\* openssl req -x509 for the CA, openssl req and x509 -req for a service.
MakeCrt ==
    /\ run.part = "crt"
    /\ Now # "ca" => CaUsable
    /\ crt' = [crt EXCEPT ![Now] = [key |-> key[Now], signer |-> Signer]]
    /\ GoesOn
    /\ UNCHANGED <<key, loaded>>

\* Interrupted, or an openssl that fails (set -e).  genrsa opens its file before
\* it looks for primes, which takes seconds; the other commands write theirs when
\* they have all of it.
Stop ==
    /\ Working
    /\ Goes("dead")
    /\ torn' = (torn \/ run.force)
    /\ \/ UNCHANGED key
       \/ run.part = "key" /\ key' = [key EXCEPT ![Now] = Empty]
    /\ UNCHANGED <<crt, loaded>>

-----------------------------------------------------------------------------

Matches(s) == crt[s] \in Cert /\ crt[s].key = key[s]

\* mtls_context: load_cert_chain and load_verify_locations raise unless the key
\* is the certificate's and there is a CA certificate.
Loadable(s) == Matches(s) /\ crt["ca"] \in Cert

\* What a container that starts now reads.
MtlsContext(s) ==
    IF Loadable(s) THEN [key |-> key[s], crt |-> crt[s], ca |-> crt["ca"].key] ELSE Absent

\* docker compose up, or restart: a container that cannot load exits.
Restart(s) ==
    /\ loaded' = [loaded EXCEPT ![s] = MtlsContext(s)]
    /\ UNCHANGED <<key, crt, run, torn>>

\* upstream.cert and upstream.verify are paths, read anew for every connection,
\* while s goes by what it has loaded: CERT_REQUIRED, and the lab CA.
UpstreamOffers == Loadable("gateway")
UpstreamTrusts(s) == loaded[s].crt.signer = crt["ca"].key
Requires(s) == crt["gateway"].signer = loaded[s].ca

Handshake(s) ==
    loaded[s] # Absent /\ UpstreamOffers /\ UpstreamTrusts(s) /\ Requires(s)

Next ==
    \/ Start \/ Check \/ MakeKey \/ MakeCrt \/ Stop
    \/ \E s \in Service : Restart(s)

Spec == Init /\ [][Next]_vars

-----------------------------------------------------------------------------

\* Every service's certificate is for its key and chains to the CA.
Chains ==
    /\ crt["ca"] \in Cert
    /\ \A s \in Service : Matches(s) /\ crt[s].signer = crt["ca"].key

\* And the CA can issue more.
Sound == Chains /\ CaUsable

\* When a run ends, the material is sound, whatever earlier runs were stopped at,
\* unless a forced one was and none has ended since; a forced run that ends
\* repairs everything (generate.sh:13-19, 45-46).
EndMeansSound == run.part = "done" /\ run.number > 0 /\ ~torn => Sound

AllShake == \A s \in {"orders", "inventory"} : Handshake(s)

\* A stack whose handshakes succeed is not disturbed by a plain run, ended or
\* stopped, nor by containers that restart meanwhile, unless a forced run was stopped
\* and none has ended since (SETUP.md:13-16).
PlainRunHarmless ==
    [][AllShake /\ ~torn /\ ~run.force /\ ~run'.force => AllShake']_vars

\* After a run that ended, restarting the containers is enough: those that hold
\* what is on disk shake hands (generate.sh:18-23; SETUP.md:16-19).
RestartSuffices ==
    /\ run.part = "done" /\ run.number > 0 /\ ~torn
    /\ \A s \in Service : loaded[s] = MtlsContext(s)
    => AllShake

\* "By default it is a no-op when the material already exists, so re-running is
\* safe" (generate.sh:13-14), "Every service certificate chains to this CA"
\* (generate.sh:45): whatever an earlier run was stopped at, they do when a run ends.
RerunIsSafe == run.part = "done" /\ run.number > 0 => Chains

-----------------------------------------------------------------------------
(* The inductive invariant behind those promises (proved in CertsProofs).    *)

\* The targets the run has dealt with.
Dealt(i) == i < run.target \/ run.part = "done"

\* What every run knows of itself.
RunInv ==
    /\ Working => run.number \in Key
    /\ run.part = "done" /\ run.number > 0 => run.target = 4
    /\ Working /\ run.part = "crt" => key[Now] = run.number

\* A forced run has made everything up to where it is.
ForcedInv ==
    Working /\ run.force =>
        \A i \in 1..4 : Dealt(i) =>
            /\ key[Target[i]] = run.number
            /\ crt[Target[i]] = [key |-> run.number, signer |-> run.number]

\* A certificate comes after its key and after the CA's certificate.
Clean ==
    \A t \in Files : crt[t] # Absent =>
        /\ crt["ca"] # Absent
        /\ crt[t].key = key[t]
        /\ crt[t].signer = crt["ca"].key

\* Unless a forced run is under way or was stopped, the material is clean, and a
\* plain run has seen to everything up to where it is and makes only what is not
\* there.
CleanInv ==
    ~torn /\ ~(Working /\ run.force) =>
        /\ Clean
        /\ Working => \A i \in 1..4 : Dealt(i) => crt[Target[i]] # Absent
        /\ run.part \in {"key", "crt"} => crt[Now] = Absent
        /\ run.part = "done" /\ run.number > 0 => \A t \in Files : crt[t] # Absent

\* No certificate is ever taken away from a container that has loaded it.
LoadedInv == \A s \in Service : loaded[s] # Absent => crt[s] # Absent

IInv == TypeOK /\ RunInv /\ ForcedInv /\ CleanInv /\ LoadedInv
=============================================================================
