---------------------------- MODULE CloudLaunch -----------------------------
(***************************************************************************)
(* cloud/cloudlaunch: developers who deploy (MaybeDeploy with -cloudlaunch: *)
(* uploadBinary, createInstance), and the deployed service on its instance *)
(* (the systemd unit of baseConfig, MaybeDeploy's restartLoop).            *)
(*                                                                         *)
(* Cloud Storage, Compute Engine and systemd are external. An object has   *)
(* the number of its upload for contents and for ETag; 0 is no object, no  *)
(* binary, and the empty lastEtag. The service runs on GCE with the zero   *)
(* RestartPolicy, RestartOnUpdates; otherwise restartLoop returns at once. *)
(***************************************************************************)
EXTENDS Integers

CONSTANTS
  Deployer,
  MaxUploads   \* bound on the number of uploads

ASSUME MaxUploadsAssumption == MaxUploads \in Nat

VARIABLES
  phase,      \* where in MaybeDeploy each deployer is
  outcome,    \* how its last run ended: "none", "exists", "created", "fatal"
  object,     \* the binary in the bucket
  instance,   \* "none", "creating" or "exists"
  operation,  \* the operation each deployer's last Insert started
  svc,        \* the service: "down", "pre" (downloaded), "run"
  binary,     \* the version on the instance's disk
  lastEtag,   \* restartLoop's variable
  crashed     \* the instance or the service stopped by itself since it last ran

deployVars == <<phase, outcome>>
cloudVars == <<object, instance, operation>>
svcVars == <<svc, binary, lastEtag, crashed>>
launchVars == <<phase, outcome, object, instance, operation, svc, binary, lastEtag, crashed>>

LaunchInit ==
  /\ phase = [d \in Deployer |-> "idle"]
  /\ outcome = [d \in Deployer |-> "none"]
  /\ object = 0
  /\ instance = "none"
  /\ operation = [d \in Deployer |-> "none"]
  /\ svc = "down" /\ binary = 0 /\ lastEtag = 0 /\ crashed = FALSE

Goto(d, l) == phase' = [phase EXCEPT ![d] = l]
Exit(d, r) == Goto(d, "idle") /\ outcome' = [outcome EXCEPT ![d] = r]

-----------------------------------------------------------------------------
(* Slips the properties below must catch; no specification uses them.      *)

\* restartLoop compares with the ETag before it has one.
HeadComparesEmpty ==
  /\ svc = "run"
  /\ object # 0
  /\ IF object # lastEtag
     THEN svc' = "down" /\ lastEtag' = 0
     ELSE UNCHANGED <<svc, lastEtag>>
  /\ UNCHANGED <<deployVars, cloudVars, binary, crashed>>

\* restartLoop remembers the new ETag without restarting.
HeadForgetsChange ==
  /\ svc = "run"
  /\ object # 0
  /\ lastEtag' = object
  /\ UNCHANGED <<deployVars, cloudVars, svc, binary, crashed>>

\* The operation's error is logged but not fatal.
PollIgnoresError(d) ==
  /\ phase[d] = "poll"
  /\ operation[d] = "failed"
  /\ Exit(d, "created")
  /\ UNCHANGED <<cloudVars, svcVars>>

-----------------------------------------------------------------------------
(* The deployers.                                                          *)

\* uploadBinary succeeds when w.Close does: the object is replaced as a whole.
Upload(d) ==
  /\ phase[d] = "idle"
  /\ object < MaxUploads
  /\ object' = object + 1
  /\ Goto(d, "lookup")
  /\ outcome' = [outcome EXCEPT ![d] = "none"]
  /\ UNCHANGED <<instance, operation, svcVars>>

\* Every failed request is a log.Fatal: of the upload (which leaves the old
\* object), lookupInstance, instanceDisk, findIP, Insert, and of the polling.
Fatal(d) ==
  /\ phase[d] # "idle" \/ object < MaxUploads
  /\ Exit(d, "fatal")
  /\ UNCHANGED <<cloudVars, svcVars>>

\* lookupInstance finds the instance, which may still be being created.
LookupExists(d) ==
  /\ phase[d] = "lookup"
  /\ instance # "none"
  /\ Exit(d, "exists")
  /\ UNCHANGED <<cloudVars, svcVars>>

\* It does not (404).
LookupMissing(d) ==
  /\ phase[d] = "lookup"
  /\ instance = "none"
  /\ Goto(d, "insert")
  /\ UNCHANGED <<outcome, cloudVars, svcVars>>

\* Instances.Insert starts an operation of its own.
Insert(d) ==
  /\ phase[d] = "insert"
  /\ instance = "none"
  /\ instance' = "creating"
  /\ operation' = [operation EXCEPT ![d] = "running"]
  /\ Goto(d, "poll")
  /\ UNCHANGED <<outcome, object, svcVars>>

\* The name is unique: the second of two deployers gets an error, log.Fatalf.
InsertConflict(d) ==
  /\ phase[d] = "insert"
  /\ instance # "none"
  /\ Exit(d, "fatal")
  /\ UNCHANGED <<cloudVars, svcVars>>

\* The loop polls while the operation is PENDING or RUNNING, which changes
\* nothing; here it is DONE, without an error.
PollDone(d) ==
  /\ phase[d] = "poll"
  /\ operation[d] = "done"
  /\ Exit(d, "created")
  /\ UNCHANGED <<cloudVars, svcVars>>

\* DONE with op.Error: log.Fatalf.
PollFailed(d) ==
  /\ phase[d] = "poll"
  /\ operation[d] = "failed"
  /\ Exit(d, "fatal")
  /\ UNCHANGED <<cloudVars, svcVars>>

-----------------------------------------------------------------------------
(* Compute Engine: the operation ends, with the instance or without it,    *)
(* whether or not its deployer still polls.                                *)

Created(d) ==
  /\ operation[d] = "running"
  /\ operation' = [operation EXCEPT ![d] = "done"]
  /\ instance' = "exists"
  /\ UNCHANGED <<deployVars, object, svcVars>>

CreationFails(d) ==
  /\ operation[d] = "running"
  /\ operation' = [operation EXCEPT ![d] = "failed"]
  /\ instance' = "none"
  /\ UNCHANGED <<deployVars, object, svcVars>>

-----------------------------------------------------------------------------
(* The service. systemd tries again for ever: Restart=always.              *)

\* ExecStartPre: curl -f downloads the object that is there now.
ExecStartPre ==
  /\ instance = "exists" /\ svc = "down"
  /\ object # 0
  /\ binary' = object
  /\ svc' = "pre"
  /\ UNCHANGED <<deployVars, cloudVars, lastEtag, crashed>>

\* ExecStart: the binary runs, and MaybeDeploy starts restartLoop.
ExecStart ==
  /\ svc = "pre"
  /\ svc' = "run"
  /\ lastEtag' = 0
  /\ crashed' = FALSE
  /\ UNCHANGED <<deployVars, cloudVars, binary>>

\* restartLoop: a HEAD that succeeds and has an ETag. (An error, or no ETag,
\* changes nothing: it sleeps and tries again.)
HeadFirst ==
  /\ svc = "run" /\ lastEtag = 0
  /\ object # 0
  /\ lastEtag' = object
  /\ UNCHANGED <<deployVars, cloudVars, svc, binary, crashed>>

\* A later one: a changed ETag ends the process.
HeadAgain ==
  /\ svc = "run" /\ lastEtag # 0
  /\ IF object # lastEtag
     THEN svc' = "down" /\ lastEtag' = 0
     ELSE UNCHANGED <<svc, lastEtag>>
  /\ UNCHANGED <<deployVars, cloudVars, binary, crashed>>

\* The process ends for a reason of its own.
Crash ==
  /\ svc # "down"
  /\ svc' = "down"
  /\ lastEtag' = 0
  /\ crashed' = TRUE
  /\ UNCHANGED <<deployVars, cloudVars, binary>>

Deploying(d) ==
  \/ LookupExists(d) \/ LookupMissing(d)
  \/ Insert(d) \/ InsertConflict(d) \/ PollDone(d) \/ PollFailed(d)

LaunchNext ==
  \/ \E d \in Deployer :
       Upload(d) \/ Fatal(d) \/ Deploying(d) \/ Created(d) \/ CreationFails(d)
  \/ ExecStartPre \/ ExecStart \/ HeadFirst \/ HeadAgain \/ Crash

LaunchSpec == LaunchInit /\ [][LaunchNext]_launchVars

\* Operations end, systemd restarts the unit, and HEAD requests that are
\* repeated every 15 seconds succeed in the end.
FairLaunchSpec ==
  /\ LaunchSpec
  /\ \A d \in Deployer : 
       WF_launchVars(Deploying(d)) /\ WF_launchVars(Created(d) \/ CreationFails(d))
  /\ WF_launchVars(ExecStartPre) /\ WF_launchVars(ExecStart)
  /\ WF_launchVars(HeadFirst) /\ WF_launchVars(HeadAgain)

-----------------------------------------------------------------------------
\* Every variable has its type.
LaunchTypeOK ==
  /\ phase \in [Deployer -> {"idle", "lookup", "insert", "poll"}]
  /\ outcome \in [Deployer -> {"none", "exists", "created", "fatal"}]
  /\ object \in 0..MaxUploads
  /\ instance \in {"none", "creating", "exists"}
  /\ operation \in [Deployer -> {"none", "running", "done", "failed"}]
  /\ svc \in {"down", "pre", "run"}
  /\ binary \in 0..MaxUploads
  /\ lastEtag \in 0..MaxUploads
  /\ crashed \in BOOLEAN

\* createInstance reports success only for an instance that is up and whose
\* unit has a binary to download.
CreatedIsUp ==
  \A d \in Deployer : outcome[d] = "created" => instance = "exists" /\ object # 0

\* Deployments that race or fail half-way leave no state that is not one of
\* the cloud's, and report success only for an instance that is up.
DeploysSound == LaunchTypeOK /\ CreatedIsUp

\* restartLoop never restarts the service onto the binary it already runs,
\* whichever requests fail or come late.
RestartIsUseful == [][svc = "run" /\ svc' = "down" /\ ~crashed' => binary # object]_launchVars

\* An upload that comes after restartLoop has seen an ETag is noticed.
UpdateNoticed ==
  svc = "run" /\ lastEtag # 0 /\ lastEtag # object ~> svc = "down"

\* "RestartPolicy controls whether the binary automatically restarts on
\* updates. The zero value means automatic.": the service does not run an old
\* binary for ever.
UpdateDeployed ==
  [](svc = "run" /\ binary # object => <>(svc # "run" \/ binary = object))
=============================================================================
