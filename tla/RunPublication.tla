--------------------------- MODULE RunPublication ---------------------------
(***************************************************************************)
(* Experiment runs of one identity that publish into one output directory. *)
(* The stage runners (scripts/run_stage2_experiments.py run_stage2_source, *)
(* and likewise stages 3 and 4) build the artifact in a temporary          *)
(* directory of their own and move it into place; the configured pipeline  *)
(* (pipeline.py run_configured_experiments) writes into the output         *)
(* directory itself.  Its candidates are ones that export no fold          *)
(* artifacts: a fold directory is made exclusively.                        *)
(*                                                                         *)
(* The code and the source files are in the hands of someone else, who may *)
(* change either while a run is going on, and who may touch the payload of *)
(* a directory.  Code is part of the run identity, so a run that starts    *)
(* after it changed is not one of these; a source that differs from its    *)
(* locked hash is refused.                                                 *)
(***************************************************************************)
EXTENDS ArtifactLineage

CONSTANTS
  Out, Other,   (* the output directories of the run identity that the    *)
                (* bound source has, and of the one a changed source has  *)
  Timed,        (* payload files whose bytes hold measured latencies *)
  MaxEvents,    (* bound: payload edits, input changes and crashes, in all,*)
                (* while several runs race                                *)
  MaxAlone,     (* bound: the same for a run that has no rival *)
  MaxSilent     (* bound: payload edits that no snapshot shows *)

ASSUME PublicationAssumption ==
  /\ Out # Other
  /\ {Out, Other} \cap Procs = {}
  /\ Dirs = Procs \cup {Out, Other}
  /\ Timed \subseteq Names
  /\ None \notin {"bound", "changed"}
  /\ MaxEvents \in Nat /\ MaxAlone \in Nat /\ MaxSilent \in Nat

VARIABLES
  mode,     (* "staged" or "in_place": which of the two runners these are *)
  inputs,   (* the code tree and the source files as they are now *)
  run,      (* process -> where its run is and which source it computed from *)
  events    (* how many of each thing that interferes has happened *)

vars == <<lineageVars, mode, inputs, run, events>>

envVars == <<mode, inputs, events>>

(* The run identity hashes the dataset, and names the output directory.    *)
Output(p) == IF run[p].used = "changed" THEN Other ELSE Out

(* Mutant: the temporary directory is named for the run, not made anew. *)
TargetOfRun(p) == IF mode = "staged" THEN CHOOSE q \in Procs : TRUE ELSE Output(p)

(* tempfile.mkdtemp: a directory of one's own. *)
Target(p) == IF mode = "staged" THEN p ELSE Output(p)

Published(d) == Exists(d, "_SUCCESS")

NonEmpty(d) == \E e \in Entries : Exists(d, e)

Idle == [at |-> "idle", used |-> None, unwritten |-> {}]

RunPoints == { "absent", "idle", "load", "parse", "write", "fill", "recheck", "publish",
               "publishing", "recheck_again", "place", "confirm", "existing",
               "returned", "failed" }

(* The bytes of a payload file: whose measurements and which source's      *)
(* results they hold.                                                      *)
Contents == [by : Procs \cup {None}, from : {"bound", "changed", "nothing", "elsewhere"}]

Truncated == [by |-> None, from |-> "nothing"]

Edited == [by |-> None, from |-> "elsewhere"]

TypeOK ==
  /\ mode \in {"staged", "in_place"}
  /\ inputs \in [code : {"bound", "changed"}, source : {"bound", "changed"}]
  /\ \A p \in Procs : run[p].at \in RunPoints /\ run[p].unwritten \subseteq Names
  /\ \A d \in Dirs, f \in Names : Content(d, f) \in Contents \cup {None}
  /\ events \in [payload : Nat, silent : Nat, crashes : Nat, inputs : Nat]

Init ==
  /\ mode \in {"staged", "in_place"}
  /\ inputs = [code |-> "bound", source |-> "bound"]
  /\ dirs = [d \in Dirs |-> EmptyDir]
  /\ call = [p \in Procs |-> NoCall]
  /\ \E team \in {Procs} \cup {{p} : p \in Procs} :
       run = [p \in Procs |-> IF p \in team THEN Idle ELSE [Idle EXCEPT !.at = "absent"]]
  /\ events = [payload |-> 0, silent |-> 0, crashes |-> 0, inputs |-> 0]

-----------------------------------------------------------------------------
GoTo(p, point) == run' = [run EXCEPT ![p].at = point]

(* The code binding is captured and the source checked against its hash;   *)
(* a changed one is another identity, or a raise.                          *)
BindInputs(p) ==
  /\ run[p].at = "idle"
  /\ inputs = [code |-> "bound", source |-> "bound"]
  /\ GoTo(p, "load")
  /\ UNCHANGED <<lineageVars, envVars>>

(* A stage runner opens the source again to read it.  The pipeline parses  *)
(* the very bytes it hashed.                                               *)
ReadSource(p) ==
  /\ run[p].at = "load"
  /\ run' = [run EXCEPT ![p].at = "parse",
                        ![p].used = IF mode = "staged" THEN inputs.source ELSE "bound"]
  /\ UNCHANGED <<lineageVars, envVars>>

(* The run identity is known and with it the output directory.             *)
FindExisting(p) ==
  /\ run[p].at = "parse"
  /\ IF mode = "staged" THEN NonEmpty(Output(p)) ELSE Published(Output(p))
  /\ GoTo(p, "existing")
  /\ call' = [call EXCEPT ![p] = Opened("verify", Output(p), None)]
  /\ UNCHANGED <<dirs, envVars>>

(* An in-place run refuses what an interrupted one left. *)
RefuseLeftovers(p) ==
  /\ run[p].at = "parse"
  /\ mode = "in_place"
  /\ NonEmpty(Output(p))
  /\ ~Published(Output(p))
  /\ GoTo(p, "failed")
  /\ UNCHANGED <<lineageVars, envVars>>

(* Train and evaluate.  A stage runner then makes its temporary directory; *)
(* the pipeline rechecks its inputs here, and only here.                   *)
InputsOK == inputs = [code |-> "bound", source |-> "bound"]

Execute(p) ==
  /\ run[p].at = "parse"
  /\ ~NonEmpty(Output(p))
  /\ run' = [run EXCEPT ![p].at = IF mode = "in_place" THEN "recheck" ELSE "write",
                        ![p].unwritten = Names]
  /\ UNCHANGED <<lineageVars, envVars>>

RecheckPoints ==
  IF mode = "staged" THEN [recheck |-> "publish", recheck_again |-> "place"]
                     ELSE [recheck |-> "write", recheck_again |-> "returned"]

(* Mutant: the inputs are not looked at again. *)
RecheckNothing(p) ==
  /\ run[p].at \in {"recheck", "recheck_again"}
  /\ GoTo(p, RecheckPoints[run[p].at])
  /\ UNCHANGED <<lineageVars, envVars>>

(* capture_stage2_code_binding and _verify_source_inputs again. *)
Recheck(p) ==
  /\ run[p].at \in {"recheck", "recheck_again"}
  /\ InputsOK
  /\ GoTo(p, RecheckPoints[run[p].at])
  /\ UNCHANGED <<lineageVars, envVars>>

(* write_text: the file is truncated when it is opened, filled when it is  *)
(* closed.                                                                 *)
Truncate(p, f) ==
  /\ run[p].at = "write"
  /\ f \in run[p].unwritten
  /\ dirs' = [dirs EXCEPT ![Target(p)] = Written(@, f, Truncated)]
  /\ run' = [run EXCEPT ![p].at = "fill", ![p].unwritten = @ \ {f}]
  /\ UNCHANGED <<call, envVars>>

Fill(p, f) ==
  /\ run[p].at = "fill"
  /\ Content(Target(p), f) = Truncated
  /\ dirs' = [dirs EXCEPT ![Target(p)] =
       Written(@, f, [by |-> IF f \in Timed THEN p ELSE None, from |-> run[p].used])]
  /\ GoTo(p, IF run[p].unwritten # {} THEN "write"
             ELSE IF mode = "staged" THEN "recheck" ELSE "publish")
  /\ UNCHANGED <<call, envVars>>

BeginPublish(p) ==
  /\ run[p].at = "publish"
  /\ MayPublish(Target(p))
  /\ GoTo(p, "publishing")
  /\ call' = [call EXCEPT ![p] = Opened("publish", Target(p), None)]
  /\ UNCHANGED <<dirs, envVars>>

InCall(p) == run[p].at \in {"publishing", "confirm", "existing"}

Lineage(p) ==
  /\ InCall(p)
  /\ LineageStep(p, "bound")
  /\ UNCHANGED <<envVars, run>>

(* publish_artifact returned.  The pipeline is done; a stage runner checks *)
(* its inputs once more.                                                   *)
PublishReturned(p) ==
  /\ run[p].at = "publishing"
  /\ call[p].op = "verify" /\ call[p].at = "end"
  /\ GoTo(p, IF mode = "staged" THEN "recheck_again" ELSE "returned")
  /\ UNCHANGED <<lineageVars, envVars>>

(* Mutant: the temporary is moved over whatever is there. *)
PlaceOver(p) ==
  /\ run[p].at = "place"
  /\ dirs' = [dirs EXCEPT ![Output(p)] = dirs[Target(p)], ![Target(p)] = EmptyDir]
  /\ GoTo(p, "confirm")
  /\ call' = [call EXCEPT ![p] = Opened("verify", Output(p), call[p].manifest)]
  /\ UNCHANGED <<envVars>>

(* os.replace of a directory fails on one that is not empty, whatever the  *)
(* check before it saw; then verify_artifact must return the same manifest.*)
Place(p) ==
  /\ run[p].at = "place"
  /\ ~NonEmpty(Output(p))
  /\ dirs' = [dirs EXCEPT ![Output(p)] = dirs[Target(p)], ![Target(p)] = EmptyDir]
  /\ GoTo(p, "confirm")
  /\ call' = [call EXCEPT ![p] = Opened("verify", Output(p), call[p].manifest)]
  /\ UNCHANGED <<envVars>>

(* The summary is returned, of one's own artifact or of the existing one.  *)
Return(p) ==
  /\ run[p].at \in {"confirm", "existing"}
  /\ call[p].at = "end"
  /\ GoTo(p, "returned")
  /\ UNCHANGED <<lineageVars, envVars>>

(* Any check that fails raises, and so may the check of a changed source's *)
(* dataset against its lock; the runner's finally removes its temporary    *)
(* directory.                                                              *)
Fail(p) ==
  /\ \/ InCall(p) /\ call[p].at # "end" /\ Raises(p)
     \/ run[p].at \in {"recheck", "recheck_again"} /\ ~InputsOK
     \/ run[p].at = "publish" /\ ~MayPublish(Target(p))
     \/ run[p].at = "place" /\ NonEmpty(Output(p))
     \/ run[p].at = "parse" /\ run[p].used = "changed"
  /\ dirs' = IF mode = "staged" THEN [dirs EXCEPT ![Target(p)] = EmptyDir] ELSE dirs
  /\ call' = [call EXCEPT ![p] = NoCall]
  /\ GoTo(p, "failed")
  /\ UNCHANGED <<envVars>>

MayInterfere ==
  events.payload + events.crashes + events.inputs <
    IF \E p \in Procs : run[p].at = "absent" THEN MaxAlone ELSE MaxEvents

(* A run that dies leaves its temporary directory, which no later run has  *)
(* a name for, and an in-place one what it wrote.                          *)
Crash(p) ==
  /\ run[p].at \notin {"absent", "idle", "returned", "failed"}
  /\ MayInterfere
  /\ events' = [events EXCEPT !.crashes = @ + 1]
  /\ dirs' = [dirs EXCEPT ![p] = EmptyDir]
  /\ call' = [call EXCEPT ![p] = NoCall]
  /\ run' = [run EXCEPT ![p] = Idle]
  /\ UNCHANGED <<mode, inputs>>

(* Someone else's doings. *)
ChangeInputs ==
  /\ MayInterfere
  /\ events' = [events EXCEPT !.inputs = @ + 1]
  /\ \E part \in {"code", "source"} :
       /\ inputs[part] = "bound"
       /\ inputs' = [inputs EXCEPT ![part] = "changed"]
  /\ UNCHANGED <<lineageVars, mode, run>>

EditPayload(d, f) ==
  /\ MayInterfere
  /\ Exists(d, f)
  /\ \/ /\ dirs' = [dirs EXCEPT ![d] = Written(@, f, Edited)]
        /\ events' = [events EXCEPT !.payload = @ + 1]
     \/ /\ events.silent < MaxSilent
        /\ dirs' = [dirs EXCEPT ![d] = SilentlyWritten(@, f, Edited)]
        /\ events' = [events EXCEPT !.payload = @ + 1, !.silent = @ + 1]
     \/ /\ dirs' = [dirs EXCEPT ![d] = Written(@, f, None)]
        /\ events' = [events EXCEPT !.payload = @ + 1]
  /\ UNCHANGED <<call, mode, inputs, run>>

ProcStep(p) ==
  \/ BindInputs(p) \/ ReadSource(p) \/ FindExisting(p) \/ RefuseLeftovers(p)
  \/ Execute(p) \/ Recheck(p)
  \/ \E f \in Names : Truncate(p, f) \/ Fill(p, f)
  \/ BeginPublish(p) \/ Lineage(p) \/ PublishReturned(p) \/ Place(p)
  \/ Return(p) \/ Fail(p)

Next ==
  \/ \E p \in Procs : ProcStep(p) \/ Crash(p)
  \/ ChangeInputs
  \/ \E d \in Dirs, f \in Names : EditPayload(d, f)

Spec == Init /\ [][Next]_vars

(* A run that was started is scheduled until it ends. *)
FairSpec == Spec /\ \A p \in Procs : WF_vars(ProcStep(p))

-----------------------------------------------------------------------------
Verified(p) == call[p].op = "verify" /\ call[p].at = "end"

(* A manifest that verify_artifact returns was true: after every file had  *)
(* been read once there was a moment at which the directory held exactly   *)
(* what the manifest lists.  Rewrites that no snapshot shows may happen,   *)
(* as long as it is one: that is what the second hashing is for.           *)
VerifiedAtRescan ==
  \A p \in Procs : Verified(p) /\ events.silent <= 1 => call[p].trueAtRescan

(* Where every rewrite shows in a snapshot, the last walk makes that a     *)
(* later moment: after every file had been read twice.                     *)
VerifiedAtFinalScan ==
  \A p \in Procs : Verified(p) /\ events.silent = 0 => call[p].trueAtFinalScan

(* An artifact that a stage runner put in place says which source it was   *)
(* computed from, and it was: the source is hashed when it is bound and    *)
(* read again later, so a change in between must be found before the       *)
(* artifact appears.                                                       *)
BoundSourceIsUsed ==
  \A d \in {Out, Other}, f \in Names :
    mode = "staged" /\ Published(d) =>
      LET manifest == Content(d, "manifest.json")
      IN manifest.files[f] # None /\ manifest.files[f].from \in {"bound", "changed"}
         => manifest.files[f].from = manifest.about

EditByOthers == events'.payload # events.payload

(* "Published artifacts are immutable" (docs/architecture.md:176): no step *)
(* of a run, its own or another's, a crash included, changes a directory   *)
(* that has its marker.                                                    *)
PublishedIsImmutable ==
  [][\A d \in {Out, Other} :
       Published(d) => dirs'[d] = dirs[d] \/ EditByOthers]_vars

(* The same of the stage runners, whose artifact appears in one move. *)
StagedIsImmutable ==
  [][\A d \in {Out, Other} :
       mode = "staged" /\ Published(d) => dirs'[d] = dirs[d] \/ EditByOthers]_vars

Artifact(d) ==
  IF mode = "staged" /\ NonEmpty(d)
  THEN [manifest |-> Content(d, "manifest.json"), marker |-> Content(d, "_SUCCESS")]
  ELSE None

Promise == INSTANCE ArtifactPromise WITH
  Nothing  <- None,
  artifact <- Artifact(Out)

(* To a reader of the output directory a stage run publishes at one step,  *)
(* manifest and marker together, and neither ever changes.                 *)
ImplementsPromise == Promise!Spec

(* Stage runs that race for the directory do not defeat each other: unless *)
(* someone else interferes, one of them publishes, crashes notwithstanding.*)
SomeRunPublishes ==
  <>(\/ Published(Out)
     \/ mode = "in_place"
     \/ ~InputsOK
     \/ events.payload > 0)
=============================================================================
