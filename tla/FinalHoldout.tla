---------------------------- MODULE FinalHoldout ----------------------------
(***************************************************************************)
(* The one-time final evaluation (scripts/run_stage4_final.py): processes  *)
(* that may be started at any time, killed at any step and started again,  *)
(* share a lock and four kinds of file for one selection:                  *)
(*                                                                         *)
(*   tombstone    one per selection, created with O_EXCL and then written  *)
(*   ledger       one per run id, replaced atomically                      *)
(*   checkpoints  one file per cell and run id, replaced atomically        *)
(*   output       one directory per run id, renamed into place             *)
(*                                                                         *)
(* The run id is a hash of the selection and of the commit and code that   *)
(* evaluates it; the model names it by that version.  A process is always  *)
(* between two file operations; a crash there, or an exception that the    *)
(* code in between raises, releases the lock and leaves the files.  Writes *)
(* that completed survive: loss of a flushed page is not modelled.         *)
(* Temporary files never become visible and are left out.                  *)
(***************************************************************************)
EXTENDS Naturals, FiniteSets

CONSTANTS
  Procs,       (* invocations of the runner; a slot can be used again *)
  Versions,    (* run ids: the commit and code a process runs at      *)
  Cells,       (* the selection's cells                               *)
  None,
  MaxCrashes   (* bound: crashes in a behaviour                       *)

ASSUME FinalAssumption ==
  /\ None \notin Procs
  /\ None \notin Versions
  /\ None \notin Cells
  /\ MaxCrashes \in Nat

VARIABLES
  lock,         (* the holder of the fixed process lock, None when free     *)
  pc,           (* process -> the file operation it does next               *)
  version,      (* process -> its run id                                    *)
  cell,         (* process -> the cell it has evaluated but not recorded    *)
  done,         (* process -> the cells whose checkpoints it holds          *)
  tombstone, ledger, checkpoints, output,
  release,      (* the tracked release tombstone exists                     *)
  opens,        (* history: how often the labels of each cell were opened   *)
  lost,         (* history: how many of those a crash threw away            *)
  reported,     (* history: the artifacts whose summary a caller received   *)
  crashes       (* history: crashes so far                                  *)

files  == <<tombstone, ledger, checkpoints, output>>
locals == <<version, cell, done>>
vars   == <<lock, pc, locals, files, release, opens, lost, reported, crashes>>

Steps == {"idle", "locked", "resolve", "write_tombstone", "load_ledger", "scan",
          "evaluate", "write_checkpoint", "write_ledger", "close_ledger",
          "close_tombstone", "report"}

(* An artifact is named by the process that renamed it into place. *)
Artifacts == Procs \cup {None}

Tombstone == [ status   : {"absent", "torn", "opened", "published"},
               run      : Versions \cup {None},
               artifact : Artifacts ]

Ledger == [ status    : {"absent", "started", "published"},
            completed : SUBSET Cells,
            artifact  : Artifacts ]

TypeOK ==
  /\ lock \in Procs \cup {None}
  /\ pc \in [Procs -> Steps]
  /\ version \in [Procs -> Versions \cup {None}]
  /\ cell \in [Procs -> Cells \cup {None}]
  /\ done \in [Procs -> SUBSET Cells]
  /\ tombstone \in Tombstone
  /\ ledger \in [Versions -> Ledger]
  /\ checkpoints \in [Versions -> SUBSET Cells]
  /\ output \in [Versions -> Artifacts]
  /\ release \in BOOLEAN
  /\ opens \in [Cells -> Nat]
  /\ lost \in [Cells -> Nat]
  /\ reported \in SUBSET Artifacts
  /\ crashes \in Nat

Init ==
  /\ lock = None
  /\ pc = [p \in Procs |-> "idle"]
  /\ version = [p \in Procs |-> None]
  /\ cell = [p \in Procs |-> None]
  /\ done = [p \in Procs |-> {}]
  /\ tombstone = [status |-> "absent", run |-> None, artifact |-> None]
  /\ ledger = [v \in Versions |->
                [status |-> "absent", completed |-> {}, artifact |-> None]]
  /\ checkpoints = [v \in Versions |-> {}]
  /\ output = [v \in Versions |-> None]
  /\ release = FALSE
  /\ opens = [c \in Cells |-> 0]
  /\ lost = [c \in Cells |-> 0]
  /\ reported = {}
  /\ crashes = 0

-----------------------------------------------------------------------------
At(p, step)   == pc[p] = step
GoTo(p, step) == pc' = [pc EXCEPT ![p] = step]

(* Leaving _exclusive_final_process_lock, by return, error or death. *)
Leave(p) ==
  /\ lock' = None
  /\ GoTo(p, "idle")
  /\ version' = [version EXCEPT ![p] = None]
  /\ cell' = [cell EXCEPT ![p] = None]
  /\ done' = [done EXCEPT ![p] = {}]

Fail(p) == Leave(p) /\ UNCHANGED <<files, release, opens, lost, reported, crashes>>

(* Mutant: the lock is taken without looking whether it is held. *)
InvokeUnlocked(p, v) ==
  /\ At(p, "idle")
  /\ lock' = p
  /\ GoTo(p, "locked")
  /\ version' = [version EXCEPT ![p] = v]
  /\ UNCHANGED <<cell, done, files, release, opens, lost, reported, crashes>>

(* A process that finds the lock held raises before it touches a file. *)
Invoke(p, v) ==
  /\ At(p, "idle")
  /\ lock = None
  /\ lock' = p
  /\ GoTo(p, "locked")
  /\ version' = [version EXCEPT ![p] = v]
  /\ UNCHANGED <<cell, done, files, release, opens, lost, reported, crashes>>

CheckRelease(p) ==
  /\ At(p, "locked")
  /\ IF release
     THEN Fail(p)
     ELSE /\ GoTo(p, "resolve")
          /\ UNCHANGED <<lock, locals, files, release, opens, lost, reported, crashes>>

(* The ledger and the checkpoint files tell the same story, without which  *)
(* _evaluate_missing_cells opens no labels.                                *)
LedgerAgrees(v) == ledger[v].completed = checkpoints[v]

(* _validate_existing_final_publication. *)
FullyClosed(v) ==
  /\ tombstone.status = "published"
  /\ tombstone.run = v
  /\ tombstone.artifact = output[v]
  /\ ledger[v].status = "published"
  /\ ledger[v].artifact = output[v]
  /\ ledger[v].completed = Cells
  /\ LedgerAgrees(v)

(* Mutant: an artifact whose records are not closed is waited for. *)
AcceptExistingLater(p) ==
  /\ At(p, "resolve")
  /\ output[version[p]] # None
  /\ GoTo(p, IF FullyClosed(version[p]) THEN "report" ELSE "locked")
  /\ UNCHANGED <<lock, locals, files, release, opens, lost, reported, crashes>>

AcceptExisting(p) ==
  /\ At(p, "resolve")
  /\ output[version[p]] # None
  /\ IF FullyClosed(version[p])
     THEN /\ GoTo(p, "report")
          /\ UNCHANGED <<lock, locals, files, release, opens, lost, reported, crashes>>
     ELSE Fail(p)

(* _open_final_tombstone on an existing tombstone: only an open one of the *)
(* same run, with its ledger in place, may be resumed.                     *)
Resumable(v) ==
  /\ tombstone.status = "opened"
  /\ tombstone.run = v
  /\ ledger[v].status # "absent"

ResumeTombstone(p) ==
  /\ At(p, "resolve")
  /\ output[version[p]] = None
  /\ tombstone.status # "absent"
  /\ IF Resumable(version[p])
     THEN /\ GoTo(p, "load_ledger")
          /\ UNCHANGED <<lock, locals, files, release, opens, lost, reported, crashes>>
     ELSE Fail(p)

(* O_EXCL creates an empty file; until the write lands it does not parse. *)
CreateTombstone(p) ==
  /\ At(p, "resolve")
  /\ output[version[p]] = None
  /\ tombstone.status = "absent"
  /\ tombstone' = [status |-> "torn", run |-> None, artifact |-> None]
  /\ GoTo(p, "write_tombstone")
  /\ UNCHANGED <<lock, locals, ledger, checkpoints, output, release, opens, lost,
                 reported, crashes>>

WriteTombstone(p) ==
  /\ At(p, "write_tombstone")
  /\ tombstone' = [status |-> "opened", run |-> version[p], artifact |-> None]
  /\ GoTo(p, "load_ledger")
  /\ UNCHANGED <<lock, locals, ledger, checkpoints, output, release, opens, lost,
                 reported, crashes>>

(* Mutant: only an existing ledger is accepted. *)
LoadExistingLedger(p) ==
  /\ At(p, "load_ledger")
  /\ IF ledger[version[p]].status # "started"
     THEN Fail(p)
     ELSE /\ GoTo(p, "scan")
          /\ UNCHANGED <<lock, locals, files, release, opens, lost, reported, crashes>>

(* _load_or_create_ledger, and the refusal of a published one. *)
LoadLedger(p) ==
  /\ At(p, "load_ledger")
  /\ LET v == version[p]
     IN IF ledger[v].status = "published"
        THEN Fail(p)
        ELSE /\ ledger' = IF ledger[v].status = "absent"
                          THEN [ledger EXCEPT ![v] =
                                 [status |-> "started", completed |-> {}, artifact |-> None]]
                          ELSE ledger
             /\ GoTo(p, "scan")
             /\ UNCHANGED <<lock, locals, tombstone, checkpoints, output, release,
                            opens, lost, reported, crashes>>

-----------------------------------------------------------------------------
(* _evaluate_missing_cells. *)

(* Mutant: a resumed run starts its cells over. *)
ScanNothing(p) ==
  /\ At(p, "scan")
  /\ GoTo(p, "evaluate")
  /\ UNCHANGED <<lock, locals, files, release, opens, lost, reported, crashes>>

ScanCheckpoints(p) ==
  /\ At(p, "scan")
  /\ LET v == version[p]
     IN IF LedgerAgrees(v)
        THEN /\ done' = [done EXCEPT ![p] = checkpoints[v]]
             /\ GoTo(p, "evaluate")
             /\ UNCHANGED <<lock, version, cell, files, release, opens, lost, reported,
                            crashes>>
        ELSE Fail(p)

(* The code takes the missing cells in a sorted order; no step depends on  *)
(* which one comes first, so the model takes any.                          *)
EvaluateCell(p, c) ==
  /\ At(p, "evaluate")
  /\ c \notin done[p]
  /\ opens' = [opens EXCEPT ![c] = @ + 1]
  /\ cell' = [cell EXCEPT ![p] = c]
  /\ GoTo(p, "write_checkpoint")
  /\ UNCHANGED <<lock, version, done, files, release, lost, reported, crashes>>

WriteCheckpoint(p) ==
  /\ At(p, "write_checkpoint")
  /\ checkpoints' = [checkpoints EXCEPT ![version[p]] = @ \cup {cell[p]}]
  /\ done' = [done EXCEPT ![p] = @ \cup {cell[p]}]
  /\ cell' = [cell EXCEPT ![p] = None]
  /\ GoTo(p, "write_ledger")
  /\ UNCHANGED <<lock, version, tombstone, ledger, output, release, opens, lost,
                 reported, crashes>>

WriteLedger(p) ==
  /\ At(p, "write_ledger")
  /\ ledger' = [ledger EXCEPT ![version[p]] =
                 [status |-> "started", completed |-> done[p], artifact |-> None]]
  /\ GoTo(p, "evaluate")
  /\ UNCHANGED <<lock, locals, tombstone, checkpoints, output, release, opens, lost,
                 reported, crashes>>

-----------------------------------------------------------------------------
(* The end of _run_stage4_final_locked: rename, then close both records. *)

(* Mutants: the rename does not wait for the last cell; the ledger is left *)
(* open behind it.                                                         *)
PublishOutputEarly(p) ==
  /\ At(p, "evaluate")
  /\ output' = [output EXCEPT ![version[p]] = p]
  /\ GoTo(p, "close_ledger")
  /\ UNCHANGED <<lock, locals, tombstone, ledger, checkpoints, release, opens,
                 lost, reported, crashes>>

PublishOutputOnly(p) ==
  /\ At(p, "evaluate")
  /\ done[p] = Cells
  /\ output' = [output EXCEPT ![version[p]] = p]
  /\ GoTo(p, "close_tombstone")
  /\ UNCHANGED <<lock, locals, tombstone, ledger, checkpoints, release, opens,
                 lost, reported, crashes>>

PublishOutput(p) ==
  /\ At(p, "evaluate")
  /\ done[p] = Cells
  /\ IF output[version[p]] # None
     THEN Fail(p)
     ELSE /\ output' = [output EXCEPT ![version[p]] = p]
          /\ GoTo(p, "close_ledger")
          /\ UNCHANGED <<lock, locals, tombstone, ledger, checkpoints, release,
                         opens, lost, reported, crashes>>

CloseLedger(p) ==
  /\ At(p, "close_ledger")
  /\ ledger' = [ledger EXCEPT ![version[p]] =
                 [status |-> "published", completed |-> done[p], artifact |-> p]]
  /\ GoTo(p, "close_tombstone")
  /\ UNCHANGED <<lock, locals, tombstone, checkpoints, output, release, opens, lost,
                 reported, crashes>>

(* _publish_final_tombstone re-reads what it is about to replace. *)
CloseTombstone(p) ==
  /\ At(p, "close_tombstone")
  /\ IF tombstone.status = "opened" /\ tombstone.run = version[p]
     THEN /\ tombstone' = [status |-> "published", run |-> version[p], artifact |-> p]
          /\ GoTo(p, "report")
          /\ UNCHANGED <<lock, locals, ledger, checkpoints, output, release, opens, lost,
                         reported, crashes>>
     ELSE Fail(p)

Report(p) ==
  /\ At(p, "report")
  /\ reported' = reported \cup {output[version[p]]}
  /\ Leave(p)
  /\ UNCHANGED <<files, release, opens, lost, crashes>>

-----------------------------------------------------------------------------
(* The process dies, or anything between two file operations raises. *)
Crash(p) ==
  /\ ~At(p, "idle")
  /\ crashes < MaxCrashes
  /\ crashes' = crashes + 1
  /\ lost' = [c \in Cells |-> IF c = cell[p] THEN lost[c] + 1 ELSE lost[c]]
  /\ Leave(p)
  /\ UNCHANGED <<files, release, opens, reported>>

(* The maintainers commit the release once the evaluation has closed. *)
FreezeRelease ==
  /\ tombstone.status = "published"
  /\ ~release
  /\ release' = TRUE
  /\ UNCHANGED <<lock, pc, locals, files, opens, lost, reported, crashes>>

Step(p) ==
  \/ CheckRelease(p)
  \/ AcceptExisting(p)
  \/ ResumeTombstone(p)
  \/ CreateTombstone(p)
  \/ WriteTombstone(p)
  \/ LoadLedger(p)
  \/ ScanCheckpoints(p)
  \/ \E c \in Cells : EvaluateCell(p, c)
  \/ WriteCheckpoint(p)
  \/ WriteLedger(p)
  \/ PublishOutput(p)
  \/ CloseLedger(p)
  \/ CloseTombstone(p)
  \/ Report(p)

Next ==
  \/ \E p \in Procs, v \in Versions : Invoke(p, v)
  \/ \E p \in Procs : Step(p) \/ Crash(p)
  \/ FreezeRelease

Spec == Init /\ [][Next]_vars

(* A started process runs on: its steps wait for no other process.  Nobody *)
(* is obliged to start one.                                                *)
FairSpec == Spec /\ \A p \in Procs : WF_vars(Step(p))

-----------------------------------------------------------------------------
(* The tombstone binds the selection to one run: every file any run ever   *)
(* writes belongs to it, a published artifact covers every cell, and a     *)
(* summary is handed out only for that artifact, after both records were   *)
(* closed with its id.                                                     *)
OnePublication ==
  /\ \A v \in Versions :
       /\ ledger[v].status # "absent" \/ checkpoints[v] # {} \/ output[v] # None =>
            tombstone.run = v
       /\ output[v] # None => checkpoints[v] = Cells
  /\ tombstone.status = "published" =>
       FullyClosed(tombstone.run) /\ output[tombstone.run] # None
  /\ reported # {} => /\ tombstone.status = "published"
                      /\ reported = {output[tombstone.run]}

(* Labels are opened only by the run that the tombstone names, while it is *)
(* open and the ledger agrees with the checkpoint files, and never for a   *)
(* cell whose score is on disk.                                            *)
LabelsOpenedUnderGuard ==
  [][\A c \in Cells :
       opens'[c] # opens[c] =>
         /\ tombstone.status = "opened"
         /\ ledger[tombstone.run].status = "started"
         /\ LedgerAgrees(tombstone.run)
         /\ c \notin checkpoints[tombstone.run]]_vars

(* An evaluation is in hand, or its score is on disk. *)
Held(c) == \/ \E v \in Versions : c \in checkpoints[v]
           \/ \E p \in Procs : cell[p] = c

(* Every opening of a cell's labels is accounted for: it was thrown away   *)
(* by a crash before its checkpoint was written, or it is the one that is  *)
(* kept.  Resuming, losing a race or rerunning a closed run opens nothing. *)
EvaluationsAccounted ==
  \A c \in Cells : opens[c] = lost[c] + (IF Held(c) THEN 1 ELSE 0)

(* The module's first line, read per cell: "Evaluate the frozen Stage 4    *)
(* selection on the permanent holdout exactly once", with the artifact's   *)
(* "evaluation_count": 1.                                                  *)
CellsEvaluatedOnce == \A c \in Cells : opens[c] <= 1

(* The files implement the promise.  A holdout is opened when the          *)
(* tombstone becomes readable and published when the directory is renamed. *)
OpenedRun == tombstone.run

PublishedRun ==
  IF \E v \in Versions : output[v] # None
  THEN CHOOSE v \in Versions : output[v] # None
  ELSE None

Promise == INSTANCE HoldoutPromise WITH
  opened    <- OpenedRun,
  scored    <- UNION {checkpoints[v] : v \in Versions},
  published <- PublishedRun,
  reported  <- (reported # {})

ImplementsPromise == Promise!Spec

(* A process that holds the lock lets it go: no step waits on another one. *)
LockIsReleased == \A p \in Procs : lock = p ~> lock # p

(* While nothing has crashed, whoever starts an evaluation brings it to    *)
(* its published end; later starts can only report it or be refused.       *)
StartedIsPublished ==
  (lock # None /\ crashes = 0) ~> (tombstone.status = "published" \/ crashes > 0)
=============================================================================
