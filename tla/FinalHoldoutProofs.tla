------------------------- MODULE FinalHoldoutProofs -------------------------
(***************************************************************************)
(* Safety of the one-time final evaluation for any number of processes,    *)
(* versions, cells and crashes.  The inductive invariant has three parts:  *)
(* who is inside the lock (Exclusive), what the files say of one another   *)
(* (Records), and what the process inside knows of the files (Inside).     *)
(* OnePublication alone is not inductive: that a rename finds every cell   *)
(* checkpointed rests on what the process read many steps earlier, and     *)
(* that nobody changed the files since rests on the lock.                  *)
(***************************************************************************)
EXTENDS FinalHoldout, TLAPS

Exclusive ==
  \A p \in Procs :
    /\ pc[p] # "idle" => lock = p /\ version[p] \in Versions
    /\ cell[p] \in IF pc[p] = "write_checkpoint" THEN Cells ELSE {None}

RunNamed == tombstone.status \in {"absent", "torn"} <=> tombstone.run = None

(* Everything on disk belongs to the run of the tombstone. *)
FilesBound ==
  \A v \in Versions :
    ledger[v].status # "absent" \/ checkpoints[v] # {} \/ output[v] # None =>
      tombstone.run = v

OutputsComplete == \A v \in Versions : output[v] # None => checkpoints[v] = Cells

ClosedIsFull ==
  tombstone.status = "published" =>
    FullyClosed(tombstone.run) /\ output[tombstone.run] # None

ReportedIsClosed ==
  reported # {} => /\ tombstone.status = "published"
                   /\ reported = {output[tombstone.run]}

Records ==
  RunNamed /\ FilesBound /\ OutputsComplete /\ ClosedIsFull /\ ReportedIsClosed

Scoring   == {"load_ledger", "scan", "evaluate", "write_checkpoint", "write_ledger"}
Closing   == {"close_ledger", "close_tombstone"}

InsideOf(p) ==
  LET v == version[p]
  IN /\ pc[p] = "write_tombstone" => tombstone.status = "torn"
     /\ pc[p] \in Scoring \cup Closing =>
          tombstone.status = "opened" /\ tombstone.run = v
     /\ pc[p] \in Scoring => output[v] = None
     /\ pc[p] \in {"scan", "evaluate", "write_checkpoint", "write_ledger"} =>
          ledger[v].status = "started"
     /\ pc[p] \in {"evaluate", "write_checkpoint"} => ledger[v].completed = checkpoints[v]
     /\ pc[p] \in {"evaluate", "write_checkpoint", "write_ledger"} => done[p] = checkpoints[v]
     /\ pc[p] \in Closing => done[p] = Cells /\ checkpoints[v] = Cells /\ output[v] = p
     /\ pc[p] = "write_checkpoint" => cell[p] \notin checkpoints[v]
     /\ pc[p] = "close_tombstone" =>
          ledger[v] = [status |-> "published", completed |-> Cells, artifact |-> p]
     /\ pc[p] = "report" => tombstone.status = "published" /\ tombstone.run = v

Inside == \A p \in Procs : InsideOf(p)

Inv == TypeOK /\ Exclusive /\ Records /\ Inside /\ EvaluationsAccounted

(* Type correctness needs the lock only for "a process inside has a run". *)
(* Type correctness needs the lock only for "a process inside has a run". *)
(* Type correctness needs the lock only for "a process inside has a run". *)
(* Type correctness needs the lock only for "a process inside has a run". *)
(* Type correctness needs the lock only for "a process inside has a run". *)
(* Type correctness needs the lock only for "a process inside has a run". *)
(* Type correctness needs the lock only for "a process inside has a run". *)
(* Type correctness needs the lock only for "a process inside has a run". *)
(* Type correctness needs the lock only for "a process inside has a run". *)
(* Type correctness needs the lock only for "a process inside has a run". *)
(* Type correctness needs the lock only for "a process inside has a run". *)
(* Type correctness needs the lock only for "a process inside has a run". *)
(* Type correctness needs the lock only for "a process inside has a run". *)
(* Type correctness needs the lock only for "a process inside has a run". *)
(* Type correctness needs the lock only for "a process inside has a run". *)
LEMMA TypeStep ==
  ASSUME TypeOK, Exclusive, [Next]_vars
  PROVE  TypeOK'
<1> USE FinalAssumption DEF TypeOK, Exclusive, Steps, At, GoTo, files, locals
<1>1. ASSUME NEW p \in Procs, pc[p] \notin {"idle", "write_checkpoint"}, Fail(p)
      PROVE  TypeOK'
  BY <1>1 DEF Fail, Leave
<1>2. ASSUME NEW p \in Procs, NEW v \in Versions, Invoke(p, v)
      PROVE  TypeOK'
  BY <1>2 DEF Invoke
<1>3. ASSUME NEW p \in Procs, CheckRelease(p)
      PROVE  TypeOK'
  <2>1. CASE ~release
    BY <1>3, <2>1 DEF CheckRelease
  <2>2. CASE ~(~release)
    BY <1>1, <1>3, <2>2 DEF CheckRelease
  <2> QED
    BY <2>1, <2>2
<1>4. ASSUME NEW p \in Procs, AcceptExisting(p)
      PROVE  TypeOK'
  <2>1. CASE FullyClosed(version[p])
    BY <1>4, <2>1 DEF AcceptExisting, Artifacts
  <2>2. CASE ~(FullyClosed(version[p]))
    BY <1>1, <1>4, <2>2 DEF AcceptExisting
  <2> QED
    BY <2>1, <2>2
<1>5. ASSUME NEW p \in Procs, ResumeTombstone(p)
      PROVE  TypeOK'
  <2>1. CASE Resumable(version[p])
    BY <1>5, <2>1 DEF ResumeTombstone
  <2>2. CASE ~(Resumable(version[p]))
    BY <1>1, <1>5, <2>2 DEF ResumeTombstone
  <2> QED
    BY <2>1, <2>2
<1>6. ASSUME NEW p \in Procs, CreateTombstone(p)
      PROVE  TypeOK'
  BY <1>6 DEF CreateTombstone, Tombstone, Ledger, Artifacts
<1>7. ASSUME NEW p \in Procs, WriteTombstone(p)
      PROVE  TypeOK'
  BY <1>7 DEF WriteTombstone, Tombstone, Ledger, Artifacts
<1>8. ASSUME NEW p \in Procs, LoadLedger(p)
      PROVE  TypeOK'
  <2>1. CASE ledger[version[p]].status # "published"
    <3>1. version[p] \in Versions
      BY <1>8 DEF LoadLedger
    <3>2. ledger' \in [Versions -> Ledger]
      BY <1>8, <2>1, <3>1 DEF LoadLedger, Ledger, Artifacts
    <3> QED
      BY <1>8, <2>1, <3>2 DEF LoadLedger
  <2>2. CASE ~(ledger[version[p]].status # "published")
    BY <1>1, <1>8, <2>2 DEF LoadLedger
  <2> QED
    BY <2>1, <2>2
<1>9. ASSUME NEW p \in Procs, ScanCheckpoints(p)
      PROVE  TypeOK'
  <2>1. CASE LedgerAgrees(version[p])
    BY <1>9, <2>1 DEF ScanCheckpoints
  <2>2. CASE ~(LedgerAgrees(version[p]))
    BY <1>1, <1>9, <2>2 DEF ScanCheckpoints
  <2> QED
    BY <2>1, <2>2
<1>10. ASSUME NEW p \in Procs, NEW c \in Cells, EvaluateCell(p, c)
      PROVE  TypeOK'
  BY <1>10 DEF EvaluateCell
<1>11. ASSUME NEW p \in Procs, WriteCheckpoint(p)
      PROVE  TypeOK'
  BY <1>11 DEF WriteCheckpoint
<1>12. ASSUME NEW p \in Procs, WriteLedger(p)
      PROVE  TypeOK'
  BY <1>12 DEF WriteLedger, Tombstone, Ledger, Artifacts
<1>13. ASSUME NEW p \in Procs, PublishOutput(p)
      PROVE  TypeOK'
  <2>1. CASE output[version[p]] = None
    BY <1>13, <2>1 DEF PublishOutput, Artifacts
  <2>2. CASE ~(output[version[p]] = None)
    BY <1>1, <1>13, <2>2 DEF PublishOutput
  <2> QED
    BY <2>1, <2>2
<1>14. ASSUME NEW p \in Procs, CloseLedger(p)
      PROVE  TypeOK'
  BY <1>14 DEF CloseLedger, Tombstone, Ledger, Artifacts
<1>15. ASSUME NEW p \in Procs, CloseTombstone(p)
      PROVE  TypeOK'
  <2>1. CASE tombstone.status = "opened" /\ tombstone.run = version[p]
    <3>1. version[p] \in Versions
      BY <1>15 DEF CloseTombstone
    <3>2. tombstone' \in Tombstone
      BY <1>15, <2>1, <3>1 DEF CloseTombstone, Tombstone, Artifacts
    <3> QED
      BY <1>15, <2>1, <3>2 DEF CloseTombstone
  <2>2. CASE ~(tombstone.status = "opened" /\ tombstone.run = version[p])
    BY <1>1, <1>15, <2>2 DEF CloseTombstone
  <2> QED
    BY <2>1, <2>2
<1>16. ASSUME NEW p \in Procs, Report(p)
      PROVE  TypeOK'
  BY <1>16 DEF Report, Leave, Artifacts
<1>17. ASSUME NEW p \in Procs, Crash(p)
      PROVE  TypeOK'
  BY <1>17 DEF Crash, Leave
<1>18. CASE FreezeRelease
  BY <1>18 DEF FreezeRelease
<1>19. CASE UNCHANGED vars
  BY <1>19 DEF vars
<1> QED
  BY <1>2, <1>3, <1>4, <1>5, <1>6, <1>7, <1>8, <1>9, <1>10, <1>11, <1>12,
     <1>13, <1>14, <1>15, <1>16, <1>17, <1>18, <1>19 DEF Next, Step

(* Mutual exclusion: only Invoke enters, and only when the lock is free. *)
LEMMA ExclusiveStep ==
  ASSUME TypeOK, Exclusive, [Next]_vars
  PROVE  Exclusive'
<1> USE FinalAssumption DEF TypeOK, Exclusive, At, GoTo, files, locals
<1>1. ASSUME NEW p \in Procs, pc[p] \notin {"idle", "write_checkpoint"}, Fail(p)
      PROVE  Exclusive'
  BY <1>1 DEF Fail, Leave
<1>2. ASSUME NEW p \in Procs, NEW v \in Versions, Invoke(p, v)
      PROVE  Exclusive'
  BY <1>2 DEF Invoke
<1>3. ASSUME NEW p \in Procs, CheckRelease(p)
      PROVE  Exclusive'
  <2>1. CASE ~release
    BY <1>3, <2>1 DEF CheckRelease
  <2>2. CASE ~(~release)
    BY <1>1, <1>3, <2>2 DEF CheckRelease
  <2> QED
    BY <2>1, <2>2
<1>4. ASSUME NEW p \in Procs, AcceptExisting(p)
      PROVE  Exclusive'
  <2>1. CASE FullyClosed(version[p])
    BY <1>4, <2>1 DEF AcceptExisting
  <2>2. CASE ~(FullyClosed(version[p]))
    BY <1>1, <1>4, <2>2 DEF AcceptExisting
  <2> QED
    BY <2>1, <2>2
<1>5. ASSUME NEW p \in Procs, ResumeTombstone(p)
      PROVE  Exclusive'
  <2>1. CASE Resumable(version[p])
    BY <1>5, <2>1 DEF ResumeTombstone
  <2>2. CASE ~(Resumable(version[p]))
    BY <1>1, <1>5, <2>2 DEF ResumeTombstone
  <2> QED
    BY <2>1, <2>2
<1>6. ASSUME NEW p \in Procs, CreateTombstone(p)
      PROVE  Exclusive'
  BY <1>6 DEF CreateTombstone
<1>7. ASSUME NEW p \in Procs, WriteTombstone(p)
      PROVE  Exclusive'
  BY <1>7 DEF WriteTombstone
<1>8. ASSUME NEW p \in Procs, LoadLedger(p)
      PROVE  Exclusive'
  <2>1. CASE ledger[version[p]].status # "published"
    BY <1>8, <2>1 DEF LoadLedger
  <2>2. CASE ~(ledger[version[p]].status # "published")
    BY <1>1, <1>8, <2>2 DEF LoadLedger
  <2> QED
    BY <2>1, <2>2
<1>9. ASSUME NEW p \in Procs, ScanCheckpoints(p)
      PROVE  Exclusive'
  <2>1. CASE LedgerAgrees(version[p])
    BY <1>9, <2>1 DEF ScanCheckpoints
  <2>2. CASE ~(LedgerAgrees(version[p]))
    BY <1>1, <1>9, <2>2 DEF ScanCheckpoints
  <2> QED
    BY <2>1, <2>2
<1>10. ASSUME NEW p \in Procs, NEW c \in Cells, EvaluateCell(p, c)
      PROVE  Exclusive'
  BY <1>10 DEF EvaluateCell
<1>11. ASSUME NEW p \in Procs, WriteCheckpoint(p)
      PROVE  Exclusive'
  BY <1>11 DEF WriteCheckpoint
<1>12. ASSUME NEW p \in Procs, WriteLedger(p)
      PROVE  Exclusive'
  BY <1>12 DEF WriteLedger
<1>13. ASSUME NEW p \in Procs, PublishOutput(p)
      PROVE  Exclusive'
  <2>1. CASE output[version[p]] = None
    BY <1>13, <2>1 DEF PublishOutput
  <2>2. CASE ~(output[version[p]] = None)
    BY <1>1, <1>13, <2>2 DEF PublishOutput
  <2> QED
    BY <2>1, <2>2
<1>14. ASSUME NEW p \in Procs, CloseLedger(p)
      PROVE  Exclusive'
  BY <1>14 DEF CloseLedger
<1>15. ASSUME NEW p \in Procs, CloseTombstone(p)
      PROVE  Exclusive'
  <2>1. CASE tombstone.status = "opened" /\ tombstone.run = version[p]
    BY <1>15, <2>1 DEF CloseTombstone
  <2>2. CASE ~(tombstone.status = "opened" /\ tombstone.run = version[p])
    BY <1>1, <1>15, <2>2 DEF CloseTombstone
  <2> QED
    BY <2>1, <2>2
<1>16. ASSUME NEW p \in Procs, Report(p)
      PROVE  Exclusive'
  BY <1>16 DEF Report, Leave
<1>17. ASSUME NEW p \in Procs, Crash(p)
      PROVE  Exclusive'
  BY <1>17 DEF Crash, Leave
<1>18. CASE FreezeRelease
  BY <1>18 DEF FreezeRelease
<1>19. CASE UNCHANGED vars
  BY <1>19 DEF vars
<1> QED
  BY <1>2, <1>3, <1>4, <1>5, <1>6, <1>7, <1>8, <1>9, <1>10, <1>11, <1>12,
     <1>13, <1>14, <1>15, <1>16, <1>17, <1>18, <1>19 DEF Next, Step

(* Steps that touch neither the files nor the reports keep the records. *)
LEMMA RecordsFrame ==
  ASSUME Records, UNCHANGED <<files, reported>>
  PROVE  Records'
BY DEF Records, RunNamed, FilesBound, OutputsComplete, ClosedIsFull, ReportedIsClosed,
       FullyClosed, LedgerAgrees, files

(* While the tombstone is open only the first files matter. *)
LEMMA OpenRecords ==
  ASSUME Records, tombstone.status = "opened", UNCHANGED <<tombstone, reported>>,
         FilesBound', OutputsComplete'
  PROVE  Records'
BY DEF Records, RunNamed, ClosedIsFull, ReportedIsClosed

(* What the process inside the lock may rely on. *)
LEMMA InsideFacts ==
  ASSUME Exclusive, Inside, NEW p \in Procs, pc[p] \in Scoring \cup Closing
  PROVE  /\ version[p] \in Versions
         /\ tombstone.status = "opened"
         /\ tombstone.run = version[p]
BY DEF Exclusive, Inside, InsideOf, Scoring, Closing

(* The files stay consistent: what a writer relies on is what the process  *)
(* inside the lock knows (Inside).                                          *)
LEMMA RecordsStep ==
  ASSUME TypeOK, Exclusive, Records, Inside, [Next]_vars
  PROVE  Records'
<1> USE FinalAssumption DEF Exclusive, At, GoTo, files, locals
<1>1. ASSUME NEW p \in Procs, pc[p] \notin {"idle", "write_checkpoint"}, Fail(p)
      PROVE  Records'
  BY <1>1, RecordsFrame DEF Fail, Leave
<1>2. ASSUME NEW p \in Procs, NEW v \in Versions, Invoke(p, v)
      PROVE  Records'
  BY <1>2, RecordsFrame DEF Invoke
<1>3. ASSUME NEW p \in Procs, CheckRelease(p)
      PROVE  Records'
  <2>1. CASE ~release
    BY <1>3, <2>1, RecordsFrame DEF CheckRelease
  <2>2. CASE ~(~release)
    BY <1>1, <1>3, <2>2 DEF CheckRelease
  <2> QED
    BY <2>1, <2>2
<1>4. ASSUME NEW p \in Procs, AcceptExisting(p)
      PROVE  Records'
  <2>1. CASE FullyClosed(version[p])
    BY <1>4, <2>1, RecordsFrame DEF AcceptExisting
  <2>2. CASE ~(FullyClosed(version[p]))
    BY <1>1, <1>4, <2>2 DEF AcceptExisting
  <2> QED
    BY <2>1, <2>2
<1>5. ASSUME NEW p \in Procs, ResumeTombstone(p)
      PROVE  Records'
  <2>1. CASE Resumable(version[p])
    BY <1>5, <2>1, RecordsFrame DEF ResumeTombstone
  <2>2. CASE ~(Resumable(version[p]))
    BY <1>1, <1>5, <2>2 DEF ResumeTombstone
  <2> QED
    BY <2>1, <2>2
<1>6. ASSUME NEW p \in Procs, CreateTombstone(p)
      PROVE  Records'
  BY <1>6 DEF CreateTombstone, Records, RunNamed, FilesBound, OutputsComplete,
     ClosedIsFull, ReportedIsClosed
<1>7. ASSUME NEW p \in Procs, WriteTombstone(p)
      PROVE  Records'
  <2>1. version[p] \in Versions /\ tombstone.status = "torn"
    BY <1>7 DEF WriteTombstone, Inside, InsideOf
  <2>2. \A v \in Versions : /\ ledger[v].status = "absent"
                            /\ checkpoints[v] = {}
                            /\ output[v] = None
    BY <2>1 DEF Records, RunNamed, FilesBound
  <2>3. reported = {}
    BY <2>1 DEF Records, ReportedIsClosed
  <2> QED
    BY <1>7, <2>1, <2>2, <2>3 DEF WriteTombstone, Records, RunNamed, FilesBound,
       OutputsComplete, ClosedIsFull, ReportedIsClosed
<1>8. ASSUME NEW p \in Procs, LoadLedger(p)
      PROVE  Records'
  <2>1. CASE ledger[version[p]].status # "published"
    <3>1. pc[p] \in Scoring \cup Closing
      BY <1>8, <2>1 DEF LoadLedger, Scoring, Closing
    <3>2. /\ version[p] \in Versions
         /\ tombstone.status = "opened"
         /\ tombstone.run = version[p]
      BY <3>1, InsideFacts
    <3>3. FilesBound'
      BY <1>8, <2>1, <3>2 DEF LoadLedger, Records, FilesBound, TypeOK
    <3>4. OutputsComplete'
      BY <1>8, <2>1, <3>2 DEF LoadLedger, Records, OutputsComplete, TypeOK,
         Inside, InsideOf, Scoring, Closing
    <3> QED
      BY <1>8, <2>1, <3>2, <3>3, <3>4, OpenRecords DEF LoadLedger
  <2>2. CASE ~(ledger[version[p]].status # "published")
    BY <1>1, <1>8, <2>2 DEF LoadLedger
  <2> QED
    BY <2>1, <2>2
<1>9. ASSUME NEW p \in Procs, ScanCheckpoints(p)
      PROVE  Records'
  <2>1. CASE LedgerAgrees(version[p])
    BY <1>9, <2>1, RecordsFrame DEF ScanCheckpoints
  <2>2. CASE ~(LedgerAgrees(version[p]))
    BY <1>1, <1>9, <2>2 DEF ScanCheckpoints
  <2> QED
    BY <2>1, <2>2
<1>10. ASSUME NEW p \in Procs, NEW c \in Cells, EvaluateCell(p, c)
      PROVE  Records'
  BY <1>10, RecordsFrame DEF EvaluateCell
<1>11. ASSUME NEW p \in Procs, WriteCheckpoint(p)
      PROVE  Records'
  <2>1. pc[p] \in Scoring \cup Closing
    BY <1>11 DEF WriteCheckpoint, Scoring, Closing
  <2>2. /\ version[p] \in Versions
       /\ tombstone.status = "opened"
       /\ tombstone.run = version[p]
    BY <2>1, InsideFacts
  <2>3. FilesBound'
    BY <1>11, <2>2 DEF WriteCheckpoint, Records, FilesBound, TypeOK
  <2>4. OutputsComplete'
    BY <1>11, <2>2 DEF WriteCheckpoint, Records, OutputsComplete, TypeOK,
       Inside, InsideOf, Scoring, Closing
  <2> QED
    BY <1>11, <2>2, <2>3, <2>4, OpenRecords DEF WriteCheckpoint
<1>12. ASSUME NEW p \in Procs, WriteLedger(p)
      PROVE  Records'
  <2>1. pc[p] \in Scoring \cup Closing
    BY <1>12 DEF WriteLedger, Scoring, Closing
  <2>2. /\ version[p] \in Versions
       /\ tombstone.status = "opened"
       /\ tombstone.run = version[p]
    BY <2>1, InsideFacts
  <2>3. FilesBound'
    BY <1>12, <2>2 DEF WriteLedger, Records, FilesBound, TypeOK
  <2>4. OutputsComplete'
    BY <1>12, <2>2 DEF WriteLedger, Records, OutputsComplete, TypeOK,
       Inside, InsideOf, Scoring, Closing
  <2> QED
    BY <1>12, <2>2, <2>3, <2>4, OpenRecords DEF WriteLedger
<1>13. ASSUME NEW p \in Procs, PublishOutput(p)
      PROVE  Records'
  <2>1. CASE output[version[p]] = None
    <3>1. pc[p] \in Scoring \cup Closing
      BY <1>13, <2>1 DEF PublishOutput, Scoring, Closing
    <3>2. /\ version[p] \in Versions
         /\ tombstone.status = "opened"
         /\ tombstone.run = version[p]
      BY <3>1, InsideFacts
    <3>3. FilesBound'
      BY <1>13, <2>1, <3>2 DEF PublishOutput, Records, FilesBound, TypeOK
    <3>4. checkpoints[version[p]] = Cells
      BY <1>13 DEF PublishOutput, Inside, InsideOf
    <3>5. OutputsComplete'
      BY <1>13, <2>1, <3>2, <3>4 DEF PublishOutput, Records, OutputsComplete, TypeOK
    <3> QED
      BY <1>13, <2>1, <3>2, <3>3, <3>5, OpenRecords DEF PublishOutput
  <2>2. CASE ~(output[version[p]] = None)
    BY <1>1, <1>13, <2>2 DEF PublishOutput
  <2> QED
    BY <2>1, <2>2
<1>14. ASSUME NEW p \in Procs, CloseLedger(p)
      PROVE  Records'
  <2>1. pc[p] \in Scoring \cup Closing
    BY <1>14 DEF CloseLedger, Scoring, Closing
  <2>2. /\ version[p] \in Versions
       /\ tombstone.status = "opened"
       /\ tombstone.run = version[p]
    BY <2>1, InsideFacts
  <2>3. FilesBound'
    BY <1>14, <2>2 DEF CloseLedger, Records, FilesBound, TypeOK
  <2>4. OutputsComplete'
    BY <1>14, <2>2 DEF CloseLedger, Records, OutputsComplete, TypeOK,
       Inside, InsideOf, Scoring, Closing
  <2> QED
    BY <1>14, <2>2, <2>3, <2>4, OpenRecords DEF CloseLedger
<1>15. ASSUME NEW p \in Procs, CloseTombstone(p)
      PROVE  Records'
  <2>1. CASE tombstone.status = "opened" /\ tombstone.run = version[p]
    <3>1. /\ version[p] \in Versions
          /\ done[p] = Cells
          /\ checkpoints[version[p]] = Cells
          /\ output[version[p]] = p
          /\ ledger[version[p]] =
               [status |-> "published", completed |-> Cells, artifact |-> p]
      BY <1>15 DEF CloseTombstone, Inside, InsideOf, Closing
    <3>2. reported = {}
      BY <2>1 DEF Records, ReportedIsClosed
    <3>3. RunNamed' /\ ReportedIsClosed'
      BY <1>15, <2>1, <3>1, <3>2 DEF CloseTombstone, RunNamed, ReportedIsClosed
    <3>4. FilesBound' /\ OutputsComplete'
      BY <1>15, <2>1 DEF CloseTombstone, Records, FilesBound, OutputsComplete
    <3>5. ClosedIsFull'
      BY <1>15, <2>1, <3>1 DEF CloseTombstone, ClosedIsFull, FullyClosed, LedgerAgrees
    <3> QED
      BY <3>3, <3>4, <3>5 DEF Records
  <2>2. CASE ~(tombstone.status = "opened" /\ tombstone.run = version[p])
    BY <1>1, <1>15, <2>2 DEF CloseTombstone
  <2> QED
    BY <2>1, <2>2
<1>16. ASSUME NEW p \in Procs, Report(p)
      PROVE  Records'
  <2>1. tombstone.status = "published" /\ tombstone.run = version[p]
    BY <1>16 DEF Report, Inside, InsideOf
  <2>2. ReportedIsClosed'
    BY <1>16, <2>1 DEF Report, files, Records, ReportedIsClosed
  <2> QED
    BY <1>16, <2>2 DEF Report, files, Records, RunNamed, FilesBound, OutputsComplete,
       ClosedIsFull, FullyClosed, LedgerAgrees
<1>17. ASSUME NEW p \in Procs, Crash(p)
      PROVE  Records'
  BY <1>17, RecordsFrame DEF Crash, Leave
<1>18. CASE FreezeRelease
  BY <1>18, RecordsFrame DEF FreezeRelease
<1>19. CASE UNCHANGED vars
  BY <1>19, RecordsFrame DEF vars
<1> QED
  BY <1>2, <1>3, <1>4, <1>5, <1>6, <1>7, <1>8, <1>9, <1>10, <1>11, <1>12,
     <1>13, <1>14, <1>15, <1>16, <1>17, <1>18, <1>19 DEF Next, Step

(* Only the holder of the lock has anything to know. *)
LEMMA OnlyHolder ==
  ASSUME Exclusive', NEW p \in Procs, lock' \in {p, None}, InsideOf(p)', None \notin Procs
  PROVE  Inside'
BY DEF Exclusive, Inside, InsideOf, Scoring, Closing

(* What the process inside knows stays true: each step establishes what the *)
(* next one relies on, and nobody else moves.                               *)
LEMMA InsideStep ==
  ASSUME TypeOK, Exclusive, Records, Inside, Exclusive', [Next]_vars
  PROVE  Inside'
<1> USE FinalAssumption DEF At, GoTo, files, locals, TypeOK, Exclusive,
        Inside, InsideOf, Scoring, Closing
<1>1. ASSUME NEW p \in Procs, pc[p] \notin {"idle", "write_checkpoint"}, Fail(p)
      PROVE  Inside'
  BY <1>1, OnlyHolder DEF Fail, Leave
<1>2. ASSUME NEW p \in Procs, NEW v \in Versions, Invoke(p, v)
      PROVE  Inside'
  BY <1>2, OnlyHolder DEF Invoke
<1>3. ASSUME NEW p \in Procs, CheckRelease(p)
      PROVE  Inside'
  <2>1. CASE ~release
    BY <1>3, <2>1, OnlyHolder DEF CheckRelease
  <2>2. CASE ~(~release)
    BY <1>1, <1>3, <2>2 DEF CheckRelease
  <2> QED
    BY <2>1, <2>2
<1>4. ASSUME NEW p \in Procs, AcceptExisting(p)
      PROVE  Inside'
  <2>1. CASE FullyClosed(version[p])
    BY <1>4, <2>1, OnlyHolder DEF AcceptExisting, FullyClosed
  <2>2. CASE ~(FullyClosed(version[p]))
    BY <1>1, <1>4, <2>2 DEF AcceptExisting
  <2> QED
    BY <2>1, <2>2
<1>5. ASSUME NEW p \in Procs, ResumeTombstone(p)
      PROVE  Inside'
  <2>1. CASE Resumable(version[p])
    BY <1>5, <2>1, OnlyHolder DEF ResumeTombstone, Resumable
  <2>2. CASE ~(Resumable(version[p]))
    BY <1>1, <1>5, <2>2 DEF ResumeTombstone
  <2> QED
    BY <2>1, <2>2
<1>6. ASSUME NEW p \in Procs, CreateTombstone(p)
      PROVE  Inside'
  BY <1>6, OnlyHolder DEF CreateTombstone
<1>7. ASSUME NEW p \in Procs, WriteTombstone(p)
      PROVE  Inside'
  <2>1. version[p] \in Versions /\ tombstone.status = "torn"
    BY <1>7 DEF WriteTombstone
  <2>2. tombstone.run = None
    BY <2>1 DEF Records, RunNamed
  <2>3. output[version[p]] = None
    BY <2>1, <2>2 DEF Records, FilesBound
  <2>4. InsideOf(p)'
    BY <1>7, <2>1, <2>3 DEF WriteTombstone
  <2> QED
    BY <1>7, <2>4, OnlyHolder DEF WriteTombstone
<1>8. ASSUME NEW p \in Procs, LoadLedger(p)
      PROVE  Inside'
  <2>1. CASE ledger[version[p]].status # "published"
    <3>1. version[p] \in Versions
      BY <1>8 DEF LoadLedger
    <3>2. ledger'[version[p]].status = "started"
      BY <1>8, <2>1, <3>1 DEF LoadLedger, Ledger
    <3>3. pc'[p] = "scan" /\ lock' = lock /\ UNCHANGED <<version, tombstone, output>>
      BY <1>8, <2>1 DEF LoadLedger
    <3>4. InsideOf(p)'
      BY <1>8, <3>2, <3>3 DEF LoadLedger
    <3> QED
      BY <1>8, <3>3, <3>4, OnlyHolder DEF LoadLedger
  <2>2. CASE ~(ledger[version[p]].status # "published")
    BY <1>1, <1>8, <2>2 DEF LoadLedger
  <2> QED
    BY <2>1, <2>2
<1>9. ASSUME NEW p \in Procs, ScanCheckpoints(p)
      PROVE  Inside'
  <2>1. CASE LedgerAgrees(version[p])
    BY <1>9, <2>1, OnlyHolder DEF ScanCheckpoints, LedgerAgrees
  <2>2. CASE ~(LedgerAgrees(version[p]))
    BY <1>1, <1>9, <2>2 DEF ScanCheckpoints
  <2> QED
    BY <2>1, <2>2
<1>10. ASSUME NEW p \in Procs, NEW c \in Cells, EvaluateCell(p, c)
      PROVE  Inside'
  <2>1. /\ pc[p] = "evaluate" /\ pc'[p] = "write_checkpoint"
        /\ UNCHANGED <<lock, version, done, tombstone, ledger, checkpoints, output>>
    BY <1>10 DEF EvaluateCell
  <2>2. InsideOf(p)
    OBVIOUS
  <2>3. cell'[p] = c /\ c \notin done[p]
    BY <1>10 DEF EvaluateCell
  <2>4. InsideOf(p)'
    BY <2>1, <2>2, <2>3
  <2> QED
    BY <2>1, <2>4, OnlyHolder
<1>11. ASSUME NEW p \in Procs, WriteCheckpoint(p)
      PROVE  Inside'
  BY <1>11, OnlyHolder DEF WriteCheckpoint
<1>12. ASSUME NEW p \in Procs, WriteLedger(p)
      PROVE  Inside'
  BY <1>12, OnlyHolder DEF WriteLedger
<1>13. ASSUME NEW p \in Procs, PublishOutput(p)
      PROVE  Inside'
  <2>1. CASE output[version[p]] = None
    BY <1>13, <2>1, OnlyHolder DEF PublishOutput
  <2>2. CASE ~(output[version[p]] = None)
    BY <1>1, <1>13, <2>2 DEF PublishOutput
  <2> QED
    BY <2>1, <2>2
<1>14. ASSUME NEW p \in Procs, CloseLedger(p)
      PROVE  Inside'
  BY <1>14, OnlyHolder DEF CloseLedger
<1>15. ASSUME NEW p \in Procs, CloseTombstone(p)
      PROVE  Inside'
  <2>1. CASE tombstone.status = "opened" /\ tombstone.run = version[p]
    BY <1>15, <2>1, OnlyHolder DEF CloseTombstone
  <2>2. CASE ~(tombstone.status = "opened" /\ tombstone.run = version[p])
    BY <1>1, <1>15, <2>2 DEF CloseTombstone
  <2> QED
    BY <2>1, <2>2
<1>16. ASSUME NEW p \in Procs, Report(p)
      PROVE  Inside'
  BY <1>16, OnlyHolder DEF Report, Leave
<1>17. ASSUME NEW p \in Procs, Crash(p)
      PROVE  Inside'
  BY <1>17, OnlyHolder DEF Crash, Leave
<1>18. CASE FreezeRelease
  BY <1>18 DEF FreezeRelease
<1>19. CASE UNCHANGED vars
  BY <1>19 DEF vars
<1> QED
  BY <1>2, <1>3, <1>4, <1>5, <1>6, <1>7, <1>8, <1>9, <1>10, <1>11, <1>12,
     <1>13, <1>14, <1>15, <1>16, <1>17, <1>18, <1>19 DEF Next, Step

(* The account when no labels are opened, no evaluation is lost and what is   *)
(* held stays held.                                                          *)
LEMMA AccountFrame ==
  ASSUME EvaluationsAccounted, UNCHANGED <<opens, lost>>,
         \A c \in Cells : Held(c)' <=> Held(c)
  PROVE  EvaluationsAccounted'
BY DEF EvaluationsAccounted

(* Each opening is kept, in hand, or thrown away by a crash.                 *)
LEMMA AccountStep ==
  ASSUME TypeOK, Exclusive, Records, Inside, EvaluationsAccounted, [Next]_vars
  PROVE  EvaluationsAccounted'
<1> USE FinalAssumption DEF At, GoTo, files, locals, TypeOK, Exclusive
<1>1. ASSUME NEW p \in Procs, pc[p] \notin {"idle", "write_checkpoint"}, Fail(p)
      PROVE  EvaluationsAccounted'
  <2>1. cell' = cell /\ UNCHANGED <<checkpoints, opens, lost>>
    BY <1>1 DEF Fail, Leave
  <2> QED
    BY <2>1, AccountFrame DEF Held
<1>2. ASSUME NEW p \in Procs, NEW v \in Versions, Invoke(p, v)
      PROVE  EvaluationsAccounted'
  <2>1. \A c \in Cells : Held(c)' <=> Held(c)
    BY <1>2 DEF Invoke, Held
  <2> QED
    BY <1>2, <2>1, AccountFrame DEF Invoke
<1>3. ASSUME NEW p \in Procs, CheckRelease(p)
      PROVE  EvaluationsAccounted'
  <2>1. CASE ~release
    <3>1. \A c \in Cells : Held(c)' <=> Held(c)
      BY <1>3, <2>1 DEF CheckRelease, Held
    <3> QED
      BY <1>3, <2>1, <3>1, AccountFrame DEF CheckRelease
  <2>2. CASE ~(~release)
    BY <1>1, <1>3, <2>2 DEF CheckRelease
  <2> QED
    BY <2>1, <2>2
<1>4. ASSUME NEW p \in Procs, AcceptExisting(p)
      PROVE  EvaluationsAccounted'
  <2>1. CASE FullyClosed(version[p])
    <3>1. \A c \in Cells : Held(c)' <=> Held(c)
      BY <1>4, <2>1 DEF AcceptExisting, Held
    <3> QED
      BY <1>4, <2>1, <3>1, AccountFrame DEF AcceptExisting
  <2>2. CASE ~(FullyClosed(version[p]))
    BY <1>1, <1>4, <2>2 DEF AcceptExisting
  <2> QED
    BY <2>1, <2>2
<1>5. ASSUME NEW p \in Procs, ResumeTombstone(p)
      PROVE  EvaluationsAccounted'
  <2>1. CASE Resumable(version[p])
    <3>1. \A c \in Cells : Held(c)' <=> Held(c)
      BY <1>5, <2>1 DEF ResumeTombstone, Held
    <3> QED
      BY <1>5, <2>1, <3>1, AccountFrame DEF ResumeTombstone
  <2>2. CASE ~(Resumable(version[p]))
    BY <1>1, <1>5, <2>2 DEF ResumeTombstone
  <2> QED
    BY <2>1, <2>2
<1>6. ASSUME NEW p \in Procs, CreateTombstone(p)
      PROVE  EvaluationsAccounted'
  <2>1. \A c \in Cells : Held(c)' <=> Held(c)
    BY <1>6 DEF CreateTombstone, Held
  <2> QED
    BY <1>6, <2>1, AccountFrame DEF CreateTombstone
<1>7. ASSUME NEW p \in Procs, WriteTombstone(p)
      PROVE  EvaluationsAccounted'
  <2>1. \A c \in Cells : Held(c)' <=> Held(c)
    BY <1>7 DEF WriteTombstone, Held
  <2> QED
    BY <1>7, <2>1, AccountFrame DEF WriteTombstone
<1>8. ASSUME NEW p \in Procs, LoadLedger(p)
      PROVE  EvaluationsAccounted'
  <2>1. CASE ledger[version[p]].status # "published"
    <3>1. \A c \in Cells : Held(c)' <=> Held(c)
      BY <1>8, <2>1 DEF LoadLedger, Held
    <3> QED
      BY <1>8, <2>1, <3>1, AccountFrame DEF LoadLedger
  <2>2. CASE ~(ledger[version[p]].status # "published")
    BY <1>1, <1>8, <2>2 DEF LoadLedger
  <2> QED
    BY <2>1, <2>2
<1>9. ASSUME NEW p \in Procs, ScanCheckpoints(p)
      PROVE  EvaluationsAccounted'
  <2>1. CASE LedgerAgrees(version[p])
    <3>1. \A c \in Cells : Held(c)' <=> Held(c)
      BY <1>9, <2>1 DEF ScanCheckpoints, Held
    <3> QED
      BY <1>9, <2>1, <3>1, AccountFrame DEF ScanCheckpoints
  <2>2. CASE ~(LedgerAgrees(version[p]))
    BY <1>1, <1>9, <2>2 DEF ScanCheckpoints
  <2> QED
    BY <2>1, <2>2
<1>10. ASSUME NEW p \in Procs, NEW c \in Cells, EvaluateCell(p, c)
      PROVE  EvaluationsAccounted'
  <2>1. cell[p] = None /\ lock = p /\ version[p] \in Versions
    BY <1>10 DEF EvaluateCell
  <2>2. ~Held(c)
    <3>1. \A q \in Procs : cell[q] # c
      BY <1>10, <2>1 DEF EvaluateCell
    <3>2. c \notin checkpoints[version[p]] /\ tombstone.run = version[p]
      BY <1>10 DEF EvaluateCell, Inside, InsideOf, Scoring
    <3>3. \A v \in Versions : c \notin checkpoints[v]
      BY <2>1, <3>2 DEF Records, FilesBound
    <3> QED
      BY <3>1, <3>3 DEF Held
  <2>3. /\ cell' = [cell EXCEPT ![p] = c]
        /\ opens' = [opens EXCEPT ![c] = @ + 1]
        /\ UNCHANGED <<checkpoints, lost>>
    BY <1>10 DEF EvaluateCell
  <2>4. Held(c)'
    BY <2>3 DEF Held
  <2>5. ASSUME NEW d \in Cells, d # c
        PROVE  Held(d)' <=> Held(d)
    BY <2>1, <2>3, <2>5 DEF Held
  <2>6. ASSUME NEW d \in Cells
        PROVE  opens'[d] = lost'[d] + (IF Held(d)' THEN 1 ELSE 0)
    <3>1. opens[d] \in Nat /\ lost[d] \in Nat
      OBVIOUS
    <3>2. opens[d] = lost[d] + (IF Held(d) THEN 1 ELSE 0)
      BY DEF EvaluationsAccounted
    <3>3. CASE d = c
      BY <2>2, <2>3, <2>4, <3>1, <3>2, <3>3
    <3>4. CASE d # c
      BY <2>3, <2>5, <3>2, <3>4
    <3> QED
      BY <3>3, <3>4
  <2> QED
    BY <2>6 DEF EvaluationsAccounted
<1>11. ASSUME NEW p \in Procs, WriteCheckpoint(p)
      PROVE  EvaluationsAccounted'
  <2>1. version[p] \in Versions
    BY <1>11 DEF WriteCheckpoint
  <2>2. /\ checkpoints' = [checkpoints EXCEPT ![version[p]] = @ \cup {cell[p]}]
        /\ cell' = [cell EXCEPT ![p] = None]
        /\ UNCHANGED <<opens, lost>>
    BY <1>11 DEF WriteCheckpoint
  <2>3. ASSUME NEW c \in Cells
        PROVE  Held(c)' <=> Held(c)
    <3>1. CASE cell[p] = c
      BY <2>1, <2>2, <3>1 DEF Held
    <3>2. CASE cell[p] # c
      BY <2>1, <2>2, <3>2 DEF Held
    <3> QED
      BY <3>1, <3>2
  <2> QED
    BY <2>2, <2>3, AccountFrame
<1>12. ASSUME NEW p \in Procs, WriteLedger(p)
      PROVE  EvaluationsAccounted'
  <2>1. \A c \in Cells : Held(c)' <=> Held(c)
    BY <1>12 DEF WriteLedger, Held
  <2> QED
    BY <1>12, <2>1, AccountFrame DEF WriteLedger
<1>13. ASSUME NEW p \in Procs, PublishOutput(p)
      PROVE  EvaluationsAccounted'
  <2>1. CASE output[version[p]] = None
    <3>1. \A c \in Cells : Held(c)' <=> Held(c)
      BY <1>13, <2>1 DEF PublishOutput, Held
    <3> QED
      BY <1>13, <2>1, <3>1, AccountFrame DEF PublishOutput
  <2>2. CASE ~(output[version[p]] = None)
    BY <1>1, <1>13, <2>2 DEF PublishOutput
  <2> QED
    BY <2>1, <2>2
<1>14. ASSUME NEW p \in Procs, CloseLedger(p)
      PROVE  EvaluationsAccounted'
  <2>1. \A c \in Cells : Held(c)' <=> Held(c)
    BY <1>14 DEF CloseLedger, Held
  <2> QED
    BY <1>14, <2>1, AccountFrame DEF CloseLedger
<1>15. ASSUME NEW p \in Procs, CloseTombstone(p)
      PROVE  EvaluationsAccounted'
  <2>1. CASE tombstone.status = "opened" /\ tombstone.run = version[p]
    <3>1. \A c \in Cells : Held(c)' <=> Held(c)
      BY <1>15, <2>1 DEF CloseTombstone, Held
    <3> QED
      BY <1>15, <2>1, <3>1, AccountFrame DEF CloseTombstone
  <2>2. CASE ~(tombstone.status = "opened" /\ tombstone.run = version[p])
    BY <1>1, <1>15, <2>2 DEF CloseTombstone
  <2> QED
    BY <2>1, <2>2
<1>16. ASSUME NEW p \in Procs, Report(p)
      PROVE  EvaluationsAccounted'
  <2>1. cell' = cell /\ UNCHANGED <<checkpoints, opens, lost>>
    BY <1>16 DEF Report, Leave
  <2> QED
    BY <2>1, AccountFrame DEF Held
<1>17. ASSUME NEW p \in Procs, Crash(p)
      PROVE  EvaluationsAccounted'
  <2>1. /\ cell' = [cell EXCEPT ![p] = None]
        /\ lost' = [c \in Cells |-> IF c = cell[p] THEN lost[c] + 1 ELSE lost[c]]
        /\ UNCHANGED <<opens, checkpoints>>
    BY <1>17 DEF Crash, Leave
  <2>2. ASSUME NEW q \in Procs, q # p
        PROVE  cell[q] = None
    BY <1>17, <2>2 DEF Crash
  <2>3. ASSUME NEW c \in Cells
        PROVE  opens'[c] = lost'[c] + (IF Held(c)' THEN 1 ELSE 0)
    <3>1. opens[c] \in Nat /\ lost[c] \in Nat
      OBVIOUS
    <3>2. opens[c] = lost[c] + (IF Held(c) THEN 1 ELSE 0)
      BY DEF EvaluationsAccounted
    <3>3. CASE cell[p] = c
      <4>1. pc[p] = "write_checkpoint" /\ version[p] \in Versions
        BY <1>17, <3>3 DEF Crash
      <4>2. c \notin checkpoints[version[p]] /\ tombstone.run = version[p]
        BY <3>3, <4>1 DEF Inside, InsideOf, Scoring
      <4>3. \A v \in Versions : c \notin checkpoints[v]
        BY <4>1, <4>2 DEF Records, FilesBound
      <4>4. Held(c) /\ ~Held(c)'
        BY <2>1, <2>2, <3>3, <4>3 DEF Held
      <4> QED
        BY <2>1, <3>1, <3>2, <3>3, <4>4
    <3>4. CASE cell[p] # c
      <4>1. Held(c)' <=> Held(c)
        BY <2>1, <3>4 DEF Held
      <4> QED
        BY <2>1, <3>2, <3>4, <4>1
    <3> QED
      BY <3>3, <3>4
  <2> QED
    BY <2>3 DEF EvaluationsAccounted
<1>18. CASE FreezeRelease
  <2>1. \A c \in Cells : Held(c)' <=> Held(c)
    BY <1>18 DEF FreezeRelease, Held
  <2> QED
    BY <1>18, <2>1, AccountFrame DEF FreezeRelease
<1>19. CASE UNCHANGED vars
  <2>1. \A c \in Cells : Held(c)' <=> Held(c)
    BY <1>19 DEF vars, Held
  <2> QED
    BY <1>19, <2>1, AccountFrame DEF vars
<1> QED
  BY <1>2, <1>3, <1>4, <1>5, <1>6, <1>7, <1>8, <1>9, <1>10, <1>11, <1>12,
     <1>13, <1>14, <1>15, <1>16, <1>17, <1>18, <1>19 DEF Next, Step

-----------------------------------------------------------------------------
LEMMA InvInit ==
  ASSUME Init
  PROVE  Inv
<1> USE FinalAssumption DEF Init
<1>1. TypeOK
  BY DEF TypeOK, Steps, Artifacts, Tombstone, Ledger
<1>2. Exclusive /\ Inside
  BY DEF Exclusive, Inside, InsideOf, Scoring, Closing
<1>3. Records
  BY DEF Records, RunNamed, FilesBound, OutputsComplete, ClosedIsFull, ReportedIsClosed
<1>4. EvaluationsAccounted
  BY DEF EvaluationsAccounted, Held
<1> QED
  BY <1>1, <1>2, <1>3, <1>4 DEF Inv

LEMMA InvStep ==
  ASSUME Inv, [Next]_vars
  PROVE  Inv'
<1> USE DEF Inv
<1>1. TypeOK' /\ Exclusive'
  BY TypeStep, ExclusiveStep
<1>2. Records' /\ Inside'
  BY <1>1, RecordsStep, InsideStep
<1>3. EvaluationsAccounted'
  BY AccountStep
<1> QED
  BY <1>1, <1>2, <1>3

THEOREM Safety == Spec => []Inv
<1>1. Init => Inv
  BY InvInit
<1>2. Inv /\ [Next]_vars => Inv'
  BY InvStep
<1> QED
  BY <1>1, <1>2, PTL DEF Spec

(* The tombstone binds a selection to one run (run_stage4_final.py): every  *)
(* file is that run's, a published artifact has every cell, and a summary   *)
(* is handed out only after both records were closed with its id.           *)
THEOREM OnePublicationHolds == Spec => []OnePublication
<1>1. Inv => OnePublication
  BY DEF Inv, Records, FilesBound, OutputsComplete, ClosedIsFull, ReportedIsClosed,
         OnePublication
<1> QED
  BY <1>1, Safety, PTL

(* However often processes are killed and restarted, a cell's labels are    *)
(* opened again only if a crash threw that cell's evaluation away.          *)
THEOREM EvaluationsAreAccounted == Spec => []EvaluationsAccounted
<1>1. Inv => EvaluationsAccounted
  BY DEF Inv
<1> QED
  BY <1>1, Safety, PTL

(* Only EvaluateCell opens labels. *)
LEMMA OpensFrame ==
  ASSUME [Next]_vars, \A p \in Procs, c \in Cells : ~EvaluateCell(p, c)
  PROVE  opens' = opens
BY DEF Next, Step, vars, files, locals, Fail, Leave, Invoke, CheckRelease,
       AcceptExisting, ResumeTombstone, CreateTombstone, WriteTombstone, LoadLedger,
       ScanCheckpoints, WriteCheckpoint, WriteLedger, PublishOutput, CloseLedger,
       CloseTombstone, Report, Crash, FreezeRelease

(* The labels of a cell are opened only under an open tombstone of the same *)
(* run whose ledger agrees with the checkpoint files, and never for a cell  *)
(* whose score is on disk (_open_final_tombstone, _evaluate_missing_cells). *)
THEOREM LabelsAreGuarded == Spec => LabelsOpenedUnderGuard
<1> DEFINE Guarded(c) == /\ tombstone.status = "opened"
                         /\ ledger[tombstone.run].status = "started"
                         /\ LedgerAgrees(tombstone.run)
                         /\ c \notin checkpoints[tombstone.run]
<1>1. ASSUME Inv, [Next]_vars, NEW c \in Cells, opens'[c] # opens[c]
      PROVE  Guarded(c)
  <2>1. PICK p \in Procs, d \in Cells : EvaluateCell(p, d)
    BY <1>1, OpensFrame
  <2>2. d = c
    BY <1>1, <2>1 DEF EvaluateCell, Inv, TypeOK
  <2>3. pc[p] = "evaluate" /\ c \notin done[p]
    BY <2>1, <2>2 DEF EvaluateCell, At
  <2>4. InsideOf(p)
    BY <1>1 DEF Inv, Inside
  <2> QED
    BY <2>3, <2>4 DEF InsideOf, Scoring, LedgerAgrees
<1>2. Inv /\ [Next]_vars =>
        [\A c \in Cells : opens'[c] # opens[c] => Guarded(c)]_vars
  BY <1>1
<1> QED
  BY <1>2, Safety, PTL DEF Spec, LabelsOpenedUnderGuard

-----------------------------------------------------------------------------
(* The refinement. *)

LEMMA RunsOnDisk ==
  ASSUME Inv
  PROVE  /\ \A v \in Versions : output[v] # None => PublishedRun = v /\ tombstone.run = v
         /\ (\A v \in Versions : output[v] = None) => PublishedRun = None
         /\ PublishedRun # None => PublishedRun \in Versions /\ output[PublishedRun] # None
BY FinalAssumption DEF Inv, Records, FilesBound, PublishedRun

Scored == UNION {checkpoints[v] : v \in Versions}

LEMMA ScoredByRun ==
  ASSUME Inv, NEW v \in Versions, tombstone.run = v
  PROVE  Scored = checkpoints[v]
BY DEF Inv, Records, FilesBound, Scored

AbstractVars == <<OpenedRun, Scored, PublishedRun, reported # {}>>

(* Steps that leave the run, the scores, the artifacts and the reports. *)
LEMMA Stutters ==
  ASSUME tombstone'.run = tombstone.run, UNCHANGED <<checkpoints, output, reported>>
  PROVE  UNCHANGED AbstractVars
BY DEF AbstractVars, OpenedRun, Scored, PublishedRun

LEMMA OpenStep ==
  ASSUME Inv, Inv', NEW p \in Procs, WriteTombstone(p)
  PROVE  Promise!Open(version[p]) /\ version[p] \in Versions
<1>1. version[p] \in Versions /\ tombstone.run = None /\ tombstone'.run = version[p]
  BY DEF Inv, Exclusive, Inside, InsideOf, Records, RunNamed, WriteTombstone, At
<1>2. UNCHANGED <<checkpoints, output, reported>>
  BY DEF WriteTombstone
<1> QED
  BY <1>1, <1>2 DEF Promise!Open, OpenedRun, PublishedRun

LEMMA ScoreStep ==
  ASSUME Inv, Inv', NEW p \in Procs, NEW c \in Cells, c = cell[p], WriteCheckpoint(p)
  PROVE  Promise!Score(c)
<1> DEFINE v == version[p]
<1>1. /\ v \in Versions
      /\ tombstone.run = v /\ output[v] = None
  BY DEF Inv, Exclusive, Inside, InsideOf, Scoring, WriteCheckpoint, At
<1>2. /\ checkpoints' = [checkpoints EXCEPT ![v] = @ \cup {c}]
      /\ UNCHANGED <<tombstone, output, reported>>
  BY DEF WriteCheckpoint
<1>3. PublishedRun = None
  BY <1>1, RunsOnDisk
<1>4. PublishedRun' = PublishedRun
  BY <1>2 DEF PublishedRun
<1>5. checkpoints'[v] = checkpoints[v] \cup {c}
  BY <1>1, <1>2 DEF Inv, TypeOK
<1>6. Scored = checkpoints[v]
  BY <1>1, ScoredByRun
<1>7. Scored' = checkpoints'[v]
  BY <1>1, <1>2, FinalAssumption DEF Inv, Records, FilesBound, Scored
<1> QED
  BY <1>1, <1>2, <1>3, <1>4, <1>5, <1>6, <1>7, FinalAssumption
     DEF Promise!Score, OpenedRun, Scored

LEMMA PublishStep ==
  ASSUME Inv, Inv', NEW p \in Procs, PublishOutput(p), output[version[p]] = None
  PROVE  Promise!Publish
<1> DEFINE v == version[p]
<1>1. v \in Versions /\ tombstone.run = v /\ checkpoints[v] = Cells
  BY DEF Inv, Exclusive, Inside, InsideOf, Scoring, PublishOutput, At
<1>2. output' = [output EXCEPT ![v] = p] /\ UNCHANGED <<tombstone, checkpoints, reported>>
  BY DEF PublishOutput
<1>3. PublishedRun = None
  BY <1>1, RunsOnDisk
<1>4. output'[v] # None
  BY <1>1, <1>2, FinalAssumption DEF Inv, TypeOK
<1>5. PublishedRun' = v
  BY <1>1, <1>2, <1>4 DEF Inv, Records, FilesBound, PublishedRun
<1>6. Scored = Cells
  BY <1>1, ScoredByRun
<1> QED
  BY <1>1, <1>2, <1>3, <1>5, <1>6, FinalAssumption DEF Promise!Publish, OpenedRun, Scored

LEMMA ReportStep ==
  ASSUME Inv, NEW p \in Procs, Report(p)
  PROVE  Promise!Report
<1>1. version[p] \in Versions /\ tombstone.status = "published" /\ tombstone.run = version[p]
  BY DEF Inv, Exclusive, Inside, InsideOf, Report, At
<1>2. output[version[p]] # None
  BY <1>1 DEF Inv, Records, ClosedIsFull
<1>3. PublishedRun # None
  BY <1>1, <1>2, RunsOnDisk, FinalAssumption
<1>4. UNCHANGED <<tombstone, checkpoints, output>> /\ reported' # {}
  BY DEF Report, files
<1>5. PublishedRun' = PublishedRun /\ OpenedRun' = OpenedRun /\ Scored' = Scored
  BY <1>4 DEF PublishedRun, OpenedRun, Scored
<1> QED
  BY <1>3, <1>4, <1>5 DEF Promise!Report, Scored

LEMMA PromiseInit ==
  ASSUME Init
  PROVE  Promise!Init
BY DEF Init, Promise!Init, OpenedRun, PublishedRun

LEMMA PromiseStep ==
  ASSUME Inv, Inv', [Next]_vars
  PROVE  [Promise!Next]_(Promise!vars)
<1> SUFFICES Promise!Next \/ UNCHANGED AbstractVars
  BY DEF Promise!vars, AbstractVars, Scored
<1>1. CASE \E p \in Procs : WriteTombstone(p)
  BY <1>1, OpenStep DEF Promise!Next
<1>2. CASE \E p \in Procs : WriteCheckpoint(p)
  <2>1. PICK p \in Procs : WriteCheckpoint(p)
    BY <1>2
  <2>2. PICK c \in Cells : c = cell[p]
    BY <2>1 DEF WriteCheckpoint, At, Inv, Exclusive
  <2>3. Promise!Score(c)
    BY <2>1, <2>2, ScoreStep
  <2> QED
    BY <2>3 DEF Promise!Next
<1>3. CASE \E p \in Procs : PublishOutput(p) /\ output[version[p]] = None
  BY <1>3, PublishStep DEF Promise!Next
<1>4. CASE \E p \in Procs : Report(p)
  BY <1>4, ReportStep DEF Promise!Next
<1>5. ASSUME NEW p \in Procs, CloseTombstone(p)
      PROVE  UNCHANGED AbstractVars
  BY <1>5, Stutters DEF CloseTombstone, Fail, Leave, files
<1>6. ASSUME NEW p \in Procs, CreateTombstone(p)
      PROVE  UNCHANGED AbstractVars
  BY <1>6, Stutters DEF CreateTombstone, Inv, Records, RunNamed
<1>7. ASSUME NEW p \in Procs, PublishOutput(p), output[version[p]] # None
      PROVE  UNCHANGED AbstractVars
  BY <1>7, Stutters DEF PublishOutput, Fail, Leave, files
<1>8. CASE UNCHANGED <<tombstone, checkpoints, output, reported>>
  BY <1>8, Stutters
<1>9. \/ UNCHANGED <<tombstone, checkpoints, output, reported>>
      \/ \E p \in Procs : \/ WriteTombstone(p) \/ WriteCheckpoint(p)
                          \/ PublishOutput(p) \/ Report(p)
                          \/ CloseTombstone(p) \/ CreateTombstone(p)
  <2> DEFINE Quiet == UNCHANGED <<tombstone, checkpoints, output, reported>>
  <2>1. ASSUME NEW p \in Procs,
               CheckRelease(p) \/ AcceptExisting(p) \/ ResumeTombstone(p)
        PROVE  Quiet
    BY <2>1 DEF CheckRelease, AcceptExisting, ResumeTombstone, Fail, Leave, files
  <2>2. ASSUME NEW p \in Procs,
               \/ LoadLedger(p) \/ ScanCheckpoints(p)
               \/ \E c \in Cells : EvaluateCell(p, c)
        PROVE  Quiet
    BY <2>2 DEF LoadLedger, ScanCheckpoints, EvaluateCell, Fail, Leave, files
  <2>3. ASSUME NEW p \in Procs, WriteLedger(p) \/ CloseLedger(p) \/ Crash(p)
        PROVE  Quiet
    BY <2>3 DEF WriteLedger, CloseLedger, Crash, Fail, Leave, files
  <2>4. ASSUME \/ \E p \in Procs, v \in Versions : Invoke(p, v)
               \/ FreezeRelease \/ UNCHANGED vars
        PROVE  Quiet
    BY <2>4 DEF Invoke, FreezeRelease, vars, files
  <2> HIDE DEF Quiet
  <2>5. \/ Quiet
        \/ \E p \in Procs : \/ WriteTombstone(p) \/ WriteCheckpoint(p)
                            \/ PublishOutput(p) \/ Report(p)
                            \/ CloseTombstone(p) \/ CreateTombstone(p)
    BY <2>1, <2>2, <2>3, <2>4, Zenon DEF Next, Step
  <2> QED
    BY <2>5 DEF Quiet
<1> QED
  BY <1>1, <1>2, <1>3, <1>4, <1>5, <1>6, <1>7, <1>8, <1>9

(* Whatever processes, crashes and moved tags are involved, the files only  *)
(* ever go through the promise: opened by one version, scored cell by cell, *)
(* published once with every cell, and reported after that.                 *)
THEOREM ImplementsThePromise == Spec => ImplementsPromise
<1>1. Init => Promise!Init
  BY PromiseInit
<1>2. Inv /\ Inv' /\ [Next]_vars => [Promise!Next]_(Promise!vars)
  BY PromiseStep
<1> QED
  BY <1>1, <1>2, Safety, PTL DEF Spec, ImplementsPromise, Promise!Spec
=============================================================================
