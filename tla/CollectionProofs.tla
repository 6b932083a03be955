-------------------------- MODULE CollectionProofs --------------------------
(***************************************************************************)
(* For any number of replaying processes, versions and events: the store   *)
(* holds the beginning of one file, and only a replay's first event can be *)
(* refused.  For any runs, tasks and order of the members of an archive:   *)
(* evidence stays with its run and task, and only a run whose members do   *)
(* not come in one piece has a task yielded twice.  For any number of      *)
(* calls and tools of a log: a tool call ends as often as it should, and   *)
(* the validator refuses nothing but a tool result that comes too late.    *)
(* For any usage: what a reader states a task used is what the ledger of   *)
(* its calls adds up to.                                                   *)
(***************************************************************************)
EXTENDS Collection, InductionTheorems, SequenceTheorems, FiniteSetTheorems, TLAPS

-----------------------------------------------------------------------------
(* The event store.                                                        *)
(*                                                                         *)
(* Its claims do not follow from the check of one append: another process  *)
(* may commit between the check and the insert.  The strengthening names   *)
(* the one process that may be past its first event, the writer: the rows  *)
(* are exactly the events it has stored, in its version, so nobody else    *)
(* can insert (sequence number 0 is taken) and its own next number is free.*)

Running(p) == replay[p].at \in {"select", "insert"}

Writing(p) == Running(p) /\ replay[p].next > 0

RunningIsInFile ==
  \A p \in Replays :
    Running(p) => /\ replay[p].version \in Versions
                  /\ replay[p].next < lengthOf[replay[p].version]

(* The rows are the first n events of v, and whoever is writing writes     *)
(* event n of v.                                                           *)
Holds(v, n) ==
  /\ rows = FirstRows(v, n)
  /\ \A p \in Replays :
       Writing(p) => replay[p].next = n /\ replay[p].version = v

OneWriter == \A p, q \in Replays : Writing(p) /\ Writing(q) => p = q

StoreInv ==
  /\ StoreTypeOK
  /\ RunningIsInFile
  /\ \E v \in Versions : \E n \in 0..lengthOf[v] : Holds(v, n)
  /\ OneWriter
  /\ RefusedAtFirstEvent

-----------------------------------------------------------------------------
LEMMA StoreInitEstablishes == StoreInit => StoreInv
  <1> SUFFICES ASSUME StoreInit PROVE StoreInv
    OBVIOUS
  <1>1. StoreTypeOK
    BY DEF StoreInit, StoreTypeOK, Standing, Places, Row
  <1>2. \A p \in Replays : ~Running(p) /\ replay[p].at # "raised"
    BY DEF StoreInit, Running
  <1>3. PICK v \in Versions : TRUE
    BY StoreAssumption
  <1>4. 0 \in 0..lengthOf[v]
    <2>1. lengthOf[v] \in Nat
      BY <1>3, StoreAssumption DEF StoreInit
    <2> QED BY <2>1
  <1>5. Holds(v, 0)
    BY <1>2 DEF Holds, FirstRows, Writing, StoreInit
  <1> QED
    BY <1>1, <1>2, <1>3, <1>4, <1>5
    DEF StoreInv, RunningIsInFile, OneWriter, RefusedAtFirstEvent, Writing

(* A step that stores nothing and leaves the other replays alone keeps the *)
(* invariant if its own replay stays where it is, stops or starts anew.    *)
LEMMA QuietStep ==
  ASSUME StoreInv, NEW p \in Replays, UNCHANGED <<lengthOf, rows>>,
         NEW standing \in Standing,
         replay' = [replay EXCEPT ![p] = standing],
         standing.at \in {"select", "insert"} =>
           /\ standing.version \in Versions
           /\ standing.next < lengthOf[standing.version]
           /\ \/ standing.next = 0
              \/ /\ Running(p)
                 /\ standing.next = replay[p].next
                 /\ standing.version = replay[p].version,
         standing.at = "raised" => standing.next = 0
  PROVE  StoreInv'
  <1> USE DEF StoreInv
  <1>1. StoreTypeOK'
    BY DEF StoreTypeOK
  <1>2. /\ replay'[p] = standing
        /\ \A q \in Replays \ {p} : replay'[q] = replay[q]
    BY DEF StoreTypeOK
  <1>3. RunningIsInFile'
    BY <1>2 DEF RunningIsInFile, Running
  <1>4. \A q \in Replays :
          Writing(q)' => /\ Writing(q)
                         /\ replay'[q].next = replay[q].next
                         /\ replay'[q].version = replay[q].version
    <2> SUFFICES ASSUME NEW q \in Replays, Writing(q)'
                 PROVE  /\ Writing(q)
                        /\ replay'[q].next = replay[q].next
                        /\ replay'[q].version = replay[q].version
      OBVIOUS
    <2>1. CASE q # p
      BY <1>2, <2>1 DEF Writing, Running
    <2>2. CASE q = p
      BY <1>2, <2>2 DEF Writing, Running, Standing
    <2> QED BY <2>1, <2>2
  <1>5. PICK v \in Versions : \E k \in 0..lengthOf[v] : Holds(v, k)
    OBVIOUS
  <1>5n. PICK n \in 0..lengthOf[v] : Holds(v, n)
    BY <1>5
  <1>6. Holds(v, n)'
    BY <1>4, <1>5n DEF Holds, FirstRows
  <1>7. OneWriter'
    BY <1>4 DEF OneWriter
  <1>8. RefusedAtFirstEvent'
    BY <1>2 DEF RefusedAtFirstEvent
  <1> QED
    BY <1>1, <1>3, <1>5n, <1>6, <1>7, <1>8

(* The highest row of a file's beginning. *)
LEMMA RowsBelow ==
  ASSUME NEW v, NEW n \in Nat, rows = FirstRows(v, n)
  PROVE  /\ \A r \in rows : r.seq \in Nat /\ r.seq < n
         /\ n > 0 => Present(0)
         /\ ~Present(n)
  <1>1. \A r \in rows : r.seq \in Nat /\ r.seq < n
    BY DEF FirstRows
  <1>2. ASSUME n > 0 PROVE Present(0)
    <2>1. [seq |-> 0, version |-> v] \in rows
      BY <1>2 DEF FirstRows
    <2> QED BY <2>1 DEF Present
  <1>3. ~Present(n)
    BY <1>1 DEF Present
  <1> QED BY <1>1, <1>2, <1>3

(* A writer is never refused. *)
LEMMA WriterIsAdmitted ==
  ASSUME StoreInv, NEW p \in Replays, Writing(p)
  PROVE  /\ ~Present(replay[p].next)
         /\ ~\E r \in rows : replay[p].next <= r.seq
  <1>1. PICK v \in Versions : \E k \in 0..lengthOf[v] : Holds(v, k)
    BY DEF StoreInv
  <1>1n. PICK n \in 0..lengthOf[v] : Holds(v, n)
    BY <1>1
  <1>2. n \in Nat
    BY <1>1n DEF StoreInv, StoreTypeOK
  <1>3. rows = FirstRows(v, n) /\ replay[p].next = n
    BY <1>1n DEF Holds
  <1> QED
    BY <1>2, <1>3, RowsBelow

LEMMA InsertKeeps ==
  ASSUME StoreInv, NEW p \in Replays, replay[p].at = "insert",
         ~Present(replay[p].next), UNCHANGED lengthOf,
         rows' = rows \cup {[seq |-> replay[p].next, version |-> replay[p].version]},
         IF replay[p].next + 1 < lengthOf[replay[p].version]
         THEN replay' = [replay EXCEPT ![p].next = @ + 1, ![p].at = "select"]
         ELSE GoOn(p, "done")
  PROVE  StoreInv'
  <1>0. /\ replay[p].version \in Versions
        /\ replay[p].next \in Nat
        /\ lengthOf[replay[p].version] \in Nat
        /\ replay[p].next < lengthOf[replay[p].version]
    BY StoreAssumption DEF StoreInv, StoreTypeOK, RunningIsInFile, Running, Standing
  <1>1. PICK w \in Versions, m \in Nat :
          /\ w = replay[p].version
          /\ m = replay[p].next
          /\ lengthOf[w] \in Nat
          /\ m < lengthOf[w]
    BY <1>0
  <1>2. PICK v \in Versions : \E k \in 0..lengthOf[v] : Holds(v, k)
    BY DEF StoreInv
  <1>2n. PICK n \in 0..lengthOf[v] : Holds(v, n)
    BY <1>2
  <1>3. n \in Nat
    BY <1>2n DEF StoreInv, StoreTypeOK
  (* The rows so far are the first m events of w, and nobody else writes. *)
  <1>4. rows = FirstRows(w, m) /\ \A q \in Replays \ {p} : ~Writing(q)
    <2>1. CASE m > 0
      <3>1. Writing(p)
        BY <1>1, <2>1 DEF Writing, Running
      <3> QED
        BY <1>1, <1>2n, <3>1 DEF Holds, StoreInv, OneWriter
    <2>2. CASE m = 0
      <3>1. n = 0
        BY <1>1, <1>2n, <1>3, <2>2, RowsBelow DEF Holds
      <3>2. rows = {}
        BY <1>2n, <3>1 DEF Holds, FirstRows
      <3>3. FirstRows(w, m) = {}
        BY <2>2 DEF FirstRows
      <3>4. \A q \in Replays : ~Writing(q)
        BY <1>2n, <3>1 DEF Holds, Writing, StoreInv, StoreTypeOK, Standing
      <3> QED
        BY <3>2, <3>3, <3>4
    <2> QED
      BY <1>1, <2>1, <2>2
  <1>5. rows' = FirstRows(w, m + 1)
    <2>1. 0..((m + 1) - 1) = 0..(m - 1) \cup {m}
      BY <1>1
    <2> QED
      BY <1>1, <1>4, <2>1 DEF FirstRows
  <1>6. m + 1 \in 0..lengthOf[w]
    BY <1>1
  <1>7. \A q \in Replays \ {p} : replay'[q] = replay[q]
    BY DEF GoOn, StoreInv, StoreTypeOK
  <1>8. \/ /\ m + 1 < lengthOf[w]
           /\ replay'[p] = [replay[p] EXCEPT !.next = m + 1, !.at = "select"]
        \/ replay'[p] = [replay[p] EXCEPT !.at = "done"]
    BY <1>1 DEF GoOn, StoreInv, StoreTypeOK
  <1>9. StoreTypeOK'
    <2>1. [seq |-> m, version |-> w] \in Row
      BY <1>1 DEF Row
    <2>2. replay'[p] \in Standing
      BY <1>1, <1>8 DEF StoreInv, StoreTypeOK, Standing, Places
    <2>3. replay' \in [Replays -> Standing]
      BY <2>2, <1>7 DEF GoOn, StoreInv, StoreTypeOK
    <2>4. rows' \in SUBSET Row
      BY <1>1, <2>1 DEF StoreInv, StoreTypeOK
    <2>5. lengthOf' \in [Versions -> Lengths]
      BY DEF StoreInv, StoreTypeOK
    <2> QED
      BY <2>3, <2>4, <2>5 DEF StoreTypeOK
  <1>10. RunningIsInFile'
    BY <1>1, <1>7, <1>8 DEF StoreInv, StoreTypeOK, Standing, RunningIsInFile, Running
  <1>11. Holds(w, m + 1)'
    <2>1. ASSUME NEW q \in Replays, Writing(q)'
          PROVE  replay'[q].next = m + 1 /\ replay'[q].version = w
      <3>1. q = p
        BY <1>4, <1>7, <2>1 DEF Writing, Running
      <3> QED
        BY <1>1, <1>8, <2>1, <3>1 DEF Writing, Running, StoreInv, StoreTypeOK, Standing
    <2> QED
      BY <1>5, <2>1 DEF Holds, FirstRows
  <1>12. OneWriter'
    BY <1>4, <1>7 DEF OneWriter, Writing, Running
  <1>13. RefusedAtFirstEvent'
    BY <1>1, <1>7, <1>8 DEF RefusedAtFirstEvent, StoreInv, StoreTypeOK, Standing
  <1> QED
    BY <1>1, <1>6, <1>9, <1>10, <1>11, <1>12, <1>13 DEF StoreInv

-----------------------------------------------------------------------------
LEMMA StoreNextPreserves == StoreInv /\ [StoreNext]_storeVars => StoreInv'
  <1> SUFFICES ASSUME StoreInv, [StoreNext]_storeVars PROVE StoreInv'
    OBVIOUS
  <1>1. CASE UNCHANGED storeVars
    BY <1>1 DEF StoreInv, storeVars, StoreTypeOK, RunningIsInFile, Holds, FirstRows,
                OneWriter, Writing, Running, RefusedAtFirstEvent
  <1>2. ASSUME NEW p \in Replays, StoreStep(p) PROVE StoreInv'
    <2>0. /\ replay[p] \in Standing
          /\ replay \in [Replays -> Standing]
          /\ lengthOf \in [Versions -> Nat \ {0}]
      BY StoreAssumption DEF StoreInv, StoreTypeOK
    <2>1. ASSUME NEW v \in Versions, StartReplay(p, v) PROVE StoreInv'
      <3> DEFINE new == [at |-> "select", version |-> v, next |-> 0,
                         started |-> replay[p].started + 1]
      <3>1. new \in Standing /\ 0 < lengthOf[v]
        BY <2>0 DEF Standing, Places
      <3>2. replay' = [replay EXCEPT ![p] = new]
        BY <2>0, <2>1 DEF StartReplay
      <3> QED
        BY <2>1, <3>1, <3>2, QuietStep DEF StartReplay
    <2>2. ASSUME NEW place \in Places, GoOn(p, place), UNCHANGED <<lengthOf, rows>>,
                 place \in {"select", "insert"} => Running(p),
                 place = "raised" => replay[p].next = 0
          PROVE  StoreInv'
      <3> DEFINE new == [replay[p] EXCEPT !.at = place]
      <3>1. new \in Standing
        BY <2>0 DEF Standing
      <3>2. replay' = [replay EXCEPT ![p] = new]
        BY <2>0, <2>2 DEF GoOn
      <3>3. /\ new.at = place
            /\ new.next = replay[p].next
            /\ new.version = replay[p].version
        BY <2>0 DEF Standing
      <3>4. Running(p) => /\ replay[p].version \in Versions
                          /\ replay[p].next < lengthOf[replay[p].version]
        BY DEF StoreInv, RunningIsInFile
      <3> HIDE DEF new
      <3> QED
        BY <2>2, <3>1, <3>2, <3>3, <3>4, QuietStep
    <2>3. CASE SelectMax(p)
      <3>1. CASE \E r \in rows : replay[p].next <= r.seq
        <4>1. replay[p].next = 0
          BY <2>0, <2>3, <3>1, WriterIsAdmitted DEF SelectMax, Writing, Running, Standing
        <4>2. GoOn(p, "raised") /\ UNCHANGED <<lengthOf, rows>>
          BY <2>3, <3>1 DEF SelectMax, Refused
        <4> QED
          BY <2>2, <4>1, <4>2 DEF Places
      <3>2. CASE ~\E r \in rows : replay[p].next <= r.seq
        <4>1. Running(p) /\ GoOn(p, "insert") /\ UNCHANGED <<lengthOf, rows>>
          BY <2>3, <3>2 DEF SelectMax, Running
        <4> QED
          BY <2>2, <4>1 DEF Places
      <3> QED
        BY <3>1, <3>2
    <2>4. CASE InsertRow(p)
      <3>1. CASE Present(replay[p].next)
        <4>1. replay[p].next = 0
          BY <2>0, <2>4, <3>1, WriterIsAdmitted DEF InsertRow, Writing, Running, Standing
        <4>2. GoOn(p, "raised") /\ UNCHANGED <<lengthOf, rows>>
          BY <2>4, <3>1 DEF InsertRow, Refused
        <4> QED
          BY <2>2, <4>1, <4>2 DEF Places
      <3>2. CASE ~Present(replay[p].next)
        BY <2>4, <3>2, InsertKeeps DEF InsertRow
      <3> QED
        BY <3>1, <3>2
    <2>5. CASE StopReplay(p)
      BY <2>2, <2>5 DEF StopReplay, Places
    <2> QED
      BY <1>2, <2>1, <2>3, <2>4, <2>5 DEF StoreStep
  <1> QED
    BY <1>1, <1>2 DEF StoreNext

LEMMA StoreInvHolds == StoreSpec => []StoreInv
  <1>1. StoreInit => StoreInv
    BY StoreInitEstablishes
  <1>2. StoreInv /\ [StoreNext]_storeVars => StoreInv'
    BY StoreNextPreserves
  <1> QED
    BY <1>1, <1>2, PTL DEF StoreSpec

(* The store never mixes the versions or the processes of a trajectory:    *)
(* SQLiteEventStore.append under any number of concurrent replays.         *)
THEOREM StoreIsOneFile == StoreSpec => []StoreHoldsOneFile
  <1>1. StoreInv => StoreHoldsOneFile
    BY DEF StoreInv, StoreHoldsOneFile, Holds
  <1> QED
    BY <1>1, StoreInvHolds, PTL

(* Only the first event of a replay is ever refused, so an EventStoreError *)
(* never leaves a part of a trajectory behind.                             *)
THEOREM OnlyFirstIsRefused == StoreSpec => []RefusedAtFirstEvent
  <1>1. StoreInv => RefusedAtFirstEvent
    BY DEF StoreInv
  <1> QED
    BY <1>1, StoreInvHolds, PTL

-----------------------------------------------------------------------------
(* The OpenHands archive.                                                  *)
(*                                                                         *)
(* The strengthening follows every member from the moment it is handled:   *)
(* it is in the evidence of its run and task while that task is pending    *)
(* and in a trajectory from then on, never in both and never in two.       *)

(* The positions collected for task t, whether its group is closed or not. *)
Of(e, t) ==
  e.prepared[t] \cup (IF e.current = t THEN e.snapshots ELSE {})
                \cup ({e.reports[t], e.logs[t]} \ {0})

(* The members handled so far are the first Handled. *)
Handled == IF at \in {"handling", "yielding"} THEN Position - 1 ELSE Position

(* Task t of the active run may still be yielded. *)
Pending(t) ==
  \/ at \in {"reading", "handling"}
  \/ at \in {"yielding", "yielding_last"} /\ t \in todo

Live == at \in {"reading", "handling", "yielding", "yielding_last", "ended"}

Speaks(n, r, t) ==
  /\ n \in 1..Handled
  /\ members[n].run = r
  /\ t \in members[n].tasks

PhaseInv ==
  /\ at \in {"handling", "yielding"} => Position > 0
  /\ at = "yielding" => Member.run # evidence.run
  /\ at \in {"yielding", "yielding_last"} => evidence.current = NoRun
  /\ evidence.current = NoRun => evidence.snapshots = {}
  /\ at \in {"yielding", "yielding_last"} => evidence.run # NoRun
  /\ evidence.run = NoRun => yielded = << >>

EvidenceInv == \A t \in Tasks : \A n \in Of(evidence, t) : Speaks(n, evidence.run, t)

YieldedInv ==
  \A i \in DOMAIN yielded : \A n \in RestsOn(yielded[i]) :
    Speaks(n, yielded[i].run, yielded[i].task)

(* What is pending is in no trajectory. *)
FreshInv ==
  \A i \in DOMAIN yielded :
    Pending(yielded[i].task) =>
      RestsOn(yielded[i]) \cap Of(evidence, yielded[i].task) = {}

DistinctInv ==
  \A i, j \in DOMAIN yielded :
    i # j /\ yielded[i].task = yielded[j].task =>
      RestsOn(yielded[i]) \cap RestsOn(yielded[j]) = {}

(* What was handled is pending or in a trajectory. *)
NothingLostInv ==
  Live =>
    \A n \in 1..Handled : members[n].kind # "aggregate_report" =>
      \A t \in members[n].tasks :
        \/ \E i \in DOMAIN yielded : WentInto(n, t, i)
        \/ Pending(t) /\ members[n].run = evidence.run /\ n \in Of(evidence, t)

(* The active run's stretch has a member, and the runs yielded before it   *)
(* have members before that one.                                           *)
StretchInv ==
  Live /\ evidence.run # NoRun =>
    \E b \in DOMAIN members :
      /\ members[b].run = evidence.run
      /\ \A i \in DOMAIN yielded :
           yielded[i].run # evidence.run =>
             \E a \in 1..(b - 1) : members[a].run = yielded[i].run

(* A pending task that has been yielded was yielded for an earlier stretch.*)
RepeatInv ==
  \A i \in DOMAIN yielded :
    yielded[i].run = evidence.run /\ Pending(yielded[i].task) => Split(evidence.run)

ArchiveInv ==
  /\ ArchiveTypeOK
  /\ PhaseInv
  /\ EvidenceInv /\ YieldedInv /\ FreshInv /\ DistinctInv /\ NothingLostInv
  /\ StretchInv /\ RepeatInv /\ OnlySplitRunsRepeat

-----------------------------------------------------------------------------
LEMMA ArchiveInitEstablishes == ArchiveInit => ArchiveInv
  <1> SUFFICES ASSUME ArchiveInit PROVE ArchiveInv
    OBVIOUS
  <1>1. ArchiveTypeOK
    BY DEF ArchiveInit, ArchiveTypeOK, Evidence, Nothing
  <1>2. yielded = << >> /\ members = << >> /\ at = "reading" /\ Position = 0
    BY DEF ArchiveInit, Position
  <1>3. \A t \in Tasks : Of(evidence, t) = {}
    BY ArchiveAssumption DEF ArchiveInit, Nothing, Of
  <1>4. evidence.run = NoRun /\ evidence.current = NoRun /\ evidence.snapshots = {}
    BY DEF ArchiveInit, Nothing
  <1>5. DOMAIN yielded = {} /\ Handled = 0
    BY <1>2 DEF Handled
  <1> QED
    BY <1>1, <1>2, <1>3, <1>4, <1>5
    DEF ArchiveInv, PhaseInv, EvidenceInv, YieldedInv, FreshInv, DistinctInv, NothingLostInv,
        StretchInv, RepeatInv, OnlySplitRunsRepeat

(* What the type says of a member that was read. *)
LEMMA MemberTypes ==
  ASSUME ArchiveTypeOK
  PROVE  /\ Position \in Nat /\ DOMAIN members = 1..Position
         /\ \A n \in DOMAIN members :
              members[n].run \in Runs /\ members[n].tasks \subseteq Tasks
  <1>1. members \in Seq(Members)
    BY DEF ArchiveTypeOK
  <1>2. \A m \in Members : m.run \in Runs /\ m.tasks \subseteq Tasks
    BY DEF Members
  <1> QED
    BY <1>1, <1>2 DEF Position

LEMMA YieldTypes ==
  ASSUME ArchiveTypeOK, NEW i \in DOMAIN yielded
  PROVE  yielded[i].run \in Runs /\ yielded[i].task \in Tasks
  <1> DEFINE T == [ run : Runs, task : Tasks, calls : SUBSET Nat, report : Nat, log : Nat ]
  <1>1. yielded \in Seq(T)
    BY DEF ArchiveTypeOK
  <1>2. \A y \in T : y.run \in Runs /\ y.task \in Tasks
    OBVIOUS
  <1> HIDE DEF T
  <1> QED BY <1>1, <1>2

(* Closing a group of completions moves them, and nothing is lost. *)
LEMMA ClosingKeeps ==
  ASSUME ArchiveTypeOK, Closable(evidence)
  PROVE  /\ \A t \in Tasks : Of(Closed(evidence), t) = Of(evidence, t)
         /\ Closed(evidence).run = evidence.run
         /\ Closed(evidence).current = NoRun
         /\ evidence.current # NoRun => Closed(evidence).snapshots = {}
         /\ evidence.current = NoRun => Closed(evidence) = evidence
         /\ Closed(evidence).reports = evidence.reports
         /\ Closed(evidence).logs = evidence.logs
         /\ Closed(evidence) \in Evidence
  <1>1. CASE evidence.current = NoRun
    BY <1>1 DEF Closed, ArchiveTypeOK
  <1>2. CASE evidence.current # NoRun
    <2> DEFINE c == evidence.current
    <2>1. c \in Tasks /\ evidence.prepared[c] = {}
      BY <1>2 DEF ArchiveTypeOK, Evidence, Closable
    <2>2. Closed(evidence) = [evidence EXCEPT !.prepared[c] = evidence.snapshots,
                                              !.current = NoRun, !.snapshots = {}]
      BY <1>2 DEF Closed
    <2>3. /\ Closed(evidence).prepared = [evidence.prepared EXCEPT ![c] = evidence.snapshots]
          /\ Closed(evidence).current = NoRun
          /\ Closed(evidence).snapshots = {}
          /\ Closed(evidence).run = evidence.run
          /\ Closed(evidence).reports = evidence.reports
          /\ Closed(evidence).logs = evidence.logs
      BY <2>2 DEF ArchiveTypeOK, Evidence
    <2>4. ASSUME NEW t \in Tasks PROVE Of(Closed(evidence), t) = Of(evidence, t)
      <3>1. t # NoRun
        BY ArchiveAssumption
      <3>2. CASE t = c
        <4>1. Closed(evidence).prepared[t] = evidence.snapshots
          BY <2>1, <2>3, <3>2 DEF ArchiveTypeOK, Evidence
        <4> QED BY <2>1, <2>3, <3>1, <3>2, <4>1 DEF Of
      <3>3. CASE t # c
        <4>1. Closed(evidence).prepared[t] = evidence.prepared[t]
          BY <2>1, <2>3, <3>3 DEF ArchiveTypeOK, Evidence
        <4> QED BY <2>3, <3>1, <3>3, <4>1 DEF Of
      <3> QED BY <3>2, <3>3
    <2>5. Closed(evidence) \in Evidence
      <3>1. [evidence.prepared EXCEPT ![c] = evidence.snapshots] \in [Tasks -> SUBSET Nat]
        BY <2>1 DEF ArchiveTypeOK, Evidence
      <3>2. Closed(evidence) =
              [ run |-> evidence.run,
                prepared |-> [evidence.prepared EXCEPT ![c] = evidence.snapshots],
                reports |-> evidence.reports, logs |-> evidence.logs,
                aggregate |-> evidence.aggregate, current |-> NoRun, snapshots |-> {} ]
        BY <2>2 DEF ArchiveTypeOK, Evidence
      <3> QED BY <3>1, <3>2 DEF ArchiveTypeOK, Evidence
    <2> QED BY <1>2, <2>3, <2>4, <2>5
  <1> QED BY <1>1, <1>2

(* A member of the active run is handled: it joins the evidence of the     *)
(* tasks it speaks of, and nothing else changes.                           *)
LEMMA TakeStep ==
  ASSUME ArchiveInv, Takes(Member.kind),
         evidence' \in Evidence, evidence'.run = evidence.run,
         evidence'.current = NoRun => evidence'.snapshots = {},
         \A t \in Tasks :
           /\ Of(evidence, t) \subseteq Of(evidence', t)
           /\ Of(evidence', t) \subseteq Of(evidence, t) \cup {Position}
           /\ Position \in Of(evidence', t) /\ Position \notin Of(evidence, t) =>
                t \in Member.tasks,
         Member.kind # "aggregate_report" =>
           \A t \in Member.tasks : Position \in Of(evidence', t)
  PROVE  ArchiveInv'
  <1> USE DEF ArchiveInv
  <1>1. /\ at = "handling" /\ at' = "reading" /\ Member.run = evidence.run
        /\ UNCHANGED <<limit, members, todo, yielded>>
    BY DEF Takes
  <1>2. ArchiveTypeOK'
    BY <1>1 DEF ArchiveTypeOK
  <1>3. /\ Position \in Nat \ {0} /\ Position' = Position
        /\ Handled = Position - 1 /\ Handled' = Position
    BY <1>1, MemberTypes DEF PhaseInv, Handled, Position
  <1>4. \A n, r, t : Speaks(n, r, t) => Speaks(n, r, t)'
    BY <1>1, <1>3 DEF Speaks
  <1>5. \A t : Pending(t) /\ Pending(t)'
    BY <1>1 DEF Pending
  <1>6. \A i \in DOMAIN yielded : \A n \in RestsOn(yielded[i]) : n # Position
    BY <1>3 DEF YieldedInv, Speaks
  <1>7. \A i \in DOMAIN yielded : yielded[i].task \in Tasks
    BY YieldTypes
  <1>8. PhaseInv'
    BY <1>1 DEF PhaseInv
  <1>9. EvidenceInv'
    <2> SUFFICES ASSUME NEW t \in Tasks, NEW n \in Of(evidence', t)
                 PROVE  Speaks(n, evidence.run, t)'
      BY DEF EvidenceInv
    <2>1. CASE n \in Of(evidence, t)
      BY <2>1, <1>4 DEF EvidenceInv
    <2>2. CASE n \notin Of(evidence, t)
      <3>1. n = Position /\ t \in Member.tasks
        BY <2>2
      <3> QED BY <3>1, <1>1, <1>3 DEF Speaks, Member
    <2> QED BY <2>1, <2>2
  <1>10. YieldedInv'
    BY <1>1, <1>4 DEF YieldedInv
  <1>11. FreshInv'
    BY <1>1, <1>5, <1>6, <1>7 DEF FreshInv
  <1>12. NothingLostInv'
    <2> SUFFICES ASSUME NEW n \in 1..Position, members[n].kind # "aggregate_report",
                        NEW t \in members[n].tasks
                 PROVE  \/ \E i \in DOMAIN yielded : WentInto(n, t, i)
                        \/ members[n].run = evidence.run /\ n \in Of(evidence', t)
      BY <1>1, <1>3, <1>5 DEF NothingLostInv, WentInto
    <2>1. t \in Tasks
      BY MemberTypes
    <2>2. CASE n = Position
      BY <2>2, <1>1 DEF Member
    <2>3. CASE n # Position
      <3>1. n \in 1..Handled
        BY <2>3, <1>3
      <3> QED BY <3>1, <2>1, <1>1 DEF NothingLostInv, Live
    <2> QED BY <2>2, <2>3
  <1>13. StretchInv'
    BY <1>1 DEF StretchInv, Live
  <1>14. RepeatInv' /\ DistinctInv' /\ OnlySplitRunsRepeat'
    BY <1>1, <1>5 DEF RepeatInv, DistinctInv, OnlySplitRunsRepeat, Split
  <1> QED
    BY <1>2, <1>8, <1>9, <1>10, <1>11, <1>12, <1>13, <1>14

LEMMA TakeReportStep ==
  ASSUME ArchiveInv, NEW t \in Tasks, TakeReport(t)
  PROVE  ArchiveInv'
  <1> DEFINE e == evidence'
  <1>1. Takes(Member.kind) /\ Member.kind = "report" /\ Member.tasks = {t}
    BY DEF TakeReport, Takes
  <1>2. ArchiveTypeOK /\ Position \in Nat \ {0}
    BY MemberTypes DEF ArchiveInv, PhaseInv, Takes, TakeReport
  <1>3. /\ e \in Evidence /\ e.run = evidence.run /\ e.prepared = evidence.prepared
        /\ e.current = evidence.current /\ e.snapshots = evidence.snapshots
        /\ e.logs = evidence.logs
        /\ e.reports = [evidence.reports EXCEPT ![t] = Position]
    BY <1>2 DEF TakeReport, ArchiveTypeOK, Evidence
  <1>4. ASSUME NEW u \in Tasks
        PROVE  e.reports[u] = IF u = t THEN Position ELSE evidence.reports[u]
    BY <1>2, <1>3 DEF ArchiveTypeOK, Evidence
  <1>5. \A u \in Tasks : Of(e, u) = Of(evidence, u) \cup (IF u = t THEN {Position} ELSE {})
    BY <1>2, <1>3, <1>4 DEF Of, TakeReport
  <1> HIDE DEF e
  <1> QED
    BY <1>1, <1>3, <1>5, TakeStep DEF ArchiveInv, PhaseInv, e

LEMMA TakeAggregateReportStep ==
  ASSUME ArchiveInv, TakeAggregateReport
  PROVE  ArchiveInv'
  <1> DEFINE e == evidence'
             c == Closed(evidence)
  <1>1. ArchiveTypeOK /\ Closable(evidence) /\ Takes(Member.kind)
        /\ Member.kind = "aggregate_report" /\ Member \in Members
    BY DEF ArchiveInv, PhaseInv, TakeAggregateReport, Takes, Member, Position, ArchiveTypeOK
  <1>2. /\ c \in Evidence /\ c.run = evidence.run /\ c.current = NoRun
        /\ c.snapshots = {} /\ \A t \in Tasks : Of(c, t) = Of(evidence, t)
    BY <1>1, ClosingKeeps DEF ArchiveInv, PhaseInv
  <1>3. e = [c EXCEPT !.aggregate = {Member.tasks}]
    BY DEF TakeAggregateReport
  <1>4. Member.tasks \subseteq Tasks
    BY <1>1 DEF Members
  <1> HIDE DEF c
  <1>5. /\ e \in Evidence /\ e.run = c.run /\ e.prepared = c.prepared
        /\ e.current = c.current /\ e.snapshots = c.snapshots
        /\ e.reports = c.reports /\ e.logs = c.logs
    BY <1>2, <1>3, <1>4 DEF Evidence
  <1>6. \A t \in Tasks : Of(e, t) = Of(evidence, t)
    BY <1>2, <1>5 DEF Of
  <1> HIDE DEF e
  <1> QED
    BY <1>1, <1>2, <1>5, <1>6, TakeStep DEF e

LEMMA TakeTaskLogStep ==
  ASSUME ArchiveInv, TakeTaskLog
  PROVE  ArchiveInv'
  <1> DEFINE e == evidence'
             c == Closed(evidence)
  <1>1. ArchiveTypeOK /\ Closable(evidence) /\ Takes(Member.kind)
        /\ Member.kind = "task_log" /\ Position \in Nat \ {0}
        /\ Logged(evidence) = {}
    BY MemberTypes DEF ArchiveInv, PhaseInv, TakeTaskLog, Takes
  <1>2. /\ c \in Evidence /\ c.run = evidence.run /\ c.current = NoRun
        /\ c.snapshots = {} /\ \A t \in Tasks : Of(c, t) = Of(evidence, t)
        /\ c.logs = evidence.logs
    BY <1>1, ClosingKeeps DEF ArchiveInv, PhaseInv
  <1>3. e = [c EXCEPT !.logs = [t \in Tasks |-> IF t \in Member.tasks THEN Position ELSE 0]]
    BY DEF TakeTaskLog
  <1>4. \A t \in Tasks : c.logs[t] = 0
    BY <1>1, <1>2 DEF Logged
  <1> HIDE DEF c
  <1>5. /\ e \in Evidence /\ e.run = c.run /\ e.prepared = c.prepared
        /\ e.current = c.current /\ e.snapshots = c.snapshots
        /\ e.reports = c.reports
        /\ e.logs = [t \in Tasks |-> IF t \in Member.tasks THEN Position ELSE 0]
    BY <1>1, <1>2, <1>3 DEF Evidence
  <1> HIDE DEF e
  <1>6. \A t \in Tasks : Of(e, t) = Of(evidence, t)
                              \cup (IF t \in Member.tasks THEN {Position} ELSE {})
    <2> SUFFICES ASSUME NEW t \in Tasks
                 PROVE  Of(e, t) = Of(c, t)
                              \cup (IF t \in Member.tasks THEN {Position} ELSE {})
      BY <1>2
    <2>1. e.logs[t] = IF t \in Member.tasks THEN Position ELSE 0
      BY <1>5
    <2> QED BY <1>1, <1>4, <1>5, <2>1 DEF Of
  <1>7. Member.tasks \subseteq Tasks
    <2>1. Member \in Members
      BY <1>1 DEF Member, Position, ArchiveTypeOK
    <2> QED BY <2>1 DEF Members
  <1> QED
    BY <1>1, <1>2, <1>5, <1>6, <1>7, TakeStep DEF e

LEMMA TakeCompletionStep ==
  ASSUME ArchiveInv, NEW t \in Tasks, TakeCompletion(t)
  PROVE  ArchiveInv'
  <1> DEFINE e == evidence'
             c == IF evidence.current \in {NoRun, t} THEN evidence ELSE Closed(evidence)
  <1>1. ArchiveTypeOK /\ Takes(Member.kind) /\ Member.kind = "completion"
        /\ Member.tasks = {t} /\ Position \in Nat \ {0}
    BY MemberTypes DEF ArchiveInv, PhaseInv, TakeCompletion, Takes
  <1>2. /\ c \in Evidence /\ c.run = evidence.run /\ c.current \in {NoRun, t}
        /\ c.current = NoRun => c.snapshots = {}
        /\ \A u \in Tasks : Of(c, u) = Of(evidence, u)
    <2>1. CASE evidence.current \in {NoRun, t}
      BY <2>1, <1>1 DEF ArchiveInv, PhaseInv, ArchiveTypeOK
    <2>2. CASE evidence.current \notin {NoRun, t}
      <3>1. Closable(evidence)
        BY <2>2 DEF TakeCompletion
      <3> QED BY <3>1, <2>2, <1>1, ClosingKeeps
    <2> QED BY <2>1, <2>2
  <1>3. e = [c EXCEPT !.current = t, !.snapshots = @ \cup {Position}] /\ c.prepared[t] = {}
    BY DEF TakeCompletion
  <1> HIDE DEF c
  <1>4. /\ e \in Evidence /\ e.run = c.run /\ e.prepared = c.prepared
        /\ e.current = t /\ e.snapshots = c.snapshots \cup {Position}
        /\ e.reports = c.reports /\ e.logs = c.logs
    BY <1>1, <1>2, <1>3 DEF Evidence
  <1> HIDE DEF e
  <1>5. t # NoRun
    BY ArchiveAssumption
  <1>6. \A u \in Tasks : Of(e, u) = Of(evidence, u) \cup (IF u = t THEN {Position} ELSE {})
    <2> SUFFICES ASSUME NEW u \in Tasks
                 PROVE  Of(e, u) = Of(c, u) \cup (IF u = t THEN {Position} ELSE {})
      BY <1>2
    <2>1. u # NoRun
      BY ArchiveAssumption
    <2>2. CASE u = t
      <3>1. Of(e, t) = Of(c, t) \cup {Position}
        <4>1. Of(e, t) = (c.snapshots \cup {Position}) \cup ({c.reports[t], c.logs[t]} \ {0})
          BY <1>3, <1>4 DEF Of
        <4>2. Of(c, t) = c.snapshots \cup ({c.reports[t], c.logs[t]} \ {0})
          BY <1>2, <1>3, <1>5 DEF Of
        <4> QED BY <4>1, <4>2
      <3> QED BY <2>2, <3>1
    <2>3. CASE u # t
      <3>1. Of(e, u) = c.prepared[u] \cup ({c.reports[u], c.logs[u]} \ {0})
        BY <1>4, <2>3 DEF Of
      <3>2. Of(c, u) = c.prepared[u] \cup ({c.reports[u], c.logs[u]} \ {0})
        BY <1>2, <2>1, <2>3 DEF Of
      <3> QED BY <2>3, <3>1, <3>2
    <2> QED BY <2>2, <2>3
  <1> QED
    BY <1>1, <1>2, <1>4, <1>5, <1>6, TakeStep DEF e

-----------------------------------------------------------------------------
(* What was handled keeps speaking of its tasks while the archive is read. *)
LEMMA SpeaksOn ==
  ASSUME ArchiveTypeOK, Handled \in Nat, Handled' \in Nat, Handled <= Handled',
         Handled <= Position,
         UNCHANGED members \/ \E m : members' = Append(members, m)
  PROVE  \A n, r, t : Speaks(n, r, t) => Speaks(n, r, t)'
  <1> SUFFICES ASSUME NEW n, NEW r, NEW t, Speaks(n, r, t)
               PROVE  Speaks(n, r, t)'
    OBVIOUS
  <1>1. n \in 1..Handled' /\ n \in 1..Len(members)
    BY DEF Speaks, Position
  <1>2. members'[n] = members[n]
    BY <1>1, SMTT(30) DEF ArchiveTypeOK
  <1> QED BY <1>1, <1>2 DEF Speaks

LEMMA ReadMemberStep ==
  ASSUME ArchiveInv, NEW m \in Members, ReadMember(m)
  PROVE  ArchiveInv'
  <1> USE DEF ArchiveInv
  <1>1. /\ at = "reading" /\ at' = "handling" /\ members' = Append(members, m)
        /\ UNCHANGED <<limit, evidence, todo, yielded>>
    BY DEF ReadMember
  <1>2. ArchiveTypeOK'
    BY <1>1 DEF ArchiveTypeOK
  <1>3. Position \in Nat /\ Position' = Position + 1 /\ Handled = Position
        /\ Handled' = Position /\ DOMAIN members = 1..Position
        /\ DOMAIN members' = 1..(Position + 1)
    BY <1>1 DEF ArchiveTypeOK, Position, Handled
  <1>4. \A n \in 1..Position : members'[n] = members[n]
    BY <1>1, <1>3 DEF ArchiveTypeOK, Position
  <1>5. \A n, r, t : Speaks(n, r, t) => Speaks(n, r, t)'
    BY <1>1, <1>3, SpeaksOn
  <1>6. \A t : Pending(t) /\ Pending(t)'
    BY <1>1 DEF Pending
  <1>7. PhaseInv'
    BY <1>1, <1>3 DEF PhaseInv
  <1>8. EvidenceInv' /\ YieldedInv' /\ FreshInv' /\ DistinctInv'
    BY <1>1, <1>5, <1>6 DEF EvidenceInv, YieldedInv, FreshInv, DistinctInv
  <1>9. NothingLostInv'
    BY <1>1, <1>3, <1>4, <1>6 DEF NothingLostInv, Live, WentInto
  <1>10. StretchInv'
    <2> SUFFICES ASSUME evidence.run # NoRun PROVE StretchInv'
      BY <1>1 DEF StretchInv
    <2>1. PICK b \in 1..Position :
            /\ members[b].run = evidence.run
            /\ \A i \in DOMAIN yielded :
                 yielded[i].run # evidence.run =>
                   \E a \in 1..(b - 1) : members[a].run = yielded[i].run
      BY <1>1, <1>3 DEF StretchInv, Live
    <2>2. b \in DOMAIN members' /\ members'[b].run = evidence.run
      BY <1>3, <1>4, <2>1
    <2>3. \A a \in 1..(b - 1) : members'[a] = members[a]
      BY <1>3, <1>4
    <2> QED BY <1>1, <2>1, <2>2, <2>3 DEF StretchInv
  <1>11. \A r : Split(r) => Split(r)'
    <2> SUFFICES ASSUME NEW r, Split(r) PROVE Split(r)'
      OBVIOUS
    <2>1. PICK i, j, k \in 1..Position :
            i < j /\ j < k /\ members[i].run = r /\ members[j].run # r /\ members[k].run = r
      BY <1>3 DEF Split
    <2>2. /\ i \in DOMAIN members' /\ j \in DOMAIN members' /\ k \in DOMAIN members'
          /\ members'[i].run = r /\ members'[j].run # r /\ members'[k].run = r
      BY <1>3, <1>4, <2>1
    <2> QED BY <2>1, <2>2 DEF Split
  <1>12. RepeatInv' /\ OnlySplitRunsRepeat'
    BY <1>1, <1>6, <1>11 DEF RepeatInv, OnlySplitRunsRepeat
  <1> QED
    BY <1>2, <1>7, <1>8, <1>9, <1>10, <1>12

LEMMA NothingHeld ==
  ASSUME NEW r, NEW t \in Tasks
  PROVE  Of(Nothing(r), t) = {}
  <1>1. t # NoRun
    BY ArchiveAssumption
  <1> QED BY <1>1 DEF Of, Nothing

LEMMA NothingTyped ==
  ASSUME NEW r \in Runs
  PROVE  Nothing(r) \in Evidence /\ Nothing(r).run = r /\ Nothing(r).current = NoRun
         /\ Nothing(r).snapshots = {}
  BY DEF Nothing, Evidence

LEMMA EnterRunStep ==
  ASSUME ArchiveInv, EnterRun
  PROVE  ArchiveInv'
  <1> USE DEF ArchiveInv
  <1>1. /\ at = "handling" /\ evidence.run = NoRun /\ evidence' = Nothing(Member.run)
        /\ UNCHANGED <<limit, members, at, todo, yielded>>
    BY DEF EnterRun
  <1>2. /\ Position \in Nat \ {0} /\ Position' = Position /\ Position \in DOMAIN members
        /\ Handled = Position - 1 /\ Handled' = Position - 1 /\ Member.run \in Runs
        /\ yielded = << >>
    BY <1>1, MemberTypes DEF PhaseInv, Handled, Position, Member
  <1>3. evidence' \in Evidence /\ evidence'.run = Member.run /\ evidence'.current = NoRun
        /\ evidence'.snapshots = {} /\ \A t \in Tasks : Of(evidence', t) = {}
    BY <1>1, <1>2, NothingHeld, NothingTyped
  <1>4. ArchiveTypeOK'
    BY <1>1, <1>3 DEF ArchiveTypeOK
  <1>5. PhaseInv'
    BY <1>1, <1>2, <1>3 DEF PhaseInv
  <1>6. EvidenceInv' /\ YieldedInv' /\ FreshInv' /\ DistinctInv'
        /\ RepeatInv' /\ OnlySplitRunsRepeat'
    BY <1>1, <1>2, <1>3
    DEF EvidenceInv, YieldedInv, FreshInv, DistinctInv, RepeatInv, OnlySplitRunsRepeat
  <1>7. NothingLostInv'
    <2> SUFFICES ASSUME NEW n \in 1..Handled, members[n].kind # "aggregate_report",
                        NEW t \in members[n].tasks
                 PROVE  FALSE
      BY <1>1, <1>2 DEF NothingLostInv, Live
    <2>1. members[n].run = NoRun
      BY <1>1, <1>2 DEF NothingLostInv, Live
    <2>2. members[n].run \in Runs
      BY <1>2, MemberTypes
    <2> QED BY <2>1, <2>2, ArchiveAssumption
  <1>8. StretchInv'
    BY <1>1, <1>2, <1>3 DEF StretchInv, Member
  <1> QED BY <1>4, <1>5, <1>6, <1>7, <1>8

(* _finalize_run puts every task there is evidence of on the list. *)
LEMMA FinalizeStep ==
  ASSUME ArchiveInv, NEW next \in {"yielding", "yielding_last"}, Finalize(next),
         at \in {"reading", "handling"}, evidence.run # NoRun,
         next = "yielding" => at = "handling" /\ Member.run # evidence.run,
         next = "yielding_last" => at = "reading"
  PROVE  ArchiveInv'
  <1> USE DEF ArchiveInv
  <1> DEFINE e == Closed(evidence)
  <1>1. /\ evidence' = e /\ todo' = TaskIds(e) /\ at' = next /\ Consistent(e)
        /\ Closable(evidence) /\ UNCHANGED <<limit, members, yielded>>
    BY DEF Finalize
  <1>2. /\ e \in Evidence /\ e.run = evidence.run /\ e.current = NoRun
        /\ e.snapshots = {} /\ \A t \in Tasks : Of(e, t) = Of(evidence, t)
    BY <1>1, ClosingKeeps DEF PhaseInv
  <1>3. \A t \in Tasks : Of(e, t) # {} => t \in todo'
    <2> SUFFICES ASSUME NEW t \in Tasks, Of(e, t) # {} PROVE t \in TaskIds(e)
      BY <1>1
    <2>1. t \in Prepared(e) \cup Reported(e) \cup Logged(e)
      <3> HIDE DEF e
      <3>1. t # NoRun
        BY ArchiveAssumption
      <3> QED BY <1>2, <3>1 DEF Of, Prepared, Reported, Logged
    <2> QED BY <1>1, <2>1 DEF Consistent, TaskIds
  <1>4. todo' \subseteq Tasks
    BY <1>1 DEF TaskIds, Prepared, Logged
  <1> HIDE DEF e
  <1>5. Position' = Position /\ Handled' = Handled /\ Position \in Nat
    BY <1>1, MemberTypes DEF Position, Handled
  <1>6. ArchiveTypeOK'
    BY <1>1, <1>2, <1>4 DEF ArchiveTypeOK
  <1>7. \A t : Pending(t) /\ (Pending(t)' <=> t \in todo')
    BY <1>1 DEF Pending
  <1>8. PhaseInv'
    BY <1>1, <1>2, <1>5 DEF PhaseInv, Member
  <1>9. \A n, r, t : Speaks(n, r, t) => Speaks(n, r, t)'
    BY <1>1, <1>5 DEF Speaks
  <1>10. EvidenceInv' /\ YieldedInv' /\ DistinctInv' /\ OnlySplitRunsRepeat'
    BY <1>1, <1>2, <1>9 DEF EvidenceInv, YieldedInv, DistinctInv, OnlySplitRunsRepeat, Split
  <1>11. FreshInv'
    BY <1>1, <1>2, <1>7, YieldTypes DEF FreshInv
  <1>12. NothingLostInv'
    <2> SUFFICES ASSUME NEW n \in 1..Handled, members[n].kind # "aggregate_report",
                        NEW t \in members[n].tasks
                 PROVE  \/ \E i \in DOMAIN yielded : WentInto(n, t, i)
                        \/ t \in todo' /\ members[n].run = e.run /\ n \in Of(e, t)
      BY <1>1, <1>5, <1>7 DEF NothingLostInv, WentInto
    <2>1. n \in DOMAIN members /\ t \in Tasks
      BY MemberTypes DEF Handled
    <2>2. \/ \E i \in DOMAIN yielded : WentInto(n, t, i)
          \/ members[n].run = evidence.run /\ n \in Of(evidence, t)
      BY DEF NothingLostInv, Live
    <2> QED BY <1>2, <1>3, <2>1, <2>2
  <1>13. StretchInv' /\ RepeatInv'
    BY <1>1, <1>2, <1>7 DEF StretchInv, RepeatInv, Live, Split
  <1> QED BY <1>6, <1>8, <1>10, <1>11, <1>12, <1>13

LEMMA YieldTaskStep ==
  ASSUME ArchiveInv, NEW t \in Tasks, YieldTask(t)
  PROVE  ArchiveInv'
  <1> USE DEF ArchiveInv
  <1> DEFINE y == [ run |-> evidence.run, task |-> t, calls |-> evidence.prepared[t],
                    report |-> evidence.reports[t], log |-> evidence.logs[t] ]
             k == Len(yielded) + 1
  <1>1. /\ at \in {"yielding", "yielding_last"} /\ t \in todo /\ todo' = todo \ {t}
        /\ yielded' = Append(yielded, y) /\ at' \in {at, "limited"}
        /\ UNCHANGED <<limit, members, evidence>>
    BY DEF YieldTask, YieldsNext
  <1>2. /\ evidence \in Evidence /\ evidence.run \in Runs /\ evidence.current = NoRun
        /\ evidence.run # NoRun
    BY <1>1 DEF PhaseInv, ArchiveTypeOK, Evidence
  <1>3. RestsOn(y) = Of(evidence, t)
    <2>1. t # NoRun
      BY ArchiveAssumption
    <2> QED BY <1>2, <2>1 DEF RestsOn, Of
  <1>4. y \in [ run : Runs, task : Tasks, calls : SUBSET Nat, report : Nat, log : Nat ]
    BY <1>2 DEF Evidence
  <1>5. y.run = evidence.run /\ y.task = t
    OBVIOUS
  <1> HIDE DEF y
  <1>6. ArchiveTypeOK'
    BY <1>1, <1>4 DEF ArchiveTypeOK
  <1>7. /\ DOMAIN yielded = 1..Len(yielded) /\ Len(yielded) \in Nat
        /\ DOMAIN yielded' = DOMAIN yielded \cup {k} /\ k \notin DOMAIN yielded
        /\ yielded'[k] = y /\ \A i \in DOMAIN yielded : yielded'[i] = yielded[i]
    BY <1>1 DEF ArchiveTypeOK
  <1> HIDE DEF k
  <1>8. /\ Position \in Nat /\ Position' = Position /\ Handled \in Nat
        /\ Handled' \in Nat /\ Handled <= Handled' /\ Handled <= Position
        /\ at' = at => Handled' = Handled
    BY <1>1, MemberTypes DEF Position, Handled, PhaseInv
  <1>9. \A n, r, u : Speaks(n, r, u) => Speaks(n, r, u)'
    BY <1>1, <1>8, SpeaksOn
  <1>10. \A u : (Pending(u)' => Pending(u) /\ u # t)
                 /\ (at' = at /\ Pending(u) /\ u # t => Pending(u)')
    BY <1>1 DEF Pending
  <1>11. Pending(t)
    BY <1>1 DEF Pending
  <1>12. PhaseInv'
    BY <1>1, <1>2, <1>8 DEF PhaseInv, Member
  <1>13. EvidenceInv'
    BY <1>1, <1>9 DEF EvidenceInv
  <1>14. YieldedInv'
    BY <1>1, <1>3, <1>5, <1>7, <1>9 DEF YieldedInv, EvidenceInv
  <1>15. FreshInv'
    BY <1>1, <1>5, <1>7, <1>10 DEF FreshInv
  <1>16. DistinctInv'
    BY <1>1, <1>3, <1>5, <1>7, <1>11 DEF DistinctInv, FreshInv
  <1>17. NothingLostInv'
    <2> SUFFICES ASSUME at' = at, Live,
                        NEW n \in 1..Handled, members[n].kind # "aggregate_report",
                        NEW u \in members[n].tasks
                 PROVE  \/ \E i \in DOMAIN yielded' : WentInto(n, u, i)'
                        \/ /\ Pending(u)' /\ members[n].run = evidence.run
                           /\ n \in Of(evidence, u)
      BY <1>1, <1>8 DEF NothingLostInv, Live
    <2>1. CASE \E i \in DOMAIN yielded : WentInto(n, u, i)
      BY <2>1, <1>1, <1>7 DEF WentInto
    <2>2. CASE Pending(u) /\ members[n].run = evidence.run /\ n \in Of(evidence, u)
      <3>1. CASE u = t
        BY <2>2, <3>1, <1>1, <1>3, <1>5, <1>7 DEF WentInto
      <3>2. CASE u # t
        BY <2>2, <3>2, <1>10
      <3> QED BY <3>1, <3>2
    <2> QED BY <2>1, <2>2 DEF NothingLostInv
  <1>18. StretchInv'
    BY <1>1, <1>2, <1>5, <1>7 DEF StretchInv, Live
  <1>19. RepeatInv'
    BY <1>1, <1>5, <1>7, <1>10 DEF RepeatInv, Split
  <1>20. OnlySplitRunsRepeat'
    BY <1>1, <1>5, <1>7, <1>11 DEF RepeatInv, OnlySplitRunsRepeat, Split
  <1> QED
    BY <1>6, <1>12, <1>13, <1>14, <1>15, <1>16, <1>17, <1>18, <1>19, <1>20

(* The new run's stretch begins behind a member of every run yielded before.*)
LEMMA SwitchRunStep ==
  ASSUME ArchiveInv, SwitchRun
  PROVE  ArchiveInv'
  <1> USE DEF ArchiveInv
  <1>1. /\ at = "yielding" /\ at' = "handling" /\ todo = {}
        /\ evidence' = Nothing(Member.run)
        /\ UNCHANGED <<limit, members, todo, yielded>>
    BY DEF SwitchRun
  <1>2. /\ Position \in Nat \ {0} /\ Position' = Position /\ DOMAIN members = 1..Position
        /\ Handled = Position - 1 /\ Handled' = Position - 1 /\ Member.run \in Runs
        /\ Member.run # evidence.run /\ evidence.run # NoRun /\ Member' = Member
    BY <1>1, MemberTypes DEF PhaseInv, Handled, Position, Member
  <1>3. evidence' \in Evidence /\ evidence'.run = Member.run /\ evidence'.current = NoRun
        /\ evidence'.snapshots = {} /\ \A t \in Tasks : Of(evidence', t) = {}
    BY <1>1, <1>2, NothingHeld, NothingTyped
  <1>4. ArchiveTypeOK'
    BY <1>1, <1>3 DEF ArchiveTypeOK
  <1>5. PhaseInv'
    BY <1>1, <1>2, <1>3, ArchiveAssumption DEF PhaseInv
  <1>6. EvidenceInv' /\ YieldedInv' /\ DistinctInv' /\ OnlySplitRunsRepeat'
    BY <1>1, <1>2, <1>3
    DEF EvidenceInv, YieldedInv, DistinctInv, OnlySplitRunsRepeat, Speaks, Split
  <1>7. FreshInv'
    BY <1>1, <1>3, YieldTypes DEF FreshInv
  <1>8. NothingLostInv'
    BY <1>1, <1>2 DEF NothingLostInv, Live, Pending, WentInto
  <1>9. PICK b \in 1..Position :
          /\ members[b].run = evidence.run
          /\ \A i \in DOMAIN yielded :
               yielded[i].run # evidence.run =>
                 \E a \in 1..(b - 1) : members[a].run = yielded[i].run
    BY <1>1, <1>2 DEF StretchInv, Live
  <1>10. b < Position
    BY <1>2, <1>9 DEF Member
  <1>11. StretchInv'
    <2>1. \A i \in DOMAIN yielded : \E a \in 1..(Position - 1) : members[a].run = yielded[i].run
      BY <1>2, <1>9, <1>10
    <2> QED BY <1>1, <1>2, <1>3, <2>1 DEF StretchInv, Member
  <1>12. RepeatInv'
    <2> SUFFICES ASSUME NEW i \in DOMAIN yielded, yielded[i].run = Member.run
                 PROVE  Split(Member.run)
      BY <1>1, <1>2, <1>3 DEF RepeatInv, Split
    <2>1. PICK a \in 1..(b - 1) : members[a].run = Member.run
      BY <1>2, <1>9
    <2>2. a \in 1..Position /\ a < b /\ b < Position /\ Position \in 1..Position
      BY <1>2, <1>9, <1>10, <2>1
    <2> QED BY <1>2, <1>9, <2>1, <2>2 DEF Split, Member
  <1> QED
    BY <1>4, <1>5, <1>6, <1>7, <1>8, <1>11, <1>12

(* The pass is over: nothing is pending any more. *)
LEMMA StopStep ==
  ASSUME ArchiveInv, EndArchive \/ RaiseArchiveError
  PROVE  ArchiveInv'
  <1> USE DEF ArchiveInv
  <1>1. /\ at' \in {"ended", "raised"}
        /\ at' = "ended" => at = "yielding_last" /\ todo = {}
        /\ UNCHANGED <<limit, members, evidence, todo, yielded>>
    BY DEF EndArchive, RaiseArchiveError
  <1>2. /\ Position \in Nat /\ Position' = Position /\ Handled \in Nat /\ Handled' = Position
        /\ Handled <= Position /\ (at' = "ended" => Handled = Position)
    <2>1. Position \in Nat /\ Position' = Position
      BY <1>1, MemberTypes DEF Position
    <2>2. Handled' = Position
      BY <1>1, <2>1 DEF Handled
    <2>3. Handled \in Nat /\ Handled <= Position /\ (at' = "ended" => Handled = Position)
      BY <1>1, <2>1 DEF Handled, PhaseInv
    <2> QED BY <2>1, <2>2, <2>3
  <1>3. ArchiveTypeOK' /\ PhaseInv'
    BY <1>1 DEF ArchiveTypeOK, PhaseInv
  <1>4. \A n, r, t : Speaks(n, r, t) => Speaks(n, r, t)'
    BY <1>1, <1>2, SpeaksOn
  <1>5. \A t : ~Pending(t)'
    BY <1>1 DEF Pending
  <1>6. /\ EvidenceInv' /\ YieldedInv' /\ FreshInv' /\ DistinctInv'
        /\ RepeatInv' /\ OnlySplitRunsRepeat'
    BY <1>1, <1>4, <1>5
    DEF EvidenceInv, YieldedInv, FreshInv, DistinctInv, RepeatInv, OnlySplitRunsRepeat, Split
  <1>7. NothingLostInv'
    BY <1>1, <1>2 DEF NothingLostInv, Live, Pending, WentInto
  <1>8. StretchInv'
    BY <1>1 DEF StretchInv, Live
  <1> QED BY <1>3, <1>6, <1>7, <1>8

LEMMA ArchiveStepPreserves == ArchiveInv /\ [ArchiveNext]_archiveVars => ArchiveInv'
  <1> SUFFICES ASSUME ArchiveInv, [ArchiveNext]_archiveVars PROVE ArchiveInv'
    OBVIOUS
  <1>1. CASE \E m \in Members : ReadMember(m)
    BY <1>1, ReadMemberStep
  <1>2. CASE EnterRun
    BY <1>2, EnterRunStep
  <1>3. CASE LeaveRun
    <2>1. at = "handling" /\ evidence.run # NoRun /\ Member.run # evidence.run
          /\ Finalize("yielding")
      BY <1>3 DEF LeaveRun
    <2> QED BY <2>1, FinalizeStep
  <1>4. CASE LeaveLastRun
    <2>1. at = "reading" /\ evidence.run # NoRun /\ Finalize("yielding_last")
      BY <1>4 DEF LeaveLastRun
    <2> QED BY <2>1, FinalizeStep
  <1>5. CASE SwitchRun
    BY <1>5, SwitchRunStep
  <1>6. CASE EndArchive \/ RaiseArchiveError
    BY <1>6, StopStep
  <1>7. CASE \E t \in Tasks : YieldTask(t)
    BY <1>7, YieldTaskStep
  <1>8. CASE \E t \in Tasks : TakeReport(t)
    BY <1>8, TakeReportStep
  <1>9. CASE \E t \in Tasks : TakeCompletion(t)
    BY <1>9, TakeCompletionStep
  <1>10. CASE TakeAggregateReport
    BY <1>10, TakeAggregateReportStep
  <1>11. CASE TakeTaskLog
    BY <1>11, TakeTaskLogStep
  <1>12. CASE UNCHANGED archiveVars
    BY <1>12
    DEF archiveVars, ArchiveInv, ArchiveTypeOK, PhaseInv, EvidenceInv, YieldedInv, FreshInv,
        DistinctInv, NothingLostInv, StretchInv, RepeatInv, OnlySplitRunsRepeat, Speaks,
        Pending, Handled, Position, Member, Live, WentInto, Split
  <1> QED
    BY <1>1, <1>2, <1>3, <1>4, <1>5, <1>6, <1>7, <1>8, <1>9, <1>10, <1>11, <1>12
    DEF ArchiveNext

LEMMA ArchiveInvHolds == ArchiveSpec => []ArchiveInv
  BY ArchiveInitEstablishes, ArchiveStepPreserves, PTL DEF ArchiveSpec

(* The reader's state has its type (OpenHandsArchiveReader.iter_archive).  *)
THEOREM ArchiveTyped == ArchiveSpec => []ArchiveTypeOK
  <1>1. ArchiveInv => ArchiveTypeOK
    BY DEF ArchiveInv
  <1> QED BY <1>1, ArchiveInvHolds, PTL

(* What the claim about evidence needs of the invariant.                   *)
LEMMA EvidenceIsKept == ArchiveInv => EvidenceStaysWithItsTask
  <1> SUFFICES ASSUME ArchiveInv PROVE EvidenceStaysWithItsTask
    OBVIOUS
  <1>1. Position \in Nat /\ DOMAIN members = 1..Position
    BY MemberTypes DEF ArchiveInv
  <1>2. Handled \in 0..Position /\ (at = "ended" => Handled = Position)
    BY <1>1 DEF Handled, ArchiveInv, PhaseInv
  <1>3. at = "ended" => \A t : ~Pending(t)
    BY DEF Pending
  <1>4. \A i \in DOMAIN yielded : \A n \in RestsOn(yielded[i]) :
          /\ n \in DOMAIN members
          /\ members[n].run = yielded[i].run
          /\ yielded[i].task \in members[n].tasks
    BY <1>1, <1>2 DEF ArchiveInv, YieldedInv, Speaks
  <1>5. at = "ended" =>
          \A n \in DOMAIN members : members[n].kind # "aggregate_report" =>
            \A t \in members[n].tasks : \E i \in DOMAIN yielded : WentInto(n, t, i)
    BY <1>1, <1>2, <1>3 DEF ArchiveInv, NothingLostInv, Live
  <1> QED BY <1>4, <1>5 DEF EvidenceStaysWithItsTask, ArchiveInv, DistinctInv

(* Whatever the order of an archive's members, a trajectory rests on       *)
(* members of its own run and task, no two trajectories of a task rest on  *)
(* the same member, and nothing collected is lost when the archive is read *)
(* to its end (iter_archive, _finalize_run).                               *)
THEOREM EvidenceStays == ArchiveSpec => []EvidenceStaysWithItsTask
  BY EvidenceIsKept, ArchiveInvHolds, PTL

(* Only a run whose members do not come in one piece has a task yielded    *)
(* twice, for the tables of a run live as long as its stretch of the       *)
(* archive (reset_run_state between two runs).                             *)
THEOREM OnlySplitRepeats == ArchiveSpec => []OnlySplitRunsRepeat
  <1>1. ArchiveInv => OnlySplitRunsRepeat
    BY DEF ArchiveInv
  <1> QED BY <1>1, ArchiveInvHolds, PTL

-----------------------------------------------------------------------------
(* The composition.                                                        *)
(*                                                                         *)
(* The claims carry over to a collection as a whole, where the files'      *)
(* lengths are fixed only when the collected file is written and where the *)
(* archive may be dropped halfway, with the task that is followed.  Until  *)
(* the file is written nothing replays (BeforeReplays), so writing it      *)
(* cannot move the end of a file under a running replay.                   *)

StoreIsUntouched ==
  /\ rows = {}
  /\ \A p \in Replays : replay[p].at = "idle"

BeforeReplays == reading # "dropped" => StoreIsUntouched

ArchiveIsDropped == at = "limited" /\ members = << >> /\ yielded = << >>

CollectionInv ==
  /\ StoreInv
  /\ BeforeReplays
  /\ ArchiveInv \/ ArchiveIsDropped

LEMMA CollectionInitEstablishes == Init => CollectionInv
  <1> SUFFICES ASSUME Init PROVE CollectionInv
    OBVIOUS
  <1>1. StoreInit /\ ArchiveInit
    BY DEF Init
  <1>2. StoreInv /\ ArchiveInv
    BY <1>1, StoreInitEstablishes, ArchiveInitEstablishes
  <1>3. BeforeReplays
    BY <1>1 DEF BeforeReplays, StoreIsUntouched, StoreInit
  <1> QED BY <1>2, <1>3 DEF CollectionInv

(* A reader works on a log that is being read, and the validator on one    *)
(* that is being validated: neither is left to do when the file is there.  *)
LEMMA ReaderIsReading ==
  /\ SwebenchStep \/ SokobanStep \/ OpenHandsStep => reading = "reading"
  /\ Validate => reading = "validating"
  <1>1. SwebenchStep => reading = "reading"
    BY DEF SwebenchStep, ConsumeAssistant, ConsumeInterruption, ConsumeTool, ConsumeExit,
           RejectSwebench
  <1>2. SokobanStep => reading = "reading"
    BY DEF SokobanStep, ReadTurn, FinishRollout, RejectSokoban
  <1>3. OpenHandsStep => reading = "reading"
    BY DEF OpenHandsStep, ReadCompletion, ReadLoggedCompletion, EndOpenHandsTask, FinishTask,
           RejectOpenHands
  <1>4. Validate => reading = "validating"
    BY DEF Validate
  <1> QED BY <1>1, <1>2, <1>3, <1>4

(* The archive's part of the invariant says nothing of the other tables.   *)
LEMMA ArchiveUntouched ==
  ASSUME ArchiveInv \/ ArchiveIsDropped, UNCHANGED archiveVars
  PROVE  (ArchiveInv \/ ArchiveIsDropped)'
  <1>1. CASE ArchiveInv
    BY <1>1, ArchiveStepPreserves
  <1>2. CASE ArchiveIsDropped
    BY <1>2 DEF ArchiveIsDropped, archiveVars
  <1> QED BY <1>1, <1>2

(* A step of a reader or of the validator.                                 *)
LEMMA StoreUntouched ==
  ASSUME StoreInv, BeforeReplays, UNCHANGED storeVars, reading # "dropped"
  PROVE  StoreInv' /\ BeforeReplays'
  <1>1. StoreInv'
    BY StoreNextPreserves
  <1>2. BeforeReplays'
    BY DEF BeforeReplays, StoreIsUntouched, storeVars
  <1> QED BY <1>1, <1>2

LEMMA WriteFileStep ==
  ASSUME StoreInv, BeforeReplays, WriteFile
  PROVE  StoreInv' /\ BeforeReplays'
  <1>1. /\ reading = "accepted" /\ reading' = "dropped"
        /\ lengthOf' \in [Versions -> Lengths]
        /\ rows' = rows /\ replay' = replay
    BY DEF WriteFile
  <1>2. rows = {} /\ \A p \in Replays : replay[p].at = "idle"
    BY <1>1 DEF BeforeReplays, StoreIsUntouched
  <1>3. StoreTypeOK'
    BY <1>1 DEF StoreInv, StoreTypeOK
  <1>4. \A p \in Replays : ~Running(p)' /\ replay'[p].at # "raised"
    BY <1>1, <1>2 DEF Running
  <1>5. PICK v \in Versions : TRUE
    BY StoreAssumption
  <1>6. 0 \in 0..lengthOf'[v]
    <2>1. lengthOf'[v] \in Nat
      BY <1>1, <1>5, StoreAssumption
    <2> QED BY <2>1
  <1>7. Holds(v, 0)'
    BY <1>1, <1>2, <1>4 DEF Holds, FirstRows, Writing
  <1>8. StoreInv'
    BY <1>3, <1>4, <1>5, <1>6, <1>7
    DEF StoreInv, RunningIsInFile, OneWriter, RefusedAtFirstEvent, Writing
  <1> QED BY <1>1, <1>8 DEF BeforeReplays

LEMMA CollectionNextPreserves == CollectionInv /\ [Next]_vars => CollectionInv'
  <1> SUFFICES ASSUME CollectionInv, [Next]_vars PROVE CollectionInv'
    OBVIOUS
  <1> USE DEF CollectionInv
  <1>1. CASE ReadSwebench \/ ReadSokoban \/ ReadOpenHands
    <2>1. /\ SwebenchStep \/ SokobanStep \/ OpenHandsStep
          /\ UNCHANGED storeVars /\ UNCHANGED archiveVars
      BY <1>1 DEF ReadSwebench, ReadSokoban, ReadOpenHands
    <2> QED BY <2>1, ReaderIsReading, StoreUntouched, ArchiveUntouched
  <1>2. CASE ReadArchive
    <2>1. reading = "reading" /\ ArchiveNext /\ UNCHANGED storeVars
      BY <1>2 DEF ReadArchive
    <2>2. ~ArchiveIsDropped
      <3>1. at # "limited"
        BY <2>1
        DEF ArchiveNext, ReadMember, EnterRun, LeaveRun, LeaveLastRun, SwitchRun, EndArchive,
            YieldTask, YieldsNext, TakeReport, TakeCompletion, TakeAggregateReport,
            TakeTaskLog, Takes, RaiseArchiveError
      <3> QED BY <3>1 DEF ArchiveIsDropped
    <2>3. ArchiveInv'
      BY <2>1, <2>2, ArchiveStepPreserves
    <2> QED BY <2>1, <2>3, StoreUntouched
  <1>3. CASE \E t \in Tasks : FollowTask(t)
    <2>1. /\ reading = "reading" /\ UNCHANGED storeVars
          /\ members' = << >> /\ at' = "limited" /\ yielded' = << >>
      BY <1>3 DEF FollowTask
    <2> QED BY <2>1, StoreUntouched DEF ArchiveIsDropped
  <1>4. CASE ValidateEvent
    <2>1. Validate /\ UNCHANGED storeVars /\ UNCHANGED archiveVars
      BY <1>4 DEF ValidateEvent, readerVars
    <2> QED BY <2>1, ReaderIsReading, StoreUntouched, ArchiveUntouched
  <1>5. CASE WriteFile
    <2>1. UNCHANGED archiveVars
      BY <1>5 DEF WriteFile
    <2> QED BY <1>5, <2>1, WriteFileStep, ArchiveUntouched
  <1>6. CASE Replay
    <2>1. /\ reading = "dropped" /\ reading' = reading /\ StoreNext
          /\ UNCHANGED archiveVars
      BY <1>6 DEF Replay, readerVars, logVars
    <2>2. StoreInv'
      BY <2>1, StoreNextPreserves
    <2> QED BY <2>1, <2>2, ArchiveUntouched DEF BeforeReplays
  <1>7. CASE UNCHANGED vars
    <2>1. UNCHANGED storeVars /\ UNCHANGED archiveVars /\ reading' = reading
      BY <1>7 DEF vars, readerVars, logVars
    <2>2. StoreInv'
      BY <2>1, StoreNextPreserves
    <2> QED BY <2>1, <2>2, ArchiveUntouched DEF BeforeReplays, StoreIsUntouched, storeVars
  <1> QED BY <1>1, <1>2, <1>3, <1>4, <1>5, <1>6, <1>7 DEF Next

LEMMA CollectionInvHolds == Spec => []CollectionInv
  BY CollectionInitEstablishes, CollectionNextPreserves, PTL DEF Spec

(* In a collection as a whole the store holds the beginning of one file,   *)
(* whatever was read, however long the files are and whoever replays them  *)
(* (SQLiteEventStore.append, ReplayTrajectorySource.collect).              *)
THEOREM CollectedStoreIsOneFile == Spec => []StoreHoldsOneFile
  <1>1. CollectionInv => StoreHoldsOneFile
    BY DEF CollectionInv, StoreInv, StoreHoldsOneFile, Holds
  <1> QED BY <1>1, CollectionInvHolds, PTL

(* In a collection as a whole only the first event of a replay is ever     *)
(* refused by the store.                                                   *)
THEOREM CollectedOnlyFirstIsRefused == Spec => []RefusedAtFirstEvent
  <1>1. CollectionInv => RefusedAtFirstEvent
    BY DEF CollectionInv, StoreInv
  <1> QED BY <1>1, CollectionInvHolds, PTL

(* In a collection as a whole evidence stays with its run and task, also   *)
(* when one task is followed and the rest of the archive is dropped.       *)
THEOREM CollectedEvidenceStays == Spec => []EvidenceStaysWithItsTask
  <1>1. ArchiveIsDropped => EvidenceStaysWithItsTask
    BY DEF ArchiveIsDropped, EvidenceStaysWithItsTask
  <1>2. CollectionInv => EvidenceStaysWithItsTask
    BY <1>1, EvidenceIsKept DEF CollectionInv
  <1> QED BY <1>2, CollectionInvHolds, PTL

(* In a collection as a whole only a run whose members do not come in one  *)
(* piece has a task yielded twice.                                         *)
THEOREM CollectedOnlySplitRepeats == Spec => []OnlySplitRunsRepeat
  <1>1. ArchiveIsDropped => OnlySplitRunsRepeat
    BY DEF ArchiveIsDropped, OnlySplitRunsRepeat
  <1>2. CollectionInv => OnlySplitRunsRepeat
    BY <1>1 DEF CollectionInv, ArchiveInv
  <1> QED BY <1>2, CollectionInvHolds, PTL

-----------------------------------------------------------------------------
(* The tool results of a log.                                              *)
(*                                                                         *)
(* How often a tool call has been answered is followed event by event: not *)
(* at all or exactly once, and which of the two decides the reader's own   *)
(* tables.  The events come in pieces of a few, so what a piece answers    *)
(* (OneResult, ResultsAnswerOnce, OtherEvents) and what a concatenation of *)
(* two answers (AnswersOfConcat) are lemmas.                               *)

IsSeq(s) == \E n \in Nat : s = [i \in 1..n |-> s[i]]

(* Event i of s ends the tool under call c, or under any call if c is      *)
(* None.                                                                   *)
Answers(s, i, tool, c) ==
  /\ i \in DOMAIN s
  /\ IsToolResult(s[i])
  /\ s[i].tool = tool
  /\ c \in {None, s[i].call}

Unanswered(s, tool, c) == \A i : ~Answers(s, i, tool, c)

AnsweredOnce(s, tool, c) ==
  \E i : Answers(s, i, tool, c) /\ \A j : Answers(s, j, tool, c) => j = i

-----------------------------------------------------------------------------
(* A function on 1..n is a sequence of its own elements, which is what the *)
(* library's theorems about sequences ask for.                             *)
LEMMA SeqOfItsElements ==
  ASSUME NEW s, IsSeq(s)
  PROVE  s \in Seq({s[i] : i \in DOMAIN s}) /\ Len(s) \in Nat /\ DOMAIN s = 1..Len(s)
  <1>1. PICK n \in Nat : s = [i \in 1..n |-> s[i]]
    BY DEF IsSeq
  <1>2. DOMAIN s = 1..n
    BY <1>1
  <1>3. s \in Seq({s[i] : i \in DOMAIN s})
    BY <1>1, <1>2
  <1> QED BY <1>3, LenProperties

(* An event of s \o t is one of s or, that many places on, one of t.       *)
LEMMA ConcatParts ==
  ASSUME NEW s, NEW t, IsSeq(s), IsSeq(t)
  PROVE  /\ IsSeq(s \o t)
         /\ \A i \in DOMAIN s : i \in DOMAIN (s \o t) /\ (s \o t)[i] = s[i]
         /\ \A i \in DOMAIN t : Len(s) + i \in DOMAIN (s \o t) /\ (s \o t)[Len(s) + i] = t[i]
         /\ \A i \in DOMAIN (s \o t) : i \in DOMAIN s \/ i - Len(s) \in DOMAIN t
         /\ Len(s) \in Nat /\ DOMAIN s \subseteq Nat /\ DOMAIN t \subseteq Nat
  <1> DEFINE S == {s[i] : i \in DOMAIN s} \cup {t[i] : i \in DOMAIN t}
  <1>1. /\ s \in Seq({s[i] : i \in DOMAIN s}) /\ Len(s) \in Nat /\ DOMAIN s = 1..Len(s)
        /\ t \in Seq({t[i] : i \in DOMAIN t}) /\ Len(t) \in Nat /\ DOMAIN t = 1..Len(t)
    BY SeqOfItsElements
  <1>2. s \in Seq(S) /\ t \in Seq(S)
    BY <1>1
  <1>3. /\ s \o t \in Seq(S)
        /\ Len(s \o t) = Len(s) + Len(t)
        /\ \A i \in 1..Len(s) + Len(t) :
             (s \o t)[i] = IF i <= Len(s) THEN s[i] ELSE t[i - Len(s)]
    <2> HIDE DEF S
    <2> QED BY <1>2, ConcatProperties
  <1>4. DOMAIN (s \o t) = 1..Len(s) + Len(t)
    <2> HIDE DEF S
    <2> QED BY <1>3, LenProperties
  <1>5. IsSeq(s \o t)
    <2>1. Len(s) + Len(t) \in Nat
      BY <1>1
    <2>2. s \o t = [i \in 1..Len(s \o t) |-> (s \o t)[i]]
      <3> HIDE DEF S
      <3> QED BY <1>3, LenProperties
    <2> QED BY <1>3, <2>1, <2>2 DEF IsSeq
  <1>6. \A i \in DOMAIN s : i \in DOMAIN (s \o t) /\ (s \o t)[i] = s[i]
    BY <1>1, <1>3, <1>4
  <1>7. \A i \in DOMAIN t :
          Len(s) + i \in DOMAIN (s \o t) /\ (s \o t)[Len(s) + i] = t[i]
    <2> SUFFICES ASSUME NEW i \in 1..Len(t)
                 PROVE  Len(s) + i \in DOMAIN (s \o t) /\ (s \o t)[Len(s) + i] = t[i]
      BY <1>1
    <2>1. /\ Len(s) + i \in 1..Len(s) + Len(t) /\ ~(Len(s) + i <= Len(s))
          /\ (Len(s) + i) - Len(s) = i
      BY <1>1
    <2> QED BY <1>3, <1>4, <2>1
  <1>8. \A i \in DOMAIN (s \o t) : i \in DOMAIN s \/ i - Len(s) \in DOMAIN t
    BY <1>1, <1>4
  <1> QED BY <1>1, <1>5, <1>6, <1>7, <1>8

(* Appending events answers a tool call where the new events do.           *)
LEMMA AnswersOfConcat ==
  ASSUME NEW s, NEW t, IsSeq(s), IsSeq(t), NEW tool, NEW c
  PROVE  /\ Unanswered(s, tool, c) /\ Unanswered(t, tool, c) => Unanswered(s \o t, tool, c)
         /\ AnsweredOnce(s, tool, c) /\ Unanswered(t, tool, c) => AnsweredOnce(s \o t, tool, c)
         /\ Unanswered(s, tool, c) /\ AnsweredOnce(t, tool, c) => AnsweredOnce(s \o t, tool, c)
  <1>0. PICK u, n : u = s \o t /\ n = Len(s)
    OBVIOUS
  <1>1. /\ \A i \in DOMAIN s : i \in DOMAIN u /\ u[i] = s[i]
        /\ \A i \in DOMAIN t : n + i \in DOMAIN u /\ u[n + i] = t[i]
        /\ \A i \in DOMAIN u : i \in DOMAIN s \/ i - n \in DOMAIN t
        /\ n \in Nat /\ DOMAIN s \subseteq Nat /\ DOMAIN t \subseteq Nat
        /\ IsSeq(u)
    BY <1>0, ConcatParts
  <1>1d. DOMAIN u \subseteq Nat
    BY <1>1 DEF IsSeq
  <1>2. \A i : Answers(u, i, tool, c) <=>
               Answers(s, i, tool, c) \/ (i \in DOMAIN u /\ Answers(t, i - n, tool, c))
    <2> SUFFICES ASSUME NEW i \in DOMAIN u
                 PROVE  Answers(u, i, tool, c) <=>
                        Answers(s, i, tool, c) \/ Answers(t, i - n, tool, c)
      BY <1>1 DEF Answers
    <2>1. i \in DOMAIN s => u[i] = s[i]
      BY <1>1
    <2>2. i - n \in DOMAIN t => u[i] = t[i - n]
      <3>1. n + (i - n) = i
        BY <1>1, <1>1d
      <3> QED BY <1>1, <3>1
    <2> QED BY <1>1, <2>1, <2>2 DEF Answers
  <1>3. \A i : Answers(t, i, tool, c) => /\ Answers(u, n + i, tool, c)
    BY <1>1 DEF Answers
  <1>4. ASSUME Unanswered(s, tool, c), Unanswered(t, tool, c) PROVE Unanswered(u, tool, c)
    BY <1>2, <1>4 DEF Unanswered
  <1>5. ASSUME AnsweredOnce(s, tool, c), Unanswered(t, tool, c) PROVE AnsweredOnce(u, tool, c)
    <2>1. PICK i : Answers(s, i, tool, c) /\ \A j : Answers(s, j, tool, c) => j = i
      BY <1>5 DEF AnsweredOnce
    <2>2. Answers(u, i, tool, c) /\ \A j : Answers(u, j, tool, c) => j = i
      BY <1>2, <1>5, <2>1 DEF Unanswered
    <2> QED BY <2>2 DEF AnsweredOnce
  <1>6. ASSUME Unanswered(s, tool, c), AnsweredOnce(t, tool, c) PROVE AnsweredOnce(u, tool, c)
    <2>1. PICK i : Answers(t, i, tool, c) /\ \A j : Answers(t, j, tool, c) => j = i
      BY <1>6 DEF AnsweredOnce
    <2>2. Answers(u, n + i, tool, c)
      BY <1>3, <2>1
    <2>3. \A j : Answers(u, j, tool, c) => j = n + i
      <3> SUFFICES ASSUME NEW j, Answers(u, j, tool, c) PROVE j = n + i
        OBVIOUS
      <3>1. j \in DOMAIN u /\ Answers(t, j - n, tool, c)
        BY <1>2, <1>6 DEF Unanswered
      <3>2. j - n = i
        BY <2>1, <3>1
      <3> QED BY <1>1, <1>1d, <3>1, <3>2
    <2> QED BY <2>2, <2>3 DEF AnsweredOnce
  <1> QED BY <1>0, <1>4, <1>5, <1>6

LEMMA SmallSequences ==
  /\ IsSeq(<< >>)
  /\ \A x : IsSeq(<<x>>)
  /\ \A x, y, z : IsSeq(<<x, y, z>>)
  <1>1. IsSeq(<< >>)
    <2>1. << >> = [i \in 1..0 |-> << >>[i]]
      OBVIOUS
    <2> QED BY <2>1 DEF IsSeq
  <1>2. ASSUME NEW x PROVE IsSeq(<<x>>)
    <2>1. <<x>> = [i \in 1..1 |-> <<x>>[i]]
      OBVIOUS
    <2> QED BY <2>1 DEF IsSeq
  <1>3. ASSUME NEW x, NEW y, NEW z PROVE IsSeq(<<x, y, z>>)
    <2>1. <<x, y, z>> = [i \in 1..3 |-> <<x, y, z>>[i]]
      OBVIOUS
    <2> QED BY <2>1 DEF IsSeq
  <1> QED BY <1>1, <1>2, <1>3

(* The events of a call and of an end are no tool results.                 *)
LEMMA OtherEvents ==
  ASSUME NEW tool, NEW c
  PROVE  /\ Unanswered(<< >>, tool, c)
         /\ Unanswered(<<StartedEvent>>, tool, c)
         /\ \A d, completed, usage :
              Unanswered(<<RequestEvent(d), AttemptEvent(d, FirstAttempt),
                           TerminalEvent(d, FirstAttempt, completed, usage)>>, tool, c)
         /\ \A ending \in EndTypes : \A usage :
              Unanswered(<<EndEvent(ending, usage)>>, tool, c)
  <1>1. Unanswered(<< >>, tool, c)
    BY DEF Unanswered, Answers
  <1>2. Unanswered(<<StartedEvent>>, tool, c)
    BY DEF Unanswered, Answers, StartedEvent, IsToolResult, ToolTypesOfEvents
  <1>3. ASSUME NEW d, NEW completed, NEW usage
        PROVE  Unanswered(<<RequestEvent(d), AttemptEvent(d, FirstAttempt),
                            TerminalEvent(d, FirstAttempt, completed, usage)>>, tool, c)
    <2>1. /\ ~IsToolResult(RequestEvent(d))
          /\ ~IsToolResult(AttemptEvent(d, FirstAttempt))
          /\ ~IsToolResult(TerminalEvent(d, FirstAttempt, completed, usage))
      BY DEF RequestEvent, AttemptEvent, TerminalEvent, IsToolResult, ToolTypesOfEvents
    <2> HIDE DEF RequestEvent, AttemptEvent, TerminalEvent
    <2> QED BY <2>1 DEF Unanswered, Answers
  <1>4. ASSUME NEW ending \in EndTypes, NEW usage
        PROVE  Unanswered(<<EndEvent(ending, usage)>>, tool, c)
    BY DEF Unanswered, Answers, EndEvent, EndTypes, IsToolResult, ToolTypesOfEvents
  <1> QED BY <1>1, <1>2, <1>3, <1>4

(* One result.                                                             *)
LEMMA OneResult ==
  ASSUME NEW d, NEW answered, NEW failed, NEW tool
  PROVE  IF tool = answered
         THEN AnsweredOnce(<<ToolResultEvent(d, answered, failed)>>, tool, None)
         ELSE Unanswered(<<ToolResultEvent(d, answered, failed)>>, tool, None)
  <1>1. PICK e : e = ToolResultEvent(d, answered, failed)
    OBVIOUS
  <1>2. IsToolResult(e) /\ e.tool = answered
    BY <1>1 DEF ToolResultEvent, IsToolResult, ToolTypesOfEvents
  <1>3. \A i : Answers(<<e>>, i, tool, None) <=> i = 1 /\ tool = answered
    BY <1>2 DEF Answers
  <1> QED BY <1>1, <1>3 DEF AnsweredOnce, Unanswered

(* The results of some tools under one call, in any order: each at most    *)
(* once, and no other tool's.                                              *)
LEMMA ResultsAnswerOnce ==
  ASSUME NEW d, NEW outcome, IsFiniteSet(DOMAIN outcome), NEW results \in ResultsOf(d, outcome)
  PROVE  /\ IsSeq(results)
         /\ \A tool : \A c \in CallIds :
              /\ Unanswered(results, tool, c) \/ AnsweredOnce(results, tool, c)
              /\ c # d \/ tool \notin DOMAIN outcome => Unanswered(results, tool, c)
  <1> DEFINE tools == DOMAIN outcome
  <1>1. PICK n \in Nat : n = Cardinality(tools)
    BY FS_CardinalityType
  <1>2. PICK order \in Bijection(1..n, tools) :
          results = [i \in DOMAIN order |->
                       ToolResultEvent(d, order[i], outcome[order[i]])]
    BY <1>1 DEF ResultsOf
  <1>3. /\ order \in [1..n -> tools]
        /\ \A i, j \in 1..n : order[i] = order[j] => i = j
    BY <1>2 DEF Bijection, Injection, IsInjective
  <1>4. DOMAIN results = 1..n /\ results = [i \in 1..n |-> results[i]]
    BY <1>2, <1>3
  <1>5. \A i \in 1..n : results[i].tool = order[i] /\ results[i].call = d
    BY <1>2, <1>3 DEF ToolResultEvent
  <1>6. IsSeq(results)
    BY <1>4 DEF IsSeq
  <1>7. ASSUME NEW tool, NEW c \in CallIds
        PROVE  /\ Unanswered(results, tool, c) \/ AnsweredOnce(results, tool, c)
               /\ c # d \/ tool \notin tools => Unanswered(results, tool, c)
    <2>1. \A i : Answers(results, i, tool, c) => i \in 1..n /\ tool = order[i] /\ c = d
      BY <1>4, <1>5, ContractsAssumption DEF Answers
    <2>2. Unanswered(results, tool, c) \/ AnsweredOnce(results, tool, c)
      BY <1>3, <2>1 DEF Unanswered, AnsweredOnce
    <2>3. c # d \/ tool \notin tools => Unanswered(results, tool, c)
      BY <1>3, <2>1 DEF Unanswered
    <2> QED BY <2>2, <2>3
  <1> QED BY <1>6, <1>7

-----------------------------------------------------------------------------
(* A SWE-bench log: what is pending has no result, what was asked for and  *)
(* is not pending has one.                                                 *)
SwebenchToolsInv ==
  /\ IsSeq(events)
  /\ seenTools \subseteq ToolIds
  /\ pending = [t \in DOMAIN pending |-> pending[t]]
  /\ DOMAIN pending \subseteq seenTools
  /\ reading # "reading" => DOMAIN pending = {}
  /\ \A tool \in seenTools \ DOMAIN pending : AnsweredOnce(events, tool, None)
  /\ \A tool \in (ToolIds \ seenTools) \cup DOMAIN pending : Unanswered(events, tool, None)

(* A call answers nothing and may announce tools nobody has seen.          *)
LEMMA AddCallStep ==
  ASSUME SwebenchToolsInv, reading = "reading", UNCHANGED reading,
         NEW completed, NEW usage, Emit(CallEvents(completed, usage)),
         NEW tools \in SUBSET ToolIds, tools \cap seenTools = {},
         seenTools' = seenTools \cup tools,
         pending' = [t \in DOMAIN pending \cup tools |->
                       IF t \in tools THEN NextCall ELSE pending[t]]
  PROVE  SwebenchToolsInv'
  <1> USE DEF SwebenchToolsInv
  <1>1. PICK new : new = CallEvents(completed, usage)
    OBVIOUS
  <1>2. IsSeq(new) /\ \A tool, c : Unanswered(new, tool, c)
    BY <1>1, SmallSequences, OtherEvents DEF CallEvents
  <1>3. events' = events \o new
    BY <1>1 DEF Emit
  <1>4. IsSeq(events')
    BY <1>2, <1>3, ConcatParts
  <1>5. /\ DOMAIN pending' = DOMAIN pending \cup tools
        /\ pending' = [t \in DOMAIN pending' |-> pending'[t]]
    OBVIOUS
  <1>6. ASSUME NEW tool \in seenTools' \ DOMAIN pending'
        PROVE  AnsweredOnce(events', tool, None)
    <2>1. tool \in seenTools \ DOMAIN pending
      BY <1>5
    <2> QED BY <1>2, <1>3, <2>1, AnswersOfConcat
  <1>7. ASSUME NEW tool \in (ToolIds \ seenTools') \cup DOMAIN pending'
        PROVE  Unanswered(events', tool, None)
    <2>1. tool \in (ToolIds \ seenTools) \cup DOMAIN pending
      BY <1>5
    <2> QED BY <1>2, <1>3, <2>1, AnswersOfConcat
  <1> QED BY <1>4, <1>5, <1>6, <1>7

(* A result is taken for a tool that is pending, which it then is not.     *)
LEMMA ConsumeToolStep ==
  ASSUME SwebenchToolsInv, NEW answered \in ToolIds, NEW failed, ConsumeTool(answered, failed)
  PROVE  SwebenchToolsInv'
  <1> USE DEF SwebenchToolsInv
  <1>1. PICK new : new = <<ToolResultEvent(pending[answered], answered, failed)>>
    OBVIOUS
  <1>2. /\ IsSeq(new)
        /\ \A tool : IF tool = answered THEN AnsweredOnce(new, tool, None)
                                        ELSE Unanswered(new, tool, None)
    BY <1>1, SmallSequences, OneResult
  <1>3. /\ events' = events \o new
        /\ answered \in DOMAIN pending
        /\ reading = "reading" /\ reading' = reading /\ seenTools' = seenTools
        /\ pending' = [t \in DOMAIN pending \ {answered} |-> pending[t]]
    BY <1>1 DEF ConsumeTool, Emit
  <1>4. IsSeq(events')
    BY <1>2, <1>3, ConcatParts
  <1>5. /\ DOMAIN pending' = DOMAIN pending \ {answered}
        /\ pending' = [t \in DOMAIN pending' |-> pending'[t]]
    BY <1>3
  <1>6. ASSUME NEW tool \in seenTools \ DOMAIN pending'
        PROVE  AnsweredOnce(events', tool, None)
    <2>1. CASE tool = answered
      BY <1>2, <1>3, <2>1, AnswersOfConcat
    <2>2. CASE tool # answered
      <3>1. tool \in seenTools \ DOMAIN pending
        BY <1>5, <2>2
      <3> QED BY <1>2, <1>3, <2>2, <3>1, AnswersOfConcat
    <2> QED BY <2>1, <2>2
  <1>7. ASSUME NEW tool \in (ToolIds \ seenTools) \cup DOMAIN pending'
        PROVE  Unanswered(events', tool, None)
    <2>1. tool # answered /\ tool \in (ToolIds \ seenTools) \cup DOMAIN pending
      BY <1>3, <1>5
    <2> QED BY <1>2, <1>3, <2>1, AnswersOfConcat
  <1> QED BY <1>3, <1>4, <1>5, <1>6, <1>7

(* At most one tool is left, and the exit message answers it.              *)
LEMMA ConsumeExitStep ==
  ASSUME SwebenchToolsInv, NEW submitted, NEW reported, ConsumeExit(submitted, reported)
  PROVE  SwebenchToolsInv'
  <1> USE DEF SwebenchToolsInv
  <1>1. PICK answers, ending :
          /\ answers = InterceptedTool(submitted)
          /\ ending = <<EndEvent(IF submitted THEN "task_finished" ELSE "task_aborted",
                                 Aggregate)>>
    OBVIOUS
  <1>2. IsSeq(ending) /\ \A tool : Unanswered(ending, tool, None)
    BY <1>1, SmallSequences, OtherEvents DEF EndTypes
  <1>3. /\ events' = events \o (answers \o ending)
        /\ pending' = << >> /\ reading' = "validating" /\ seenTools' = seenTools
        /\ Cardinality(DOMAIN pending) <= 1
    BY <1>1 DEF ConsumeExit, Emit
  <1>4. IsFiniteSet(DOMAIN pending)
    BY ToolIdsAssumption, FS_Subset
  <1>5. /\ IsSeq(answers)
        /\ \A tool \in DOMAIN pending : AnsweredOnce(answers, tool, None)
        /\ \A tool \in ToolIds \ DOMAIN pending : Unanswered(answers, tool, None)
    <2>1. CASE DOMAIN pending = {}
      <3>1. pending = << >>
        BY <2>1
      <3>2. answers = << >>
        BY <1>1, <3>1 DEF InterceptedTool
      <3> QED BY <2>1, <3>2, SmallSequences, OtherEvents
    <2>2. CASE DOMAIN pending # {}
      <3>1. Cardinality(DOMAIN pending) = 1
        BY <1>3, <1>4, <2>2, FS_CardinalityType, FS_EmptySet
      <3>2. PICK left : DOMAIN pending = {left}
        BY <1>4, <3>1, FS_Singleton
      <3>3. pending # << >>
        BY <2>2
      <3>4. PICK tool : tool = CHOOSE t \in DOMAIN pending : TRUE
        OBVIOUS
      <3>5. tool = left
        BY <3>2, <3>4
      <3>6. answers = <<ToolResultEvent(pending[left], left, ~submitted)>>
        BY <1>1, <3>3, <3>4, <3>5 DEF InterceptedTool
      <3> QED BY <3>2, <3>6, SmallSequences, OneResult
    <2> QED BY <2>1, <2>2
  <1>6. PICK new : new = answers \o ending
    OBVIOUS
  <1>7. /\ IsSeq(new)
        /\ \A tool \in DOMAIN pending : AnsweredOnce(new, tool, None)
        /\ \A tool \in ToolIds \ DOMAIN pending : Unanswered(new, tool, None)
    BY <1>2, <1>5, <1>6, ConcatParts, AnswersOfConcat
  <1>8. /\ IsSeq(events')
        /\ \A tool \in seenTools : AnsweredOnce(events', tool, None)
        /\ \A tool \in ToolIds \ seenTools : Unanswered(events', tool, None)
    BY <1>3, <1>6, <1>7, ConcatParts, AnswersOfConcat
  <1>9. DOMAIN << >> = {} /\ << >> = [t \in DOMAIN << >> |-> << >>[t]]
    OBVIOUS
  <1> QED BY <1>3, <1>8, <1>9
-----------------------------------------------------------------------------
(* The task of an archive: a call's tools are answered at most once, and   *)
(* without a task log the last call's are not answered yet.                *)
MayAnswer(tool, c) == c \in DOMAIN responses /\ tool \in responses[c].tools

OpenHandsToolsInv ==
  /\ IsSeq(events)
  /\ IsSeq(responses)
  /\ \A i \in DOMAIN responses : responses[i].tools \subseteq ToolIds
  /\ task = NoTask => responses = << >>
  /\ \A tool \in ToolIds, c \in CallIds :
       /\ Unanswered(events, tool, c) \/ (AnsweredOnce(events, tool, c) /\ MayAnswer(tool, c))
       /\ ~task.logged /\ c = Len(responses) => Unanswered(events, tool, c)

LEMMA AppendParts ==
  ASSUME NEW s, IsSeq(s), NEW x
  PROVE  /\ IsSeq(Append(s, x)) /\ Append(s, x) # << >>
         /\ Len(s) \in Nat /\ DOMAIN s = 1..Len(s) /\ Len(Append(s, x)) = Len(s) + 1
         /\ DOMAIN Append(s, x) = 1..Len(s) + 1
         /\ \A i \in DOMAIN s : Append(s, x)[i] = s[i]
         /\ Append(s, x)[Len(s) + 1] = x
  <1> DEFINE S == {s[i] : i \in DOMAIN s} \cup {x}
  <1>1. s \in Seq({s[i] : i \in DOMAIN s}) /\ Len(s) \in Nat /\ DOMAIN s = 1..Len(s)
    BY SeqOfItsElements
  <1>2. s \in Seq(S) /\ x \in S
    BY <1>1
  <1> HIDE DEF S
  <1>3. /\ Append(s, x) \in Seq(S)
        /\ Len(Append(s, x)) = Len(s) + 1
        /\ \A i \in 1..Len(s) : Append(s, x)[i] = s[i]
        /\ Append(s, x)[Len(s) + 1] = x
    BY <1>2, AppendProperties
  <1>4. DOMAIN Append(s, x) = 1..Len(s) + 1
    BY <1>3, LenProperties
  <1>5. Append(s, x) = [i \in 1..Len(s) + 1 |-> Append(s, x)[i]]
    BY <1>3, LenProperties
  <1>6. Len(s) + 1 \in Nat /\ Append(s, x) # << >>
    BY <1>1, <1>2, AppendProperties
  <1> QED BY <1>1, <1>3, <1>4, <1>5, <1>6 DEF IsSeq

(* Reading a completion announces its tools and leaves the others alone.   *)
LEMMA CompletionAnnounces ==
  ASSUME OpenHandsToolsInv, NEW usage, NEW tools \in SUBSET ToolIds,
         responses' = Append(responses, [usage |-> usage, tools |-> tools])
  PROVE  /\ IsSeq(responses') /\ responses' # << >>
         /\ Len(responses) \in Nat /\ DOMAIN responses = 1..Len(responses)
         /\ Len(responses') = Len(responses) + 1
         /\ \A i \in DOMAIN responses' : responses'[i].tools \subseteq ToolIds
         /\ \A tool, c : MayAnswer(tool, c) => MayAnswer(tool, c)'
         /\ \A c : c = Len(responses) + 1 => \A tool \in tools : MayAnswer(tool, c)'
  <1> USE DEF OpenHandsToolsInv
  <1>1. PICK response : response = [usage |-> usage, tools |-> tools]
    OBVIOUS
  <1>2. /\ IsSeq(responses') /\ responses' # << >>
        /\ Len(responses) \in Nat /\ DOMAIN responses = 1..Len(responses)
        /\ Len(responses') = Len(responses) + 1
        /\ DOMAIN responses' = 1..Len(responses) + 1
        /\ \A i \in DOMAIN responses : responses'[i] = responses[i]
        /\ responses'[Len(responses) + 1] = response
    BY <1>1, AppendParts
  <1>3. response.tools = tools
    BY <1>1
  <1>4. ASSUME NEW i \in DOMAIN responses' PROVE responses'[i].tools \subseteq ToolIds
    <2>1. i \in DOMAIN responses \/ i = Len(responses) + 1
      BY <1>2
    <2> QED BY <1>2, <1>3, <2>1
  <1>5. \A tool, c : MayAnswer(tool, c) => MayAnswer(tool, c)'
    BY <1>2 DEF MayAnswer
  <1>6. \A c : c = Len(responses) + 1 => \A tool \in tools : MayAnswer(tool, c)'
    BY <1>2, <1>3 DEF MayAnswer
  <1> QED BY <1>2, <1>4, <1>5, <1>6

(* A completion is read: the events it adds answer each tool of one call   *)
(* at most once, and a call whose tools nothing answered before.           *)
LEMMA CompletionStep ==
  ASSUME OpenHandsToolsInv, task # NoTask, UNCHANGED task,
         NEW usage, NEW tools \in SUBSET ToolIds,
         responses' = Append(responses, [usage |-> usage, tools |-> tools]),
         NEW new, IsSeq(new), events' = events \o new, NEW answered,
         \A tool \in ToolIds, c \in CallIds :
           /\ Unanswered(new, tool, c) \/ AnsweredOnce(new, tool, c)
           /\ ~Unanswered(new, tool, c) =>
                c = answered /\ MayAnswer(tool, c)' /\ Unanswered(events, tool, c),
         ~task.logged => answered # Len(responses) + 1
  PROVE  OpenHandsToolsInv'
  <1> USE DEF OpenHandsToolsInv
  <1>1. /\ IsSeq(responses') /\ responses' # << >>
        /\ Len(responses) \in Nat /\ DOMAIN responses = 1..Len(responses)
        /\ Len(responses') = Len(responses) + 1
        /\ \A i \in DOMAIN responses' : responses'[i].tools \subseteq ToolIds
        /\ \A tool, c : MayAnswer(tool, c) => MayAnswer(tool, c)'
    BY CompletionAnnounces
  <1>2. IsSeq(events')
    BY ConcatParts
  <1>3. ASSUME NEW tool \in ToolIds, NEW c \in CallIds
        PROVE  \/ Unanswered(events', tool, c)
               \/ AnsweredOnce(events', tool, c) /\ MayAnswer(tool, c)'
    <2>1. CASE Unanswered(new, tool, c)
      BY <1>1, <2>1, AnswersOfConcat
    <2>2. CASE ~Unanswered(new, tool, c)
      BY <2>2, AnswersOfConcat
    <2> QED BY <2>1, <2>2
  <1>4. ASSUME NEW tool \in ToolIds, NEW c \in CallIds, ~task.logged, c = Len(responses')
        PROVE  Unanswered(events', tool, c)
    <2>1. c # answered /\ c \notin DOMAIN responses
      BY <1>1, <1>4
    <2>2. Unanswered(events, tool, c) /\ Unanswered(new, tool, c)
      BY <2>1 DEF MayAnswer
    <2> QED BY <2>2, AnswersOfConcat
  <1> QED BY <1>1, <1>2, <1>3, <1>4

(* Without a task log the results are of the completion before.            *)
LEMMA ReadCompletionStep ==
  ASSUME OpenHandsToolsInv, NEW usage, NEW tools \in SUBSET ToolIds,
         ReadCompletion(usage, tools)
  PROVE  OpenHandsToolsInv'
  <1>1. PICK n, called : n = Len(responses) /\ called = CompletionEvents(n + 1, usage)
    OBVIOUS
  <1>2. PICK answers \in Answered : events' = events \o (answers \o called)
    BY <1>1 DEF ReadCompletion, Emit
  <1>3. /\ ~task.logged /\ n + 1 <= task.calls /\ task' = task
        /\ responses' = Append(responses, [usage |-> usage, tools |-> tools])
    BY <1>1 DEF ReadCompletion
  <1>4. n \in Nat /\ DOMAIN responses = 1..n /\ \A tool, c : MayAnswer(tool, c) => MayAnswer(tool, c)'
    BY <1>1, <1>3, CompletionAnnounces
  <1>5. task # NoTask
    BY <1>3, <1>4 DEF NoTask
  <1>6. IsSeq(called) /\ \A tool, c : Unanswered(called, tool, c)
    BY <1>1, SmallSequences, OtherEvents DEF CompletionEvents
  <1>7. /\ IsSeq(answers)
        /\ \A tool \in ToolIds, c \in CallIds :
             /\ Unanswered(answers, tool, c) \/ AnsweredOnce(answers, tool, c)
             /\ ~Unanswered(answers, tool, c) => c = n /\ MayAnswer(tool, c)
    <2>1. CASE answers = << >>
      BY <2>1, SmallSequences, OtherEvents
    <2>2. CASE answers # << >>
      <3>1. PICK outcome :
              /\ outcome = [t \in responses[n].tools |-> FALSE]
              /\ answers \in ResultsOf(n, outcome)
              /\ n # 0
        BY <1>1, <1>2, <2>2 DEF Answered
      <3>2. DOMAIN outcome = responses[n].tools
        BY <3>1
      <3>3. n \in DOMAIN responses /\ IsFiniteSet(DOMAIN outcome)
        BY <1>4, <3>1, <3>2, ToolIdsAssumption, FS_Subset DEF OpenHandsToolsInv
      <3>4. /\ IsSeq(answers)
            /\ \A tool : \A c \in CallIds :
                 /\ Unanswered(answers, tool, c) \/ AnsweredOnce(answers, tool, c)
                 /\ c # n \/ tool \notin DOMAIN outcome => Unanswered(answers, tool, c)
        BY <3>1, <3>3, ResultsAnswerOnce
      <3> QED BY <3>2, <3>3, <3>4 DEF MayAnswer
    <2> QED BY <2>1, <2>2
  <1>8. PICK new : new = answers \o called
    OBVIOUS
  <1>9. IsSeq(new) /\ events' = events \o new
    BY <1>2, <1>6, <1>7, <1>8, ConcatParts
  <1>10. ASSUME NEW tool \in ToolIds, NEW c \in CallIds
         PROVE  /\ Unanswered(new, tool, c) \/ AnsweredOnce(new, tool, c)
                /\ ~Unanswered(new, tool, c) =>
                     c = n /\ MayAnswer(tool, c)' /\ Unanswered(events, tool, c)
    <2>1. /\ Unanswered(answers, tool, c) => Unanswered(new, tool, c)
          /\ AnsweredOnce(answers, tool, c) => AnsweredOnce(new, tool, c)
      BY <1>6, <1>7, <1>8, AnswersOfConcat
    <2>2. c = n => Unanswered(events, tool, c)
      BY <1>1, <1>3 DEF OpenHandsToolsInv
    <2> QED BY <1>4, <1>7, <2>1, <2>2
  <1>11. n # Len(responses) + 1
    BY <1>1, <1>4
  <1> QED BY <1>3, <1>5, <1>9, <1>10, <1>11, CompletionStep

(* With a task log they are of the completion itself.                      *)
LEMMA ReadLoggedCompletionStep ==
  ASSUME OpenHandsToolsInv, NEW usage, NEW tools \in SUBSET ToolIds,
         ReadLoggedCompletion(usage, tools)
  PROVE  OpenHandsToolsInv'
  <1>1. PICK n, called : n = Len(responses) /\ called = CompletionEvents(n + 1, usage)
    OBVIOUS
  <1>2. PICK outcome \in Histories(tools) :
          \E results \in ResultsOf(n + 1, outcome) : events' = events \o (called \o results)
    BY <1>1 DEF ReadLoggedCompletion, Emit
  <1>3. PICK results \in ResultsOf(n + 1, outcome) : events' = events \o (called \o results)
    BY <1>2
  <1>4. /\ task.logged /\ n + 1 <= task.calls /\ task' = task
        /\ responses' = Append(responses, [usage |-> usage, tools |-> tools])
    BY <1>1 DEF ReadLoggedCompletion
  <1>5. /\ n \in Nat /\ DOMAIN responses = 1..n
        /\ \A tool \in tools : MayAnswer(tool, n + 1)'
    BY <1>1, <1>4, CompletionAnnounces
  <1>6. task # NoTask
    BY <1>4, <1>5 DEF NoTask
  <1>7. IsSeq(called) /\ \A tool, c : Unanswered(called, tool, c)
    BY <1>1, SmallSequences, OtherEvents DEF CompletionEvents
  <1>8. DOMAIN outcome \subseteq tools /\ IsFiniteSet(DOMAIN outcome)
    <2>1. DOMAIN outcome \subseteq tools
      BY DEF Histories
    <2> QED BY <2>1, ToolIdsAssumption, FS_Subset
  <1>9. /\ IsSeq(results)
        /\ \A tool : \A c \in CallIds :
             /\ Unanswered(results, tool, c) \/ AnsweredOnce(results, tool, c)
             /\ c # n + 1 \/ tool \notin DOMAIN outcome => Unanswered(results, tool, c)
    BY <1>8, ResultsAnswerOnce
  <1>10. PICK new : new = called \o results
    OBVIOUS
  <1>11. IsSeq(new) /\ events' = events \o new
    BY <1>3, <1>7, <1>9, <1>10, ConcatParts
  <1>12. ASSUME NEW tool \in ToolIds, NEW c \in CallIds
         PROVE  /\ Unanswered(new, tool, c) \/ AnsweredOnce(new, tool, c)
                /\ ~Unanswered(new, tool, c) =>
                     c = n + 1 /\ MayAnswer(tool, c)' /\ Unanswered(events, tool, c)
    <2>1. /\ Unanswered(results, tool, c) => Unanswered(new, tool, c)
          /\ AnsweredOnce(results, tool, c) => AnsweredOnce(new, tool, c)
      BY <1>7, <1>9, <1>10, AnswersOfConcat
    <2>2. c = n + 1 => Unanswered(events, tool, c)
      BY <1>5 DEF OpenHandsToolsInv, MayAnswer
    <2>3. c = n + 1 /\ tool \in tools => MayAnswer(tool, c)'
      BY <1>5
    <2> QED BY <1>8, <1>9, <2>1, <2>2, <2>3
  <1> QED BY <1>4, <1>6, <1>11, <1>12, CompletionStep
(* The end of a task answers nothing.                                      *)
LEMMA EndTaskStep ==
  ASSUME OpenHandsToolsInv, EndOpenHandsTask
  PROVE  OpenHandsToolsInv'
  <1> USE DEF OpenHandsToolsInv
  <1>1. PICK ending \in EndTypes : \E usage : FinishTask(ending, usage)
    BY DEF EndOpenHandsTask, EndTypes
  <1>2. PICK usage : FinishTask(ending, usage)
    BY <1>1
  <1>3. PICK new : new = <<EndEvent(ending, usage)>>
    OBVIOUS
  <1>4. IsSeq(new) /\ \A tool, c : Unanswered(new, tool, c)
    BY <1>3, SmallSequences, OtherEvents
  <1>5. events' = events \o new /\ task' = task /\ responses' = responses
    BY <1>2, <1>3 DEF FinishTask, Emit, openHandsVars
  <1>6. IsSeq(events')
    BY <1>4, <1>5, ConcatParts
  <1>7. ASSUME NEW tool \in ToolIds, NEW c \in CallIds
        PROVE  /\ Unanswered(events, tool, c) => Unanswered(events', tool, c)
               /\ AnsweredOnce(events, tool, c) => AnsweredOnce(events', tool, c)
               /\ MayAnswer(tool, c)' <=> MayAnswer(tool, c)
    BY <1>4, <1>5, AnswersOfConcat DEF MayAnswer
  <1> QED BY <1>5, <1>6, <1>7

-----------------------------------------------------------------------------
(* A log that is rejected or written leaves no events behind.              *)
LogIsKept == reading \in {"reading", "validating", "accepted"}

ToolsInv ==
  /\ source = "swebench" /\ LogIsKept => SwebenchToolsInv
  /\ source = "openhands" /\ LogIsKept => OpenHandsToolsInv

LEMMA ToolsInitEstablishes == Init => ToolsInv
  <1> SUFFICES ASSUME Init PROVE ToolsInv
    OBVIOUS
  <1>1. /\ events = <<StartedEvent>> /\ reading = "reading"
        /\ pending = << >> /\ seenTools = {} /\ responses = << >>
    BY DEF Init, LogInit, SwebenchInit, OpenHandsInit
  <1>2. IsSeq(events) /\ \A tool, c : Unanswered(events, tool, c)
    BY <1>1, SmallSequences, OtherEvents
  <1>3. DOMAIN << >> = {} /\ << >> = [t \in DOMAIN << >> |-> << >>[t]]
    OBVIOUS
  <1>4. SwebenchToolsInv
    BY <1>1, <1>2, <1>3 DEF SwebenchToolsInv
  <1>5. OpenHandsToolsInv
    BY <1>1, <1>2, <1>3, SmallSequences DEF OpenHandsToolsInv
  <1> QED BY <1>4, <1>5 DEF ToolsInv

LEMMA SwebenchToolsStep ==
  ASSUME SwebenchToolsInv, SwebenchStep, reading' # "raised"
  PROVE  SwebenchToolsInv'
  <1>1. CASE \E usage \in Usages, tools \in SUBSET ToolIds : ConsumeAssistant(usage, tools)
    <2>1. PICK usage \in Usages, tools \in SUBSET ToolIds : ConsumeAssistant(usage, tools)
      BY <1>1
    <2> QED BY <2>1, AddCallStep DEF ConsumeAssistant, AddCall
  <1>2. CASE \E usage \in Usages \cup {NoUsage} : ConsumeInterruption(usage)
    <2>1. PICK usage : ConsumeInterruption(usage)
      BY <1>2
    <2>2. /\ reading = "reading" /\ reading' = reading
          /\ Emit(CallEvents(FALSE, WithTotal(usage)))
          /\ seenTools' = seenTools /\ pending' = pending
      BY <2>1 DEF ConsumeInterruption, AddCall
    <2>3. pending = [t \in DOMAIN pending |-> pending[t]]
      BY DEF SwebenchToolsInv
    <2>4. pending' = [t \in DOMAIN pending \cup {} |-> IF t \in {} THEN NextCall ELSE pending[t]]
      BY <2>2, <2>3
    <2>5. {} \in SUBSET ToolIds /\ {} \cap seenTools = {} /\ seenTools' = seenTools \cup {}
      BY <2>2
    <2> QED BY <2>2, <2>4, <2>5, AddCallStep
  <1>3. CASE \E tool \in ToolIds, failed \in BOOLEAN : ConsumeTool(tool, failed)
    BY <1>3, ConsumeToolStep
  <1>4. CASE \E submitted \in BOOLEAN, reported \in CallIds \cup {0} :
               ConsumeExit(submitted, reported)
    BY <1>4, ConsumeExitStep
  <1>5. ~RejectSwebench
    BY DEF RejectSwebench, RaiseSchemaError
  <1> QED BY <1>1, <1>2, <1>3, <1>4, <1>5 DEF SwebenchStep

LEMMA OpenHandsToolsStep ==
  ASSUME OpenHandsToolsInv, OpenHandsStep, reading' # "raised"
  PROVE  OpenHandsToolsInv'
  <1>1. ~RejectOpenHands
    BY DEF RejectOpenHands, RaiseSchemaError
  <1>2. CASE \E usage \in ResponseUsages, tools \in SUBSET ToolIds :
               ReadCompletion(usage, tools) \/ ReadLoggedCompletion(usage, tools)
    BY <1>2, ReadCompletionStep, ReadLoggedCompletionStep
  <1> QED BY <1>1, <1>2, EndTaskStep DEF OpenHandsStep

(* The archive, the validator and the replays leave a log's events alone.  *)
LEMMA LogUntouched ==
  ASSUME ToolsInv, UNCHANGED <<source, events, pending, seenTools, task, responses>>,
         LogIsKept' => LogIsKept /\ (reading = "reading" => reading' = "reading")
  PROVE  ToolsInv'
  <1>1. SwebenchToolsInv /\ LogIsKept' => SwebenchToolsInv'
    BY DEF SwebenchToolsInv, LogIsKept
  <1>2. OpenHandsToolsInv => OpenHandsToolsInv'
    BY DEF OpenHandsToolsInv, MayAnswer
  <1> QED BY <1>1, <1>2 DEF ToolsInv

LEMMA ToolsNextPreserves == ToolsInv /\ [Next]_vars => ToolsInv'
  <1> SUFFICES ASSUME ToolsInv, [Next]_vars PROVE ToolsInv'
    OBVIOUS
  <1>1. CASE ReadSwebench
    <2>1. source = "swebench" /\ source' = source /\ SwebenchStep
      BY <1>1 DEF ReadSwebench
    <2>2. reading = "reading"
      BY <2>1, ReaderIsReading
    <2> QED BY <2>1, <2>2, SwebenchToolsStep DEF ToolsInv, LogIsKept
  <1>2. CASE ReadSokoban
    BY <1>2 DEF ReadSokoban, ToolsInv
  <1>3. CASE ReadOpenHands
    <2>1. source = "openhands" /\ source' = source /\ OpenHandsStep
      BY <1>3 DEF ReadOpenHands
    <2>2. reading = "reading"
      BY <2>1, ReaderIsReading
    <2> QED BY <2>1, <2>2, OpenHandsToolsStep DEF ToolsInv, LogIsKept
  <1>4. CASE ReadArchive
    <2>1. UNCHANGED <<source, reading, events, pending, seenTools, task, responses>>
      BY <1>4 DEF ReadArchive, logVars, swebenchVars, openHandsVars
    <2> QED BY <2>1, LogUntouched DEF LogIsKept
  <1>5. CASE \E t \in Tasks : FollowTask(t)
    <2>1. /\ source = "openhands" /\ task = NoTask /\ reading = "reading"
          /\ UNCHANGED <<source, reading, events, responses>>
      BY <1>5 DEF FollowTask, logVars
    <2>2. OpenHandsToolsInv /\ responses = << >>
      BY <2>1 DEF ToolsInv, LogIsKept, OpenHandsToolsInv
    <2>3. \A tool, c : ~MayAnswer(tool, c)
      BY <2>2 DEF MayAnswer
    <2>4. \A tool \in ToolIds, c \in CallIds : Unanswered(events, tool, c)
      BY <2>2, <2>3 DEF OpenHandsToolsInv
    <2>5. OpenHandsToolsInv'
      BY <2>1, <2>2, <2>4 DEF OpenHandsToolsInv
    <2> QED BY <2>1, <2>5 DEF ToolsInv
  <1>6. CASE ValidateEvent
    <2>1. /\ Validate /\ reading = "validating"
          /\ UNCHANGED <<source, events, pending, seenTools, task, responses>>
      BY <1>6, ReaderIsReading
      DEF ValidateEvent, Validate, readerVars, swebenchVars, openHandsVars
    <2> QED BY <2>1, LogUntouched DEF LogIsKept
  <1>7. CASE WriteFile
    BY <1>7 DEF WriteFile, ToolsInv, LogIsKept
  <1>8. CASE Replay
    BY <1>8 DEF Replay, ToolsInv, LogIsKept, logVars
  <1>9. CASE UNCHANGED vars
    <2>1. UNCHANGED <<source, reading, events, pending, seenTools, task, responses>>
      BY <1>9 DEF vars, readerVars, logVars, swebenchVars, openHandsVars
    <2> QED BY <2>1, LogUntouched DEF LogIsKept
  <1> QED BY <1>1, <1>2, <1>3, <1>4, <1>5, <1>6, <1>7, <1>8, <1>9 DEF Next

LEMMA ToolsInvHolds == Spec => []ToolsInv
  BY ToolsInitEstablishes, ToolsNextPreserves, PTL DEF Spec

(* The invariant's "once" in the numbers the claim speaks of.              *)
LEMMA SwebenchToolsCounted ==
  ASSUME SwebenchToolsInv, reading = "accepted", NEW tool \in seenTools
  PROVE  Cardinality(ToolResults(tool)) = 1
  <1>1. AnsweredOnce(events, tool, None)
    BY DEF SwebenchToolsInv
  <1>2. PICK i : Answers(events, i, tool, None) /\ \A j : Answers(events, j, tool, None) => j = i
    BY <1>1 DEF AnsweredOnce
  <1>3. \A j : j \in ToolResults(tool) <=> Answers(events, j, tool, None)
    BY DEF ToolResults, Answers
  <1>4. ToolResults(tool) = {i}
    BY <1>2, <1>3
  <1> QED BY <1>4, FS_Singleton

LEMMA OpenHandsToolsCounted ==
  ASSUME OpenHandsToolsInv, NEW tool \in ToolIds, NEW c \in CallIds,
         NEW ended, ended = {i \in ToolResults(tool) : events[i].call = c}
  PROVE  Cardinality(ended) <= IF c \in DOMAIN responses /\ tool \in responses[c].tools
                               THEN 1 ELSE 0
  <1>1. \A j : j \in ended <=> Answers(events, j, tool, c)
    BY ContractsAssumption DEF ToolResults, Answers
  <1>2. CASE Unanswered(events, tool, c)
    <2>1. ended = {}
      BY <1>1, <1>2 DEF Unanswered
    <2>2. Cardinality(ended) = 0
      BY <2>1, FS_EmptySet
    <2> QED BY <2>2
  <1>3. CASE AnsweredOnce(events, tool, c) /\ MayAnswer(tool, c)
    <2>1. PICK i : Answers(events, i, tool, c) /\ \A j : Answers(events, j, tool, c) => j = i
      BY <1>3 DEF AnsweredOnce
    <2>2. ended = {i}
      BY <1>1, <2>1
    <2>3. Cardinality(ended) = 1
      BY <2>2, FS_Singleton
    <2> QED BY <1>3, <2>3 DEF MayAnswer
  <1> QED BY <1>2, <1>3 DEF OpenHandsToolsInv

(* Every tool call of an accepted SWE-bench log ends exactly once, also    *)
(* the one the exit message answers; no tool call of an OpenHands task     *)
(* ends twice or under another call (_consume_tool, _consume_exit,         *)
(* _normalize_prepared_task).                                              *)
THEOREM ToolsEndOnce == Spec => []EveryToolEndsOnce
  <1>1. ASSUME ToolsInv PROVE EveryToolEndsOnce
    <2>1. ASSUME Accepted, source = "swebench", NEW tool \in seenTools
          PROVE  Cardinality(ToolResults(tool)) = 1
      BY <1>1, <2>1, SwebenchToolsCounted DEF ToolsInv, LogIsKept, Accepted
    <2>2. ASSUME Accepted, source = "openhands", NEW tool \in ToolIds, NEW c \in CallIds
          PROVE  LET ended == {i \in ToolResults(tool) : events[i].call = c}
                 IN Cardinality(ended) <= IF c \in DOMAIN responses /\ tool \in responses[c].tools
                                          THEN 1 ELSE 0
      BY <1>1, <2>2, OpenHandsToolsCounted DEF ToolsInv, LogIsKept, Accepted
    <2> QED BY <2>1, <2>2 DEF EveryToolEndsOnce
  <1>2. ToolsInv => EveryToolEndsOnce
    BY <1>1
  <1> QED BY <1>2, ToolsInvHolds, PTL

-----------------------------------------------------------------------------
(* The order of a log's events.                                            *)
(*                                                                         *)
(* Each reader appends a call with its attempts (IsBlock), some tool       *)
(* results (AreResults) or the end; Ordered is what every such log         *)
(* satisfies, and the guards of the grammar follow from it once the        *)
(* validator's tables are known to say what the passed events say          *)
(* (TablesFollow).  An attempt ends with the next event, so a request or   *)
(* the end never finds one open.                                           *)

IsRequest(e)  == e.type = "request_built"
IsAttempt(e)  == e.type = "api_attempt_started"
IsTerminal(e) == e.type \in {"api_completed", "api_failed"}
IsEnd(e)      == e.type \in EndTypes

(* Event e ends the attempt that event a started. *)
EndsAttempt(e, a) == IsTerminal(e) /\ e.call = a.call /\ e.attempt = a.attempt

(* The last request among the first i events is c's. *)
Under(s, i, c) ==
  \E r \in 1..i :
    /\ IsRequest(s[r])
    /\ s[r].call = c
    /\ \A k \in (r + 1)..i : ~IsRequest(s[k])

KindsOK(s) ==
  \A i \in DOMAIN s :
    IF i = 1 THEN s[i].type = "task_started"
    ELSE \/ IsRequest(s[i]) \/ IsAttempt(s[i]) \/ IsTerminal(s[i])
         \/ IsToolResult(s[i]) \/ IsEnd(s[i])

(* Calls 1 to n are requested, each once and in this order. *)
RequestsOK(s, n) ==
  /\ \A i \in DOMAIN s : IsRequest(s[i]) => s[i].call \in 1..n
  /\ \A c \in 1..n : \E i \in DOMAIN s : IsRequest(s[i]) /\ s[i].call = c
  /\ \A i, j \in DOMAIN s :
       i < j /\ IsRequest(s[i]) /\ IsRequest(s[j]) => s[i].call < s[j].call

(* An attempt starts once, in the call requested last, and ends at once. *)
AttemptsOK(s) ==
  /\ \A i \in DOMAIN s : IsAttempt(s[i]) =>
       /\ i + 1 \in DOMAIN s
       /\ EndsAttempt(s[i + 1], s[i])
       /\ Under(s, i, s[i].call)
  /\ \A i \in DOMAIN s : IsTerminal(s[i]) =>
       /\ i - 1 \in DOMAIN s
       /\ IsAttempt(s[i - 1])
       /\ EndsAttempt(s[i], s[i - 1])
  /\ \A i, j \in DOMAIN s :
       /\ IsAttempt(s[i]) /\ IsAttempt(s[j])
       /\ s[i].call = s[j].call /\ s[i].attempt = s[j].attempt
       => i = j

ToolsOK(s) ==
  \A i \in DOMAIN s : IsToolResult(s[i]) =>
    \E r \in 1..i : IsRequest(s[r]) /\ s[r].call = s[i].call

Ordered(s, n) ==
  /\ IsSeq(s)
  /\ Len(s) > 0
  /\ n \in Nat
  /\ KindsOK(s)
  /\ RequestsOK(s, n)
  /\ AttemptsOK(s)
  /\ ToolsOK(s)

NotEnded(s) == \A i \in DOMAIN s : ~IsEnd(s[i])

EndedAtLast(s) == \A i \in DOMAIN s : IsEnd(s[i]) <=> i = Len(s)

(* What a reader writes of a call: its request and its attempts, each with *)
(* its terminal.                                                           *)
IsBlock(t, c) ==
  /\ IsSeq(t)
  /\ Len(t) > 0
  /\ IsRequest(t[1])
  /\ \A i \in DOMAIN t :
       /\ t[i].call = c
       /\ i # 1 => IsAttempt(t[i]) \/ IsTerminal(t[i])
       /\ IsAttempt(t[i]) => i + 1 \in DOMAIN t /\ EndsAttempt(t[i + 1], t[i])
       /\ IsTerminal(t[i]) =>
            i - 1 \in DOMAIN t /\ IsAttempt(t[i - 1]) /\ EndsAttempt(t[i], t[i - 1])
  /\ \A i, j \in DOMAIN t :
       IsAttempt(t[i]) /\ IsAttempt(t[j]) /\ t[i].attempt = t[j].attempt => i = j

-----------------------------------------------------------------------------
LEMMA KindsExclude ==
  ASSUME NEW e
  PROVE  /\ e.type = "task_started" =>
              ~IsRequest(e) /\ ~IsAttempt(e) /\ ~IsTerminal(e) /\ ~IsToolResult(e) /\ ~IsEnd(e)
         /\ IsRequest(e) => ~IsAttempt(e) /\ ~IsTerminal(e) /\ ~IsToolResult(e) /\ ~IsEnd(e)
         /\ IsAttempt(e) => ~IsTerminal(e) /\ ~IsToolResult(e) /\ ~IsEnd(e)
         /\ IsTerminal(e) => ~IsToolResult(e) /\ ~IsEnd(e)
         /\ IsToolResult(e) => ~IsEnd(e)
  BY DEF IsRequest, IsAttempt, IsTerminal, IsToolResult, IsEnd, ToolTypesOfEvents, EndTypes

(* Events come one after the other: what a concatenation holds where.      *)
Joined(u, s, t) ==
  /\ IsSeq(s) /\ IsSeq(t) /\ IsSeq(u)
  /\ Len(s) \in Nat /\ Len(t) \in Nat /\ Len(u) = Len(s) + Len(t)
  /\ DOMAIN s = 1..Len(s) /\ DOMAIN t = 1..Len(t) /\ DOMAIN u = 1..Len(u)
  /\ \A i \in 1..Len(s) : u[i] = s[i]
  /\ \A j \in 1..Len(t) : u[Len(s) + j] = t[j]

LEMMA Joining ==
  ASSUME NEW s, NEW t, IsSeq(s), IsSeq(t)
  PROVE  Joined(s \o t, s, t)
  <1>1. /\ Len(s) \in Nat /\ DOMAIN s = 1..Len(s) /\ Len(t) \in Nat /\ DOMAIN t = 1..Len(t)
        /\ s \in Seq({s[i] : i \in DOMAIN s}) /\ t \in Seq({t[i] : i \in DOMAIN t})
    BY SeqOfItsElements
  <1>2. /\ IsSeq(s \o t)
        /\ \A i \in DOMAIN s : (s \o t)[i] = s[i]
        /\ \A i \in DOMAIN t : (s \o t)[Len(s) + i] = t[i]
    BY ConcatParts
  <1>3. DOMAIN (s \o t) = 1..Len(s \o t)
    BY <1>2, SeqOfItsElements
  <1>4. Len(s \o t) = Len(s) + Len(t)
    <2> DEFINE S == {s[i] : i \in DOMAIN s} \cup {t[i] : i \in DOMAIN t}
    <2>1. s \in Seq(S) /\ t \in Seq(S)
      BY <1>1
    <2> HIDE DEF S
    <2> QED BY <2>1, ConcatProperties
  <1> QED BY <1>1, <1>2, <1>3, <1>4 DEF Joined

LEMMA Associative ==
  ASSUME NEW r, NEW s, NEW t, IsSeq(r), IsSeq(s), IsSeq(t)
  PROVE  r \o (s \o t) = (r \o s) \o t
  <1> DEFINE S == {r[i] : i \in DOMAIN r} \cup {s[i] : i \in DOMAIN s} \cup {t[i] : i \in DOMAIN t}
  <1>1. /\ r \in Seq({r[i] : i \in DOMAIN r}) /\ DOMAIN r = 1..Len(r)
        /\ s \in Seq({s[i] : i \in DOMAIN s}) /\ DOMAIN s = 1..Len(s)
        /\ t \in Seq({t[i] : i \in DOMAIN t}) /\ DOMAIN t = 1..Len(t)
    BY SeqOfItsElements
  <1>2. r \in Seq(S) /\ s \in Seq(S) /\ t \in Seq(S)
    BY <1>1
  <1> HIDE DEF S
  <1> QED BY <1>2, ConcatAssociative

(* What holds of an event and of the ones before it is not touched by what *)
(* is appended.                                                            *)
LEMMA PrefixKeepsUnder ==
  ASSUME NEW s, NEW t, NEW u, Joined(u, s, t), NEW i \in DOMAIN s, NEW c, Under(s, i, c)
  PROVE  Under(u, i, c)
  <1>1. PICK r \in 1..i :
          IsRequest(s[r]) /\ s[r].call = c /\ \A k \in (r + 1)..i : ~IsRequest(s[k])
    BY DEF Under
  <1>2. \A k \in 1..i : u[k] = s[k]
    BY DEF Joined
  <1>3. \A k \in (r + 1)..i : k \in 1..i
    BY DEF Joined
  <1> QED BY <1>1, <1>2, <1>3 DEF Under

LEMMA Neighbours ==
  ASSUME NEW m \in Nat, NEW l \in Nat, NEW j \in 1..l, NEW i, i = m + j
  PROVE  /\ j + 1 \in 1..l => i + 1 = m + (j + 1) /\ i + 1 \in 1..(m + l)
         /\ j - 1 \in 1..l => i - 1 = m + (j - 1) /\ i - 1 \in 1..(m + l)
  OBVIOUS

LEMMA BlockKeepsOrder ==
  ASSUME NEW s, NEW n, NEW t, Ordered(s, n), NotEnded(s), IsBlock(t, n + 1)
  PROVE  Ordered(s \o t, n + 1) /\ NotEnded(s \o t)
  <1>0. PICK u, m : u = s \o t /\ m = Len(s)
    OBVIOUS
  <1>1. Joined(u, s, t)
    BY <1>0, Joining DEF Ordered, IsBlock
  <1>2. /\ m \in Nat /\ m > 0 /\ n \in Nat /\ Len(t) \in Nat /\ Len(t) > 0
        /\ DOMAIN s = 1..m /\ DOMAIN t = 1..Len(t) /\ DOMAIN u = 1..(m + Len(t))
        /\ \A i \in 1..m : u[i] = s[i]
        /\ \A j \in 1..Len(t) : u[m + j] = t[j]
    BY <1>0, <1>1 DEF Joined, Ordered, IsBlock
  <1>8. PICK l \in Nat : l = Len(t) /\ DOMAIN t = 1..l /\ DOMAIN u = 1..(m + l)
    BY <1>2
  (* Every event is an old or a new one. *)
  <1>3. ASSUME NEW i \in DOMAIN u
        PROVE  \/ i \in DOMAIN s /\ i \in 1..m /\ u[i] = s[i]
               \/ \E j \in DOMAIN t : j \in 1..Len(t) /\ i = m + j /\ u[i] = t[j]
    <2>1. CASE i <= m
      BY <1>2, <2>1
    <2>2. CASE i > m
      <3>1. i - m \in 1..Len(t) /\ i = m + (i - m)
        BY <1>2, <2>2
      <3> QED BY <1>2, <3>1
    <2> QED BY <1>2, <2>1, <2>2
  <1>4. KindsOK(u) /\ NotEnded(u)
    <2> SUFFICES ASSUME NEW i \in DOMAIN u
                 PROVE  /\ IF i = 1 THEN u[i].type = "task_started"
                           ELSE \/ IsRequest(u[i]) \/ IsAttempt(u[i]) \/ IsTerminal(u[i])
                                \/ IsToolResult(u[i]) \/ IsEnd(u[i])
                        /\ ~IsEnd(u[i])
      BY DEF KindsOK, NotEnded
    <2>1. CASE i \in DOMAIN s /\ i \in 1..m /\ u[i] = s[i]
      BY <2>1 DEF Ordered, KindsOK, NotEnded
    <2>2. ASSUME NEW j \in DOMAIN t, j \in 1..Len(t), i = m + j, u[i] = t[j]
          PROVE  i # 1 /\ (IsRequest(u[i]) \/ IsAttempt(u[i]) \/ IsTerminal(u[i]))
      BY <1>2, <2>2 DEF IsBlock
    <2>3. ASSUME NEW j \in DOMAIN t, j \in 1..Len(t), i = m + j PROVE i # 1
      BY <1>2, <2>3
    <2> QED BY <1>3, <2>1, <2>2, <2>3, KindsExclude
  <1>5. RequestsOK(u, n + 1)
    <2>1. ASSUME NEW i \in DOMAIN u, IsRequest(u[i])
          PROVE  \/ i \in DOMAIN s /\ i <= m /\ u[i] = s[i] /\ u[i].call \in 1..n
                 \/ i = m + 1 /\ u[i].call = n + 1
      <3>1. CASE i \in DOMAIN s /\ i \in 1..m /\ u[i] = s[i]
        BY <1>2, <2>1, <3>1 DEF Ordered, RequestsOK
      <3>2. ASSUME NEW j \in DOMAIN t, i = m + j, u[i] = t[j]
            PROVE  i = m + 1 /\ u[i].call = n + 1
        BY <2>1, <3>2, KindsExclude DEF IsBlock
      <3> QED BY <1>3, <3>1, <3>2
    <2>2. \A i \in DOMAIN u : IsRequest(u[i]) => u[i].call \in 1..(n + 1)
      BY <1>2, <2>1
    <2>3. ASSUME NEW c \in 1..(n + 1)
          PROVE  \E i \in DOMAIN u : IsRequest(u[i]) /\ u[i].call = c
      <3>1. CASE c \in 1..n
        <4>1. PICK i \in DOMAIN s : IsRequest(s[i]) /\ s[i].call = c
          BY <3>1 DEF Ordered, RequestsOK
        <4> QED BY <1>2, <4>1
      <3>2. CASE c = n + 1
        <4>1. m + 1 \in DOMAIN u /\ u[m + 1] = t[1] /\ 1 \in DOMAIN t
          BY <1>2
        <4> QED BY <3>2, <4>1 DEF IsBlock
      <3> QED BY <1>2, <3>1, <3>2
    <2>4. ASSUME NEW i \in DOMAIN u, NEW j \in DOMAIN u,
                 i < j, IsRequest(u[i]), IsRequest(u[j])
          PROVE  u[i].call < u[j].call
      <3>1. i \in DOMAIN s /\ i <= m /\ u[i] = s[i] /\ u[i].call \in 1..n
        BY <1>2, <2>1, <2>4
      <3>2. CASE j \in DOMAIN s /\ j <= m /\ u[j] = s[j]
        BY <2>4, <3>1, <3>2 DEF Ordered, RequestsOK
      <3>3. CASE u[j].call = n + 1
        <4>1. n \in Nat
          BY <1>2
        <4> QED BY <3>1, <3>3, <4>1
      <3> QED BY <2>1, <2>4, <3>2, <3>3
    <2> QED BY <2>2, <2>3, <2>4 DEF RequestsOK
  <1>6. AttemptsOK(u)
    <2>1. ASSUME NEW i \in DOMAIN u, IsAttempt(u[i])
          PROVE  /\ i + 1 \in DOMAIN u /\ EndsAttempt(u[i + 1], u[i])
                 /\ Under(u, i, u[i].call)
      <3>1. CASE i \in DOMAIN s /\ i \in 1..m /\ u[i] = s[i]
        <4>1. i + 1 \in DOMAIN s /\ EndsAttempt(s[i + 1], s[i]) /\ Under(s, i, s[i].call)
          BY <2>1, <3>1 DEF Ordered, AttemptsOK
        <4>2. i + 1 \in 1..m /\ i + 1 \in DOMAIN u
          BY <1>2, <4>1
        <4>3. Under(u, i, s[i].call)
          BY <1>1, <3>1, <4>1, PrefixKeepsUnder
        <4> QED BY <1>2, <3>1, <4>1, <4>2, <4>3
      <3>2. ASSUME NEW j \in DOMAIN t, j \in 1..Len(t), i = m + j, u[i] = t[j]
            PROVE  /\ i + 1 \in DOMAIN u /\ EndsAttempt(u[i + 1], u[i])
                   /\ Under(u, i, u[i].call)
        <4>1. j + 1 \in DOMAIN t /\ EndsAttempt(t[j + 1], t[j]) /\ t[j].call = n + 1
          BY <2>1, <3>2 DEF IsBlock
        <4>2. j + 1 \in 1..Len(t) /\ i + 1 = m + (j + 1) /\ i + 1 \in DOMAIN u
          <5>1. m \in Nat /\ i = m + j
            BY <1>2, <3>2
          <5>2. j \in 1..l /\ j + 1 \in 1..l
            BY <1>8, <4>1
          <5>3. i + 1 = m + (j + 1) /\ i + 1 \in 1..(m + l)
            BY <5>1, <5>2, Neighbours
          <5> QED BY <1>8, <5>2, <5>3
        <4>3. u[i + 1] = t[j + 1]
          BY <1>2, <4>2
        <4>4. m + 1 \in 1..i /\ u[m + 1] = t[1] /\ IsRequest(t[1]) /\ t[1].call = n + 1
          BY <1>2, <3>2 DEF IsBlock
        <4>5. ASSUME NEW k \in ((m + 1) + 1)..i PROVE ~IsRequest(u[k])
          <5>1. k - m \in 1..Len(t) /\ k - m # 1 /\ k = m + (k - m)
            BY <1>2, <3>2
          <5>2. u[k] = t[k - m]
            BY <1>2, <5>1
          <5> QED BY <1>2, <5>1, <5>2, KindsExclude DEF IsBlock
        <4>6. Under(u, i, n + 1)
          BY <4>4, <4>5 DEF Under
        <4> QED BY <3>2, <4>1, <4>2, <4>3, <4>6
      <3> QED BY <1>3, <3>1, <3>2
    <2>2. ASSUME NEW i \in DOMAIN u, IsTerminal(u[i])
          PROVE  i - 1 \in DOMAIN u /\ IsAttempt(u[i - 1]) /\ EndsAttempt(u[i], u[i - 1])
      <3>1. CASE i \in DOMAIN s /\ i \in 1..m /\ u[i] = s[i]
        <4>1. i - 1 \in DOMAIN s /\ IsAttempt(s[i - 1]) /\ EndsAttempt(s[i], s[i - 1])
          BY <2>2, <3>1 DEF Ordered, AttemptsOK
        <4>2. i - 1 \in 1..m /\ i - 1 \in DOMAIN u
          BY <1>2, <4>1
        <4> QED BY <1>2, <3>1, <4>1, <4>2
      <3>2. ASSUME NEW j \in DOMAIN t, j \in 1..Len(t), i = m + j, u[i] = t[j]
            PROVE  i - 1 \in DOMAIN u /\ IsAttempt(u[i - 1]) /\ EndsAttempt(u[i], u[i - 1])
        <4>1. j - 1 \in DOMAIN t /\ IsAttempt(t[j - 1]) /\ EndsAttempt(t[j], t[j - 1])
          BY <2>2, <3>2 DEF IsBlock
        <4>2. j - 1 \in 1..Len(t) /\ i - 1 = m + (j - 1) /\ i - 1 \in DOMAIN u
          <5>1. m \in Nat /\ i = m + j
            BY <1>2, <3>2
          <5>2. j \in 1..l /\ j - 1 \in 1..l
            BY <1>8, <4>1
          <5>3. i - 1 = m + (j - 1) /\ i - 1 \in 1..(m + l)
            BY <5>1, <5>2, Neighbours
          <5> QED BY <1>8, <5>2, <5>3
        <4>3. u[i - 1] = t[j - 1]
          BY <1>2, <4>2
        <4> QED BY <3>2, <4>1, <4>2, <4>3
      <3> QED BY <1>3, <3>1, <3>2
    <2>3. ASSUME NEW i \in DOMAIN s, IsAttempt(s[i]) PROVE s[i].call \in 1..n
      <3>1. Under(s, i, s[i].call)
        BY <2>3 DEF Ordered, AttemptsOK
      <3>2. PICK r \in 1..i : IsRequest(s[r]) /\ s[r].call = s[i].call
        BY <3>1 DEF Under
      <3>3. r \in DOMAIN s
        BY <1>2
      <3> QED BY <3>2, <3>3 DEF Ordered, RequestsOK
    <2>4. ASSUME NEW i \in DOMAIN u, NEW j \in DOMAIN u, IsAttempt(u[i]), IsAttempt(u[j]),
                 u[i].call = u[j].call, u[i].attempt = u[j].attempt
          PROVE  i = j
      <3>1. n + 1 \notin 1..n
        BY <1>2
      <3>2. \/ i \in DOMAIN s /\ u[i] = s[i] /\ u[i].call \in 1..n
            \/ \E k \in DOMAIN t : i = m + k /\ u[i] = t[k] /\ u[i].call = n + 1
        BY <1>3, <2>3, <2>4 DEF IsBlock
      <3>3. \/ j \in DOMAIN s /\ u[j] = s[j] /\ u[j].call \in 1..n
            \/ \E k \in DOMAIN t : j = m + k /\ u[j] = t[k] /\ u[j].call = n + 1
        BY <1>3, <2>3, <2>4 DEF IsBlock
      <3>4. CASE i \in DOMAIN s /\ u[i] = s[i] /\ j \in DOMAIN s /\ u[j] = s[j]
        BY <2>4, <3>4 DEF Ordered, AttemptsOK
      <3>5. ASSUME NEW k \in DOMAIN t, NEW o \in DOMAIN t,
                   i = m + k, u[i] = t[k], j = m + o, u[j] = t[o]
            PROVE  i = j
        BY <2>4, <3>5 DEF IsBlock
      <3> QED BY <2>4, <3>1, <3>2, <3>3, <3>4, <3>5
    <2> QED BY <2>1, <2>2, <2>4 DEF AttemptsOK
  <1>7. ToolsOK(u)
    <2> SUFFICES ASSUME NEW i \in DOMAIN u, IsToolResult(u[i])
                 PROVE  \E r \in 1..i : IsRequest(u[r]) /\ u[r].call = u[i].call
      BY DEF ToolsOK
    <2>1. ~\E j \in DOMAIN t : u[i] = t[j]
      BY KindsExclude DEF IsBlock
    <2>2. i \in DOMAIN s /\ i \in 1..m /\ u[i] = s[i]
      BY <1>3, <2>1
    <2>3. PICK r \in 1..i : IsRequest(s[r]) /\ s[r].call = s[i].call
      BY <2>2 DEF Ordered, ToolsOK
    <2>4. r \in 1..m
      BY <1>2, <2>2
    <2> QED BY <1>2, <2>2, <2>3, <2>4
  <1> QED BY <1>0, <1>1, <1>2, <1>4, <1>5, <1>6, <1>7 DEF Ordered, Joined

(* Tool results and the end of the task start and end no attempt and ask   *)
(* for no call, so what holds of the calls stays as it was.                *)
LEMMA OthersKeepOrder ==
  ASSUME NEW s, NEW n, NEW t, Ordered(s, n), NotEnded(s), IsSeq(t),
         \A i \in DOMAIN t :
           \/ IsToolResult(t[i]) /\ t[i].call \in 1..n
           \/ IsEnd(t[i])
  PROVE  Ordered(s \o t, n)
  <1>0. PICK u, m : u = s \o t /\ m = Len(s)
    OBVIOUS
  <1>1. Joined(u, s, t)
    BY <1>0, Joining DEF Ordered
  <1>2. /\ m \in Nat /\ m > 0 /\ n \in Nat /\ Len(t) \in Nat
        /\ DOMAIN s = 1..m /\ DOMAIN t = 1..Len(t) /\ DOMAIN u = 1..(m + Len(t))
        /\ \A i \in 1..m : u[i] = s[i]
        /\ \A j \in 1..Len(t) : u[m + j] = t[j]
    BY <1>0, <1>1 DEF Joined, Ordered
  <1>3. ASSUME NEW i \in DOMAIN u
        PROVE  \/ i \in DOMAIN s /\ i \in 1..m /\ u[i] = s[i]
               \/ /\ i > m
                  /\ IsToolResult(u[i]) \/ IsEnd(u[i])
                  /\ IsToolResult(u[i]) => u[i].call \in 1..n
    <2>1. CASE i <= m
      BY <1>2, <2>1
    <2>2. CASE i > m
      <3>1. i - m \in 1..Len(t) /\ i = m + (i - m)
        BY <1>2, <2>2
      <3>2. u[i] = t[i - m] /\ i - m \in DOMAIN t
        BY <1>2, <3>1
      <3> QED BY <2>2, <3>2, KindsExclude
    <2> QED BY <1>2, <2>1, <2>2
  (* A request, an attempt or a terminal is an old one.                    *)
  <1>4. ASSUME NEW i \in DOMAIN u, IsRequest(u[i]) \/ IsAttempt(u[i]) \/ IsTerminal(u[i])
        PROVE  i \in DOMAIN s /\ i \in 1..m /\ u[i] = s[i]
    BY <1>3, <1>4, KindsExclude
  <1>5. KindsOK(u)
    <2> SUFFICES ASSUME NEW i \in DOMAIN u
                 PROVE  IF i = 1 THEN u[i].type = "task_started"
                        ELSE \/ IsRequest(u[i]) \/ IsAttempt(u[i]) \/ IsTerminal(u[i])
                             \/ IsToolResult(u[i]) \/ IsEnd(u[i])
      BY DEF KindsOK
    <2>1. CASE i \in DOMAIN s /\ u[i] = s[i]
      BY <2>1 DEF Ordered, KindsOK
    <2>2. CASE i > m /\ (IsToolResult(u[i]) \/ IsEnd(u[i]))
      BY <1>2, <2>2
    <2> QED BY <1>3, <2>1, <2>2
  <1>6. RequestsOK(u, n)
    <2>1. \A i \in DOMAIN u : IsRequest(u[i]) => u[i].call \in 1..n
      BY <1>4 DEF Ordered, RequestsOK
    <2>2. ASSUME NEW c \in 1..n PROVE \E i \in DOMAIN u : IsRequest(u[i]) /\ u[i].call = c
      <3>1. PICK i \in DOMAIN s : IsRequest(s[i]) /\ s[i].call = c
        BY DEF Ordered, RequestsOK
      <3> QED BY <1>2, <3>1
    <2>3. \A i, j \in DOMAIN u :
            i < j /\ IsRequest(u[i]) /\ IsRequest(u[j]) => u[i].call < u[j].call
      BY <1>4 DEF Ordered, RequestsOK
    <2> QED BY <2>1, <2>2, <2>3 DEF RequestsOK
  <1>7. AttemptsOK(u)
    <2>1. ASSUME NEW i \in DOMAIN u, IsAttempt(u[i])
          PROVE  /\ i + 1 \in DOMAIN u /\ EndsAttempt(u[i + 1], u[i])
                 /\ Under(u, i, u[i].call)
      <3>1. i \in DOMAIN s /\ i \in 1..m /\ u[i] = s[i]
        BY <1>4, <2>1
      <3>2. i + 1 \in DOMAIN s /\ EndsAttempt(s[i + 1], s[i]) /\ Under(s, i, s[i].call)
        BY <2>1, <3>1 DEF Ordered, AttemptsOK
      <3>3. i + 1 \in 1..m /\ i + 1 \in DOMAIN u
        BY <1>2, <3>2
      <3>4. Under(u, i, s[i].call)
        BY <1>1, <3>1, <3>2, PrefixKeepsUnder
      <3> QED BY <1>2, <3>1, <3>2, <3>3, <3>4
    <2>2. ASSUME NEW i \in DOMAIN u, IsTerminal(u[i])
          PROVE  i - 1 \in DOMAIN u /\ IsAttempt(u[i - 1]) /\ EndsAttempt(u[i], u[i - 1])
      <3>1. i \in DOMAIN s /\ u[i] = s[i]
        BY <1>4, <2>2
      <3>2. i - 1 \in DOMAIN s /\ IsAttempt(s[i - 1]) /\ EndsAttempt(s[i], s[i - 1])
        BY <2>2, <3>1 DEF Ordered, AttemptsOK
      <3>3. i - 1 \in 1..m /\ i - 1 \in DOMAIN u
        BY <1>2, <3>2
      <3> QED BY <1>2, <3>1, <3>2, <3>3
    <2>3. \A i, j \in DOMAIN u :
            /\ IsAttempt(u[i]) /\ IsAttempt(u[j])
            /\ u[i].call = u[j].call /\ u[i].attempt = u[j].attempt
            => i = j
      BY <1>4 DEF Ordered, AttemptsOK
    <2> QED BY <2>1, <2>2, <2>3 DEF AttemptsOK
  <1>8. ToolsOK(u)
    <2> SUFFICES ASSUME NEW i \in DOMAIN u, IsToolResult(u[i])
                 PROVE  \E r \in 1..i : IsRequest(u[r]) /\ u[r].call = u[i].call
      BY DEF ToolsOK
    <2>1. CASE i \in DOMAIN s /\ i \in 1..m /\ u[i] = s[i]
      <3>1. PICK r \in 1..i : IsRequest(s[r]) /\ s[r].call = s[i].call
        BY <2>1 DEF Ordered, ToolsOK
      <3>2. r \in 1..m
        BY <1>2, <2>1
      <3> QED BY <1>2, <2>1, <3>1, <3>2
    <2>2. CASE i > m /\ u[i].call \in 1..n
      <3>1. PICK r \in DOMAIN s : IsRequest(s[r]) /\ s[r].call = u[i].call
        BY <2>2 DEF Ordered, RequestsOK
      <3>2. r \in 1..i /\ u[r] = s[r]
        BY <1>2, <2>2, <3>1
      <3> QED BY <3>1, <3>2
    <2> QED BY <1>3, <2>1, <2>2
  <1> QED BY <1>0, <1>1, <1>2, <1>5, <1>6, <1>7, <1>8 DEF Ordered, Joined

(* Tool results of calls that were requested.                              *)
AreResults(t, n) ==
  /\ IsSeq(t)
  /\ \A i \in DOMAIN t : IsToolResult(t[i]) /\ t[i].call \in 1..n

LEMMA ResultsKeepOrder ==
  ASSUME NEW s, NEW n, NEW t, Ordered(s, n), NotEnded(s), AreResults(t, n)
  PROVE  Ordered(s \o t, n) /\ NotEnded(s \o t)
  <1>1. Ordered(s \o t, n)
    BY OthersKeepOrder DEF AreResults
  <1>2. PICK u, m : u = s \o t /\ m = Len(s)
    OBVIOUS
  <1>3. Joined(u, s, t)
    BY <1>2, Joining DEF Ordered, AreResults
  <1>4. ASSUME NEW i \in DOMAIN u PROVE ~IsEnd(u[i])
    <2>1. CASE i <= m
      BY <1>2, <1>3, <2>1 DEF Joined, NotEnded
    <2>2. CASE i > m
      <3>1. i - m \in 1..Len(t) /\ i = m + (i - m)
        BY <1>2, <1>3, <2>2 DEF Joined
      <3>2. u[i] = t[i - m] /\ i - m \in DOMAIN t
        BY <1>2, <1>3, <3>1 DEF Joined
      <3> QED BY <3>2, KindsExclude DEF AreResults
    <2> QED BY <1>2, <1>3, <2>1, <2>2 DEF Joined
  <1> QED BY <1>1, <1>2, <1>4 DEF NotEnded

LEMMA EndKeepsOrder ==
  ASSUME NEW s, NEW n, NEW e, Ordered(s, n), NotEnded(s), IsEnd(e)
  PROVE  Ordered(s \o <<e>>, n) /\ EndedAtLast(s \o <<e>>)
  <1>1. PICK t : t = <<e>>
    OBVIOUS
  <1>2. IsSeq(t) /\ DOMAIN t = 1..1 /\ t[1] = e /\ Len(t) = 1
    BY <1>1, SmallSequences
  <1>3. Ordered(s \o t, n)
    BY <1>2, OthersKeepOrder
  <1>4. PICK u, m : u = s \o t /\ m = Len(s)
    OBVIOUS
  <1>5. Joined(u, s, t)
    BY <1>2, <1>4, Joining DEF Ordered
  <1>6. /\ m \in Nat /\ Len(u) = m + 1 /\ DOMAIN u = 1..(m + 1) /\ DOMAIN s = 1..m
        /\ u[m + 1] = e /\ \A i \in 1..m : u[i] = s[i]
    BY <1>2, <1>4, <1>5 DEF Joined
  <1>7. ASSUME NEW i \in DOMAIN u PROVE IsEnd(u[i]) <=> i = m + 1
    <2>1. i \in 1..m \/ i = m + 1
      BY <1>6
    <2> QED BY <1>6, <2>1 DEF NotEnded
  <1> QED BY <1>1, <1>3, <1>4, <1>6, <1>7 DEF EndedAtLast

LEMMA StartIsOrdered == Ordered(<<StartedEvent>>, 0) /\ NotEnded(<<StartedEvent>>)
  <1>1. PICK s : s = <<StartedEvent>>
    OBVIOUS
  <1>2. IsSeq(s) /\ Len(s) = 1 /\ DOMAIN s = 1..1 /\ s[1].type = "task_started"
    BY <1>1, SmallSequences DEF StartedEvent
  <1>3. \A i \in DOMAIN s :
          /\ ~IsRequest(s[i]) /\ ~IsAttempt(s[i]) /\ ~IsTerminal(s[i])
          /\ ~IsToolResult(s[i]) /\ ~IsEnd(s[i])
    BY <1>2, KindsExclude
  <1>4. KindsOK(s) /\ RequestsOK(s, 0) /\ AttemptsOK(s) /\ ToolsOK(s)
    BY <1>2, <1>3 DEF KindsOK, RequestsOK, AttemptsOK, ToolsOK
  <1> QED BY <1>1, <1>2, <1>3, <1>4 DEF Ordered, NotEnded

-----------------------------------------------------------------------------
(* What the readers write.                                                 *)
LEMMA CallIsBlock ==
  ASSUME NEW c, NEW completed, NEW usage
  PROVE  IsBlock(<<RequestEvent(c), AttemptEvent(c, FirstAttempt),
                   TerminalEvent(c, FirstAttempt, completed, usage)>>, c)
  <1>1. PICK r, a, e :
          /\ r = RequestEvent(c) /\ a = AttemptEvent(c, FirstAttempt)
          /\ e = TerminalEvent(c, FirstAttempt, completed, usage)
    OBVIOUS
  <1>2. /\ IsRequest(r) /\ r.call = c
        /\ IsAttempt(a) /\ a.call = c
        /\ IsTerminal(e) /\ e.call = c /\ EndsAttempt(e, a)
    BY <1>1 DEF RequestEvent, AttemptEvent, TerminalEvent, IsRequest, IsAttempt, IsTerminal,
                EndsAttempt
  <1>3. PICK t : t = <<r, a, e>>
    OBVIOUS
  <1>4. /\ IsSeq(t) /\ Len(t) = 3 /\ DOMAIN t = 1..3
        /\ t[1] = r /\ t[2] = a /\ t[3] = e
    BY <1>3, SmallSequences
  <1>5. \A i \in DOMAIN t :
          /\ t[i].call = c
          /\ i # 1 => IsAttempt(t[i]) \/ IsTerminal(t[i])
          /\ IsAttempt(t[i]) => i = 2
          /\ IsTerminal(t[i]) => i = 3
    <2> SUFFICES ASSUME NEW i \in {1, 2, 3}
                 PROVE  /\ t[i].call = c
                        /\ i # 1 => IsAttempt(t[i]) \/ IsTerminal(t[i])
                        /\ IsAttempt(t[i]) => i = 2
                        /\ IsTerminal(t[i]) => i = 3
      BY <1>4
    <2> QED BY <1>2, <1>4, KindsExclude
  <1>6. \A i \in DOMAIN t : IsAttempt(t[i]) =>
          i + 1 \in DOMAIN t /\ EndsAttempt(t[i + 1], t[i])
    <2>1. 2 + 1 \in DOMAIN t /\ t[2 + 1] = e
      BY <1>4
    <2> QED BY <1>2, <1>4, <1>5, <2>1
  <1>7. \A i \in DOMAIN t : IsTerminal(t[i]) =>
          i - 1 \in DOMAIN t /\ IsAttempt(t[i - 1]) /\ EndsAttempt(t[i], t[i - 1])
    <2>1. 3 - 1 \in DOMAIN t /\ t[3 - 1] = a
      BY <1>4
    <2> QED BY <1>2, <1>4, <1>5, <2>1
  <1>8. IsBlock(t, c)
    BY <1>2, <1>4, <1>5, <1>6, <1>7 DEF IsBlock
  <1> QED BY <1>1, <1>3, <1>8

LEMMA TurnIsBlock ==
  ASSUME NEW c, NEW n \in Nat, NEW interactions \in [1..n -> Interaction]
  PROVE  IsBlock(<<RequestEvent(c)>> \o AttemptEvents(c, interactions), c)
  <1>1. PICK s, t, u : /\ s = <<RequestEvent(c)>>
                       /\ t = AttemptEvents(c, interactions)
                       /\ u = s \o t
    OBVIOUS
  <1>2. IsSeq(s) /\ Len(s) = 1 /\ DOMAIN s = 1..1 /\ IsRequest(s[1]) /\ s[1].call = c
    BY <1>1, SmallSequences DEF RequestEvent, IsRequest
  <1>3. Len(interactions) = n
    OBVIOUS
  <1>4. t = [e \in 1..2 * n |->
               LET i == (e + 1) \div 2 IN
               IF e = 2 * i THEN TerminalEvent(c, i, interactions[i].success,
                                               MappedUsage(interactions[i].usage))
                            ELSE AttemptEvent(c, i)]
    BY <1>1, <1>3 DEF AttemptEvents
  <1>5. IsSeq(t) /\ DOMAIN t = 1..2 * n
    <2>1. t = [i \in 1..2 * n |-> t[i]] /\ 2 * n \in Nat
      BY <1>4
    <2> QED BY <1>4, <2>1 DEF IsSeq
  <1>6. ASSUME NEW i \in 1..n
        PROVE  /\ 2 * i - 1 \in DOMAIN t /\ IsAttempt(t[2 * i - 1])
               /\ t[2 * i - 1].call = c /\ t[2 * i - 1].attempt = i
               /\ 2 * i \in DOMAIN t /\ IsTerminal(t[2 * i])
               /\ t[2 * i].call = c /\ t[2 * i].attempt = i
    <2>1. /\ ((2 * i - 1) + 1) \div 2 = i /\ (2 * i + 1) \div 2 = i
          /\ 2 * i - 1 # 2 * i /\ 2 * i - 1 \in 1..2 * n /\ 2 * i \in 1..2 * n
      OBVIOUS
    <2>2. /\ t[2 * i - 1] = AttemptEvent(c, i)
          /\ t[2 * i] = TerminalEvent(c, i, interactions[i].success,
                                      MappedUsage(interactions[i].usage))
      BY <1>4, <2>1
    <2> QED BY <1>5, <2>1, <2>2 DEF AttemptEvent, TerminalEvent, IsAttempt, IsTerminal
  <1>7. ASSUME NEW e \in DOMAIN t
        PROVE  \E i \in 1..n : e = 2 * i - 1 \/ e = 2 * i
    <2>1. (e + 1) \div 2 \in 1..n /\ (e = 2 * ((e + 1) \div 2) - 1 \/ e = 2 * ((e + 1) \div 2))
      BY <1>5
    <2> QED BY <2>1
  <1>8. /\ IsSeq(u) /\ Len(u) = 1 + 2 * n /\ DOMAIN u = 1..(1 + 2 * n)
        /\ u[1] = s[1] /\ \A j \in 1..2 * n : u[1 + j] = t[j]
    <2>1. Joined(u, s, t)
      BY <1>1, <1>2, <1>5, Joining
    <2>2. Len(t) = 2 * n
      BY <1>5, <2>1 DEF Joined
    <2> QED BY <1>2, <2>1, <2>2 DEF Joined
  <1>9. ASSUME NEW i \in 1..n
        PROVE  /\ 2 * i \in DOMAIN u /\ IsAttempt(u[2 * i])
               /\ u[2 * i].call = c /\ u[2 * i].attempt = i
               /\ 2 * i + 1 \in DOMAIN u /\ IsTerminal(u[2 * i + 1])
               /\ u[2 * i + 1].call = c /\ u[2 * i + 1].attempt = i
    <2>1. /\ 2 * i - 1 \in 1..2 * n /\ 1 + (2 * i - 1) = 2 * i /\ 2 * i \in 1..2 * n
          /\ 1 + 2 * i = 2 * i + 1 /\ 2 * i \in 1..(1 + 2 * n) /\ 2 * i + 1 \in 1..(1 + 2 * n)
      OBVIOUS
    <2>2. u[2 * i] = t[2 * i - 1] /\ u[2 * i + 1] = t[2 * i]
      BY <1>8, <2>1
    <2> QED BY <1>6, <1>8, <2>1, <2>2
  <1>10. ASSUME NEW e \in DOMAIN u
         PROVE  e = 1 \/ \E i \in 1..n : e = 2 * i \/ e = 2 * i + 1
    <2>1. e = 1 \/ e - 1 \in DOMAIN t
      BY <1>5, <1>8
    <2>2. ASSUME e - 1 \in DOMAIN t PROVE \E i \in 1..n : e = 2 * i \/ e = 2 * i + 1
      <3>1. PICK i \in 1..n : e - 1 = 2 * i - 1 \/ e - 1 = 2 * i
        BY <1>7, <2>2
      <3>2. e \in Nat
        BY <1>8
      <3>3. e = 2 * i \/ e = 2 * i + 1
        BY <3>1, <3>2
      <3> QED BY <3>3
    <2> QED BY <2>1, <2>2
  <1>11. ~IsAttempt(u[1]) /\ ~IsTerminal(u[1])
    BY <1>2, <1>8, KindsExclude
  <1>12. ASSUME NEW e \in DOMAIN u
         PROVE  \/ e = 1
                \/ \E i \in 1..n : e = 2 * i /\ IsAttempt(u[e]) /\ ~IsTerminal(u[e])
                                 /\ u[e].call = c /\ u[e].attempt = i
                \/ \E i \in 1..n : e = 2 * i + 1 /\ IsTerminal(u[e]) /\ ~IsAttempt(u[e])
                                 /\ u[e].call = c
    <2>1. ASSUME NEW i \in 1..n, e = 2 * i
          PROVE  IsAttempt(u[e]) /\ ~IsTerminal(u[e]) /\ u[e].call = c /\ u[e].attempt = i
      <3>1. IsAttempt(u[2 * i]) /\ u[2 * i].call = c /\ u[2 * i].attempt = i
        BY <1>9
      <3> QED BY <2>1, <3>1, KindsExclude
    <2>2. ASSUME NEW i \in 1..n, e = 2 * i + 1
          PROVE  IsTerminal(u[e]) /\ ~IsAttempt(u[e]) /\ u[e].call = c
      <3>1. IsTerminal(u[2 * i + 1]) /\ u[2 * i + 1].call = c
        BY <1>9
      <3> QED BY <2>2, <3>1, KindsExclude
    <2> QED BY <1>10, <2>1, <2>2
  <1>17. ASSUME NEW e \in DOMAIN u
          PROVE  u[e].call = c /\ (e # 1 => IsAttempt(u[e]) \/ IsTerminal(u[e]))
    BY <1>2, <1>8, <1>12
  <1>13. ASSUME NEW e \in DOMAIN u, IsAttempt(u[e])
         PROVE  e + 1 \in DOMAIN u /\ EndsAttempt(u[e + 1], u[e])
    <2>1. PICK i \in 1..n : e = 2 * i
      BY <1>11, <1>12, <1>13
    <2>2. EndsAttempt(u[2 * i + 1], u[2 * i]) /\ 2 * i + 1 \in DOMAIN u
      BY <1>9 DEF EndsAttempt
    <2> QED BY <2>1, <2>2
  <1>14. ASSUME NEW e \in DOMAIN u, IsTerminal(u[e])
         PROVE  e - 1 \in DOMAIN u /\ IsAttempt(u[e - 1]) /\ EndsAttempt(u[e], u[e - 1])
    <2>1. PICK i \in 1..n : e = 2 * i + 1
      BY <1>11, <1>12, <1>14
    <2>2. EndsAttempt(u[2 * i + 1], u[2 * i]) /\ 2 * i \in DOMAIN u /\ IsAttempt(u[2 * i])
      BY <1>9 DEF EndsAttempt
    <2>3. e - 1 = 2 * i
      BY <2>1
    <2> QED BY <2>1, <2>2, <2>3
  <1>15. \A d, e \in DOMAIN u :
           IsAttempt(u[d]) /\ IsAttempt(u[e]) /\ u[d].attempt = u[e].attempt => d = e
    <2>1. \A e \in DOMAIN u : IsAttempt(u[e]) => u[e].attempt \in Nat /\ e = 2 * u[e].attempt
      BY <1>11, <1>12
    <2> QED BY <2>1
  <1>16. IsRequest(u[1]) /\ Len(u) > 0
    BY <1>2, <1>8
  <1> QED BY <1>1, <1>8, <1>17, <1>13, <1>14, <1>15, <1>16 DEF IsBlock

LEMMA IsResult ==
  ASSUME NEW c, NEW tool, NEW failed
  PROVE  /\ IsToolResult(ToolResultEvent(c, tool, failed))
         /\ ToolResultEvent(c, tool, failed).call = c
  BY DEF ToolResultEvent, IsToolResult, ToolTypesOfEvents

LEMMA NoResults ==
  ASSUME NEW n
  PROVE  AreResults(<< >>, n)
  BY SmallSequences DEF AreResults

LEMMA OneIsResults ==
  ASSUME NEW n, NEW c \in 1..n, NEW tool, NEW failed
  PROVE  AreResults(<<ToolResultEvent(c, tool, failed)>>, n)
  <1>1. PICK e : e = ToolResultEvent(c, tool, failed)
    OBVIOUS
  <1>2. IsToolResult(e) /\ e.call = c
    BY <1>1, IsResult
  <1> QED BY <1>1, <1>2, SmallSequences DEF AreResults

LEMMA ActionsAreResults ==
  ASSUME NEW n, NEW c \in 1..n, NEW actions \in Nat
  PROVE  AreResults(ActionEvents(c, actions), n)
  <1>1. PICK t : t = ActionEvents(c, actions)
    OBVIOUS
  <1>2. t = [i \in 1..actions |-> ToolResultEvent(c, None, FALSE)]
    BY <1>1 DEF ActionEvents
  <1>3. /\ t = [i \in 1..actions |-> t[i]]
        /\ \A i \in DOMAIN t : t[i] = ToolResultEvent(c, None, FALSE)
    BY <1>2
  <1>4. IsSeq(t)
    BY <1>3 DEF IsSeq
  <1>5. \A i \in DOMAIN t : IsToolResult(t[i]) /\ t[i].call = c
    <2>1. PICK e : e = ToolResultEvent(c, None, FALSE)
      OBVIOUS
    <2>2. IsToolResult(e) /\ e.call = c
      BY <2>1, IsResult
    <2> QED BY <1>3, <2>1, <2>2
  <1> QED BY <1>1, <1>4, <1>5 DEF AreResults

LEMMA AnyOrderAreResults ==
  ASSUME NEW n, NEW c \in 1..n, NEW outcome, IsFiniteSet(DOMAIN outcome),
         NEW results \in ResultsOf(c, outcome)
  PROVE  AreResults(results, n)
  <1>1. PICK order : results = [i \in DOMAIN order |->
                                  ToolResultEvent(c, order[i], outcome[order[i]])]
    BY DEF ResultsOf
  <1>2. \A i \in DOMAIN results : IsToolResult(results[i]) /\ results[i].call = c
    BY <1>1, IsResult
  <1> QED BY <1>2, ResultsAnswerOnce DEF AreResults

-----------------------------------------------------------------------------
(* The readers write in this order: each call they count is requested by   *)
(* their next events, and what waits for a result was asked for by a call  *)
(* they have counted.                                                      *)
CallsRead ==
  IF source = "swebench" THEN callCount
  ELSE IF source = "sokoban" THEN turnCount
  ELSE Len(responses)

LogOrder ==
  /\ Ordered(events, CallsRead)
  /\ 1..CallsRead \subseteq CallIds
  /\ IF reading = "reading" THEN NotEnded(events) ELSE EndedAtLast(events)
  /\ source = "swebench" => \A t \in DOMAIN pending : pending[t] \in 1..callCount
  /\ source = "openhands" => 1..task.calls \subseteq CallIds

LEMMA OneMoreCall ==
  ASSUME NEW n \in Nat, 1..n \subseteq CallIds, n + 1 \in CallIds
  PROVE  1..(n + 1) \subseteq CallIds
  <1>1. 1..(n + 1) = 1..n \cup {n + 1}
    OBVIOUS
  <1> QED BY <1>1

LEMMA EndEventEnds ==
  ASSUME NEW ending \in EndTypes, NEW usage
  PROVE  IsEnd(EndEvent(ending, usage))
  BY DEF IsEnd, EndEvent

LEMMA AddCallOrder ==
  ASSUME LogOrder, source = "swebench", reading = "reading", UNCHANGED <<source, reading>>,
         NextCall \in CallIds, NEW completed, NEW usage, AddCall(completed, usage),
         \A t \in DOMAIN pending' :
           pending'[t] = NextCall \/ (t \in DOMAIN pending /\ pending'[t] = pending[t])
  PROVE  LogOrder'
  <1>1. PICK n, new : n = callCount /\ new = CallEvents(completed, usage)
    OBVIOUS
  <1>2. /\ Ordered(events, n) /\ NotEnded(events) /\ 1..n \subseteq CallIds
        /\ \A t \in DOMAIN pending : pending[t] \in 1..n
    BY <1>1 DEF LogOrder, CallsRead
  <1>3. events' = events \o new /\ callCount' = n + 1 /\ n + 1 \in CallIds
    BY <1>1 DEF AddCall, Emit, NextCall
  <1>4. IsBlock(new, n + 1)
    BY <1>1, CallIsBlock DEF CallEvents, NextCall
  <1>5. Ordered(events', n + 1) /\ NotEnded(events')
    BY <1>2, <1>3, <1>4, BlockKeepsOrder
  <1>6. n \in Nat
    BY <1>2 DEF Ordered
  <1>7. 1..(n + 1) \subseteq CallIds
    BY <1>2, <1>3, <1>6, OneMoreCall
  <1>8. \A t \in DOMAIN pending' : pending'[t] \in 1..(n + 1)
    <2>1. \A t \in DOMAIN pending' : pending'[t] = n + 1 \/ pending'[t] \in 1..n
      BY <1>1, <1>2 DEF NextCall
    <2> QED BY <1>6, <2>1
  <1>9. CallsRead' = n + 1
    BY <1>3 DEF CallsRead
  <1> QED BY <1>3, <1>5, <1>7, <1>8, <1>9 DEF LogOrder

(* The end of a log: some results, then one end event.                     *)
LEMMA LogEndsInOrder ==
  ASSUME NEW s, NEW n, NEW t, NEW ending \in EndTypes, NEW usage,
         Ordered(s, n), NotEnded(s), AreResults(t, n)
  PROVE  LET u == s \o (t \o <<EndEvent(ending, usage)>>)
         IN Ordered(u, n) /\ EndedAtLast(u)
  <1>1. PICK e : e = EndEvent(ending, usage)
    OBVIOUS
  <1>2. IsEnd(e)
    BY <1>1, EndEventEnds
  <1>3. Ordered(s \o t, n) /\ NotEnded(s \o t)
    BY ResultsKeepOrder
  <1>4. Ordered((s \o t) \o <<e>>, n) /\ EndedAtLast((s \o t) \o <<e>>)
    BY <1>2, <1>3, EndKeepsOrder
  <1>5. s \o (t \o <<e>>) = (s \o t) \o <<e>>
    BY Associative, SmallSequences DEF Ordered, AreResults
  <1> QED BY <1>1, <1>4, <1>5

LEMMA SwebenchOrderStep ==
  ASSUME LogOrder, SwebenchToolsInv, source = "swebench", source' = source, reading = "reading",
         SwebenchStep, reading' # "raised"
  PROVE  LogOrder'
  <1>1. CASE \E usage \in Usages, tools \in SUBSET ToolIds : ConsumeAssistant(usage, tools)
    <2>1. PICK usage \in Usages, tools \in SUBSET ToolIds : ConsumeAssistant(usage, tools)
      BY <1>1
    <2>2. /\ reading' = reading /\ NextCall \in CallIds /\ AddCall(TRUE, WithTotal(usage))
          /\ pending' = [t \in DOMAIN pending \cup tools |->
                           IF t \in tools THEN NextCall ELSE pending[t]]
      BY <2>1 DEF ConsumeAssistant
    <2>3. \A t \in DOMAIN pending' :
            pending'[t] = NextCall \/ (t \in DOMAIN pending /\ pending'[t] = pending[t])
      BY <2>2
    <2> QED BY <2>2, <2>3, AddCallOrder
  <1>2. CASE \E usage \in Usages \cup {NoUsage} : ConsumeInterruption(usage)
    <2>1. PICK usage : ConsumeInterruption(usage)
      BY <1>2
    <2>2. /\ reading' = reading /\ NextCall \in CallIds /\ AddCall(FALSE, WithTotal(usage))
          /\ pending' = pending
      BY <2>1 DEF ConsumeInterruption
    <2> QED BY <2>2, AddCallOrder
  <1>3. CASE \E tool \in ToolIds, failed \in BOOLEAN : ConsumeTool(tool, failed)
    <2>1. PICK tool, failed : ConsumeTool(tool, failed)
      BY <1>3
    <2>2. PICK n, c : n = callCount /\ c = pending[tool]
      OBVIOUS
    <2>3. /\ events' = events \o <<ToolResultEvent(c, tool, failed)>>
          /\ c \in 1..n /\ callCount' = n /\ reading' = reading
          /\ \A t \in DOMAIN pending' : pending'[t] \in 1..n
      BY <2>1, <2>2 DEF ConsumeTool, Emit, LogOrder
    <2>4. Ordered(events, n) /\ NotEnded(events) /\ 1..n \subseteq CallIds
      BY <2>2 DEF LogOrder, CallsRead
    <2>5. Ordered(events', n) /\ NotEnded(events')
      BY <2>3, <2>4, OneIsResults, ResultsKeepOrder
    <2> QED BY <2>3, <2>4, <2>5 DEF LogOrder, CallsRead
  <1>4. CASE \E submitted \in BOOLEAN, reported \in CallIds \cup {0} :
               ConsumeExit(submitted, reported)
    <2>1. PICK submitted, reported : ConsumeExit(submitted, reported)
      BY <1>4
    <2>2. PICK n, answers, ending, usage :
            /\ n = callCount /\ answers = InterceptedTool(submitted)
            /\ ending = IF submitted THEN "task_finished" ELSE "task_aborted"
            /\ usage = Aggregate
      OBVIOUS
    <2>3. /\ events' = events \o (answers \o <<EndEvent(ending, usage)>>)
          /\ pending' = << >> /\ reading' = "validating" /\ callCount' = n
          /\ ending \in EndTypes
      BY <2>1, <2>2 DEF ConsumeExit, Emit, EndTypes
    <2>4. /\ Ordered(events, n) /\ NotEnded(events) /\ 1..n \subseteq CallIds
          /\ \A t \in DOMAIN pending : pending[t] \in 1..n
      BY <2>2 DEF LogOrder, CallsRead
    <2>5. AreResults(answers, n)
      <3>1. CASE DOMAIN pending = {}
        <4>1. pending = << >>
          BY <3>1 DEF SwebenchToolsInv
        <4> QED BY <2>2, <4>1, NoResults DEF InterceptedTool
      <3>2. CASE DOMAIN pending # {}
        <4>1. PICK tool : tool = CHOOSE t \in DOMAIN pending : TRUE
          OBVIOUS
        <4>2. pending # << >>
          BY <3>2
        <4>3. tool \in DOMAIN pending
          BY <3>2, <4>1
        <4>4. answers = <<ToolResultEvent(pending[tool], tool, ~submitted)>>
          BY <2>2, <4>1, <4>2 DEF InterceptedTool
        <4> QED BY <2>4, <4>3, <4>4, OneIsResults
      <3> QED BY <3>1, <3>2
    <2>6. Ordered(events', n) /\ EndedAtLast(events')
      BY <2>3, <2>4, <2>5, LogEndsInOrder
    <2>7. \A t \in DOMAIN pending' : pending'[t] \in 1..n
      BY <2>3
    <2> QED BY <2>3, <2>4, <2>6, <2>7 DEF LogOrder, CallsRead
  <1>5. ~RejectSwebench
    BY DEF RejectSwebench, RaiseSchemaError
  <1> QED BY <1>1, <1>2, <1>3, <1>4, <1>5 DEF SwebenchStep

LEMMA SokobanOrderStep ==
  ASSUME LogOrder, source = "sokoban", source' = source, reading = "reading",
         SokobanStep, reading' # "raised"
  PROVE  LogOrder'
  <1>0. PICK n : n = turnCount
    OBVIOUS
  <1>1. n \in Nat /\ Ordered(events, n) /\ NotEnded(events) /\ 1..n \subseteq CallIds
    BY <1>0 DEF LogOrder, CallsRead, Ordered
  <1>2. CASE \E k \in 1..MaxInteractions, actions \in 0..MaxActions :
               \E interactions \in [1..k -> Interaction] : ReadTurn(interactions, actions)
    <2>1. PICK k \in 1..MaxInteractions, actions \in 0..MaxActions :
            \E interactions \in [1..k -> Interaction] : ReadTurn(interactions, actions)
      BY <1>2
    <2>2. PICK interactions \in [1..k -> Interaction] : ReadTurn(interactions, actions)
      BY <2>1
    <2>3. PICK call, attempts, results :
            /\ call = <<RequestEvent(n + 1)>>
            /\ attempts = AttemptEvents(n + 1, interactions)
            /\ results = ActionEvents(n + 1, actions)
      OBVIOUS
    <2>4. /\ events' = events \o (call \o attempts \o results)
          /\ n + 1 <= MaxTurns /\ turnCount' = n + 1 /\ reading' = reading
      BY <1>0, <2>2, <2>3 DEF ReadTurn, Emit
    <2>5. IsBlock(call \o attempts, n + 1)
      <3>1. k \in Nat
        BY <2>1
      <3> QED BY <2>3, <3>1, TurnIsBlock
    <2>6. Ordered(events \o (call \o attempts), n + 1) /\ NotEnded(events \o (call \o attempts))
      BY <1>1, <2>5, BlockKeepsOrder
    <2>7. AreResults(results, n + 1)
      <3>1. actions \in Nat /\ n + 1 \in 1..(n + 1)
        BY <1>1, <2>1
      <3> QED BY <2>3, <3>1, ActionsAreResults
    <2>8. events' = (events \o (call \o attempts)) \o results
      <3>1. PICK turn : turn = call \o attempts
        OBVIOUS
      <3>2. IsSeq(events) /\ IsSeq(turn) /\ IsSeq(results)
        BY <1>1, <2>5, <2>7, <3>1 DEF Ordered, IsBlock, AreResults
      <3>3. events' = events \o (turn \o results)
        BY <2>4, <3>1
      <3>4. events' = (events \o turn) \o results
        BY <3>2, <3>3, Associative
      <3> QED BY <3>1, <3>4
    <2>9. Ordered(events', n + 1) /\ NotEnded(events')
      BY <2>6, <2>7, <2>8, ResultsKeepOrder
    <2>10. n + 1 \in CallIds
      <3>1. n + 1 \in 1..MaxTurns
        BY <1>1, <2>4
      <3> QED BY <3>1, SokobanAssumption
    <2>11. 1..(n + 1) \subseteq CallIds
      BY <1>1, <2>10, OneMoreCall
    <2> QED BY <2>4, <2>9, <2>11 DEF LogOrder, CallsRead
  <1>3. CASE \E usage \in StatedUsages : FinishRollout(usage)
    <2>1. PICK usage : FinishRollout(usage)
      BY <1>3
    <2>2. PICK e : e = EndEvent("task_finished", usage)
      OBVIOUS
    <2>3. events' = events \o <<e>> /\ reading' = "validating" /\ turnCount' = n
      BY <1>0, <2>1, <2>2 DEF FinishRollout, Emit, sokobanVars
    <2>4. IsEnd(e)
      BY <2>2, EndEventEnds DEF EndTypes
    <2>5. Ordered(events', n) /\ EndedAtLast(events')
      BY <1>1, <2>3, <2>4, EndKeepsOrder
    <2> QED BY <1>1, <2>3, <2>5 DEF LogOrder, CallsRead
  <1>4. ~RejectSokoban
    BY DEF RejectSokoban, RaiseSchemaError
  <1> QED BY <1>2, <1>3, <1>4 DEF SokobanStep

(* A completion adds one call.                                             *)
LEMMA CompletionOrder ==
  ASSUME LogOrder, OpenHandsToolsInv, source = "openhands", reading = "reading",
         UNCHANGED <<source, reading, task>>,
         NEW usage, NEW tools,
         responses' = Append(responses, [usage |-> usage, tools |-> tools]),
         NEW n, n = Len(responses), n + 1 <= task.calls,
         Ordered(events', n + 1), NotEnded(events')
  PROVE  LogOrder'
  <1>1. Len(responses') = n + 1
    BY AppendParts DEF OpenHandsToolsInv
  <1>2. n \in Nat /\ 1..n \subseteq CallIds /\ 1..task.calls \subseteq CallIds
    BY DEF LogOrder, CallsRead, Ordered
  <1>3. n + 1 \in CallIds
    <2>1. n + 1 \in 1..task.calls
      BY <1>2
    <2> QED BY <1>2, <2>1
  <1>4. 1..(n + 1) \subseteq CallIds
    BY <1>2, <1>3, OneMoreCall
  <1>5. CallsRead' = n + 1
    BY <1>1 DEF CallsRead
  <1> QED BY <1>2, <1>4, <1>5 DEF LogOrder

LEMMA OpenHandsOrderStep ==
  ASSUME LogOrder, OpenHandsToolsInv, source = "openhands", source' = source,
         reading = "reading", OpenHandsStep, reading' # "raised"
  PROVE  LogOrder'
  <1>0. PICK n : n = Len(responses)
    OBVIOUS
  <1>1. n \in Nat /\ Ordered(events, n) /\ NotEnded(events) /\ IsSeq(events)
    BY <1>0 DEF LogOrder, CallsRead, Ordered
  <1>2. ASSUME NEW usage, NEW tools \in SUBSET ToolIds, ReadCompletion(usage, tools)
        PROVE  LogOrder'
    <2>1. PICK called : called = CompletionEvents(n + 1, usage)
      OBVIOUS
    <2>2. PICK answers \in Answered : events' = events \o (answers \o called)
      BY <1>0, <1>2, <2>1 DEF ReadCompletion, Emit
    <2>3. /\ n + 1 <= task.calls /\ task' = task /\ reading' = reading
          /\ responses' = Append(responses, [usage |-> usage, tools |-> tools])
      BY <1>0, <1>2 DEF ReadCompletion
    <2>4. AreResults(answers, n)
      <3>1. CASE answers = << >>
        BY <3>1, NoResults
      <3>2. CASE answers # << >>
        <4>1. PICK outcome :
                /\ outcome = [t \in responses[n].tools |-> FALSE]
                /\ answers \in ResultsOf(n, outcome)
                /\ n # 0
          BY <1>0, <2>2, <3>2 DEF Answered
        <4>2. DOMAIN outcome = responses[n].tools
          BY <4>1
        <4>3. DOMAIN responses = 1..n /\ n \in 1..n
          BY <1>0, <1>1, <4>1, SeqOfItsElements DEF OpenHandsToolsInv
        <4>4. IsFiniteSet(DOMAIN outcome)
          BY <4>2, <4>3, ToolIdsAssumption, FS_Subset DEF OpenHandsToolsInv
        <4> QED BY <4>1, <4>3, <4>4, AnyOrderAreResults
      <3> QED BY <3>1, <3>2
    <2>5. IsBlock(called, n + 1)
      BY <2>1, CallIsBlock DEF CompletionEvents
    <2>6. Ordered(events \o answers, n) /\ NotEnded(events \o answers)
      BY <1>1, <2>4, ResultsKeepOrder
    <2>7. events' = (events \o answers) \o called
      <3>1. IsSeq(answers) /\ IsSeq(called)
        BY <2>4, <2>5 DEF AreResults, IsBlock
      <3> QED BY <1>1, <2>2, <3>1, Associative
    <2>8. Ordered(events', n + 1) /\ NotEnded(events')
      BY <2>5, <2>6, <2>7, BlockKeepsOrder
    <2> QED BY <1>0, <2>3, <2>8, CompletionOrder
  <1>3. ASSUME NEW usage, NEW tools \in SUBSET ToolIds, ReadLoggedCompletion(usage, tools)
        PROVE  LogOrder'
    <2>1. PICK called : called = CompletionEvents(n + 1, usage)
      OBVIOUS
    <2>2. PICK outcome \in Histories(tools) :
            \E results \in ResultsOf(n + 1, outcome) : events' = events \o (called \o results)
      BY <1>0, <1>3, <2>1 DEF ReadLoggedCompletion, Emit
    <2>3. PICK results \in ResultsOf(n + 1, outcome) : events' = events \o (called \o results)
      BY <2>2
    <2>4. /\ n + 1 <= task.calls /\ task' = task /\ reading' = reading
          /\ responses' = Append(responses, [usage |-> usage, tools |-> tools])
      BY <1>0, <1>3 DEF ReadLoggedCompletion
    <2>5. AreResults(results, n + 1)
      <3>1. DOMAIN outcome \subseteq tools
        BY DEF Histories
      <3>2. IsFiniteSet(DOMAIN outcome)
        BY <3>1, ToolIdsAssumption, FS_Subset
      <3>3. n + 1 \in 1..(n + 1)
        BY <1>1
      <3> QED BY <3>2, <3>3, AnyOrderAreResults
    <2>6. IsBlock(called, n + 1)
      BY <2>1, CallIsBlock DEF CompletionEvents
    <2>7. Ordered(events \o called, n + 1) /\ NotEnded(events \o called)
      BY <1>1, <2>6, BlockKeepsOrder
    <2>8. events' = (events \o called) \o results
      <3>1. IsSeq(called) /\ IsSeq(results)
        BY <2>5, <2>6 DEF AreResults, IsBlock
      <3> QED BY <1>1, <2>3, <3>1, Associative
    <2>9. Ordered(events', n + 1) /\ NotEnded(events')
      BY <2>5, <2>7, <2>8, ResultsKeepOrder
    <2> QED BY <1>0, <2>4, <2>9, CompletionOrder
  <1>4. CASE EndOpenHandsTask
    <2>1. PICK ending \in EndTypes : \E usage : FinishTask(ending, usage)
      BY <1>4 DEF EndOpenHandsTask, EndTypes
    <2>2. PICK usage : FinishTask(ending, usage)
      BY <2>1
    <2>3. PICK e : e = EndEvent(ending, usage)
      OBVIOUS
    <2>4. /\ events' = events \o <<e>> /\ reading' = "validating"
          /\ task' = task /\ responses' = responses
      BY <2>2, <2>3 DEF FinishTask, Emit, openHandsVars
    <2>5. IsEnd(e)
      BY <2>3, EndEventEnds
    <2>6. Ordered(events', n) /\ EndedAtLast(events')
      BY <1>1, <2>4, <2>5, EndKeepsOrder
    <2> QED BY <1>0, <2>4, <2>6 DEF LogOrder, CallsRead
  <1>5. ~RejectOpenHands
    BY DEF RejectOpenHands, RaiseSchemaError
  <1> QED BY <1>2, <1>3, <1>4, <1>5 DEF OpenHandsStep

-----------------------------------------------------------------------------
(* The validator's tables say what the events it has passed say.           *)
PassedRequest(c)     == \E i \in 1..checked : IsRequest(events[i]) /\ events[i].call = c
PassedAttempt(c, a)  ==
  \E i \in 1..checked : IsAttempt(events[i]) /\ events[i].call = c /\ events[i].attempt = a
PassedTerminal(c, a) ==
  \E i \in 1..checked : IsTerminal(events[i]) /\ events[i].call = c /\ events[i].attempt = a

TablesFollow ==
  /\ IsSeq(requests)
  /\ \A c : Requested(c) <=> PassedRequest(c)
  /\ active = None => \A c : ~PassedRequest(c)
  /\ active # None => Under(events, checked, active)
  /\ starts = [c \in CallIds |-> starts[c]]
  /\ terminals = [c \in CallIds |-> terminals[c]]
  /\ \A c \in CallIds : IsSeq(terminals[c])
  /\ \A c \in CallIds : \A a :
       /\ a \in starts[c] <=> PassedAttempt(c, a)
       /\ a \in Terminated(c) <=> PassedTerminal(c, a)

FollowsEvents ==
  /\ checked \in Nat /\ checked < Len(events)
  /\ reading = "reading" => checked = 0
  /\ phase = IF checked = 0 THEN "new" ELSE "open"
  /\ TablesFollow

InOrder == LogOrder /\ FollowsEvents

OrderInv ==
  /\ reading \in {"reading", "validating"} => InOrder
  /\ phase = "refused" => reading = "raised"
  /\ OnlyLateToolsAreRefused

(* One request is the last.                                                *)
LEMMA UnderOne ==
  ASSUME NEW s, NEW i, NEW c, NEW d, Under(s, i, c), Under(s, i, d)
  PROVE  c = d
  <1>1. PICK r \in 1..i :
          IsRequest(s[r]) /\ s[r].call = c /\ \A k \in (r + 1)..i : ~IsRequest(s[k])
    BY DEF Under
  <1>2. PICK q \in 1..i :
          IsRequest(s[q]) /\ s[q].call = d /\ \A k \in (q + 1)..i : ~IsRequest(s[k])
    BY DEF Under
  <1>3. ~(r < q) /\ ~(q < r)
    BY <1>1, <1>2
  <1>4. r = q
    BY <1>3
  <1> QED BY <1>1, <1>2, <1>4

(* The event the validator is at.                                          *)
Checking(k, e, n) ==
  /\ k = checked + 1
  /\ e = events[k]
  /\ n = CallsRead

LEMMA AtEvent ==
  ASSUME InOrder, reading = "validating", NEW k, NEW e, NEW n, Checking(k, e, n)
  PROVE  /\ checked \in Nat /\ k \in Nat /\ k = checked + 1 /\ k \in DOMAIN events
         /\ DOMAIN events = 1..Len(events) /\ Len(events) \in Nat
         /\ \A i \in 1..k : i \in DOMAIN events
         /\ n \in Nat /\ 1..n \subseteq CallIds
         /\ Ordered(events, n) /\ EndedAtLast(events) /\ KindsOK(events)
         /\ RequestsOK(events, n) /\ AttemptsOK(events) /\ ToolsOK(events)
         /\ TablesFollow
         /\ phase = IF checked = 0 THEN "new" ELSE "open"
  BY SeqOfItsElements DEF InOrder, LogOrder, FollowsEvents, Checking, Ordered

(* An attempt is open only until the next event.                           *)
LEMMA NoneOpen ==
  ASSUME InOrder, reading = "validating", NEW k, NEW e, NEW n, Checking(k, e, n),
         ~IsTerminal(e), NEW c \in CallIds
  PROVE  Dangling(c) = {}
  <1>1. SUFFICES ASSUME NEW a \in starts[c], a \notin Terminated(c)
                 PROVE  FALSE
    BY DEF Dangling
  <1>2. PassedAttempt(c, a) /\ ~PassedTerminal(c, a)
    BY <1>1, AtEvent DEF TablesFollow
  <1>3. PICK i \in 1..checked :
          IsAttempt(events[i]) /\ events[i].call = c /\ events[i].attempt = a
    BY <1>2 DEF PassedAttempt
  <1>4. i \in DOMAIN events /\ i + 1 \in 1..k
    BY <1>3, AtEvent
  <1>5. EndsAttempt(events[i + 1], events[i])
    BY <1>3, <1>4, AtEvent DEF AttemptsOK
  <1>6. IsTerminal(events[i + 1]) /\ events[i + 1].call = c /\ events[i + 1].attempt = a
    BY <1>3, <1>5 DEF EndsAttempt
  <1>7. i + 1 # k
    BY <1>6 DEF Checking
  <1>8. i + 1 \in 1..checked
    BY <1>4, <1>7, AtEvent
  <1> QED BY <1>2, <1>6, <1>8 DEF PassedTerminal

(* An event belongs to the call requested last: that one is active.        *)
LEMMA LastRequestIsActive ==
  ASSUME InOrder, reading = "validating", NEW k, NEW e, NEW n, Checking(k, e, n),
         NEW c, NEW i \in {checked, k}, Under(events, i, c), ~IsRequest(e)
  PROVE  c = active /\ c \in CallIds
  <1>0. /\ checked \in Nat /\ k = checked + 1 /\ k \in Nat /\ n \in Nat /\ 1..n \subseteq CallIds
        /\ \A j \in 1..k : j \in DOMAIN events
        /\ RequestsOK(events, n) /\ TablesFollow /\ e = events[k]
    BY AtEvent DEF Checking
  <1>1. PICK r \in 1..i :
          IsRequest(events[r]) /\ events[r].call = c /\ \A j \in (r + 1)..i : ~IsRequest(events[j])
    BY DEF Under
  <1>2. r \in 1..checked
    <2>1. r \in 1..k /\ r # k
      BY <1>0, <1>1
    <2> QED BY <1>0, <2>1
  <1>3. \A j \in (r + 1)..checked : ~IsRequest(events[j])
    BY <1>0, <1>1
  <1>4. Under(events, checked, c)
    BY <1>1, <1>2, <1>3 DEF Under
  <1>5. PassedRequest(c)
    BY <1>1, <1>2 DEF PassedRequest
  <1>6. active # None /\ Under(events, checked, active)
    BY <1>0, <1>5 DEF TablesFollow
  <1>7. c = active
    BY <1>4, <1>6, UnderOne
  <1>8. c \in 1..n
    <2>1. r \in DOMAIN events
      BY <1>0, <1>2
    <2> QED BY <1>0, <1>1, <2>1 DEF RequestsOK
  <1> QED BY <1>0, <1>7, <1>8

LEMMA RequestIsAdmitted ==
  ASSUME InOrder, reading = "validating", NEW k, NEW e, NEW n, Checking(k, e, n),
         phase = "open", IsRequest(e)
  PROVE  MayRequest(e.call) /\ e.call \in CallIds
  <1>0. /\ checked \in Nat /\ k = checked + 1 /\ k \in DOMAIN events /\ e = events[k]
        /\ n \in Nat /\ 1..n \subseteq CallIds
        /\ \A j \in 1..k : j \in DOMAIN events
        /\ RequestsOK(events, n) /\ TablesFollow
    BY AtEvent DEF Checking
  <1>1. e.call \in 1..n
    BY <1>0 DEF RequestsOK
  <1>2. ~Requested(e.call)
    <2>1. SUFFICES ASSUME PassedRequest(e.call) PROVE FALSE
      BY <1>0 DEF TablesFollow
    <2>2. PICK i \in 1..checked : IsRequest(events[i]) /\ events[i].call = e.call
      BY <2>1 DEF PassedRequest
    <2>3. i \in DOMAIN events /\ i < k
      BY <1>0, <2>2
    <2>4. events[i].call < e.call
      BY <1>0, <2>2, <2>3 DEF RequestsOK
    <2> QED BY <1>1, <2>2, <2>4
  <1>3. ASSUME active # None PROVE Dangling(active) = {}
    <2>1. Under(events, checked, active)
      BY <1>0, <1>3 DEF TablesFollow
    <2>2. PICK r \in 1..checked : IsRequest(events[r]) /\ events[r].call = active
      BY <2>1 DEF Under
    <2>3. r \in DOMAIN events
      BY <1>0
    <2>4. active \in CallIds
      BY <1>0, <2>2, <2>3 DEF RequestsOK
    <2> QED BY <2>4, NoneOpen, KindsExclude
  <1> QED BY <1>0, <1>1, <1>2, <1>3 DEF MayRequest

LEMMA AttemptIsAdmitted ==
  ASSUME InOrder, reading = "validating", NEW k, NEW e, NEW n, Checking(k, e, n),
         phase = "open", IsAttempt(e)
  PROVE  MayAttempt(e.call, e.attempt) /\ e.call \in CallIds
  <1>0. /\ checked \in Nat /\ k = checked + 1 /\ k \in DOMAIN events /\ e = events[k]
        /\ \A j \in 1..k : j \in DOMAIN events
        /\ AttemptsOK(events) /\ TablesFollow
    BY AtEvent DEF Checking
  <1>1. Under(events, k, e.call)
    BY <1>0 DEF AttemptsOK
  <1>2. e.call = active /\ e.call \in CallIds
    BY <1>1, LastRequestIsActive, KindsExclude
  <1>3. ASSUME e.attempt \in starts[e.call] PROVE FALSE
    <2>1. PassedAttempt(e.call, e.attempt)
      BY <1>0, <1>2, <1>3 DEF TablesFollow
    <2>2. PICK i \in 1..checked :
            IsAttempt(events[i]) /\ events[i].call = e.call /\ events[i].attempt = e.attempt
      BY <2>1 DEF PassedAttempt
    <2>3. i \in DOMAIN events /\ i # k
      BY <1>0, <2>2
    <2> QED BY <1>0, <2>2, <2>3 DEF AttemptsOK
  <1> QED BY <1>2, <1>3 DEF MayAttempt, Contiguous

LEMMA TerminalIsAdmitted ==
  ASSUME InOrder, reading = "validating", NEW k, NEW e, NEW n, Checking(k, e, n),
         phase = "open", IsTerminal(e)
  PROVE  IsOpen(e.call, e.attempt) /\ e.call \in CallIds
  <1>0. /\ checked \in Nat /\ k = checked + 1 /\ k \in DOMAIN events /\ e = events[k]
        /\ \A j \in 1..k : j \in DOMAIN events
        /\ DOMAIN events = 1..Len(events)
        /\ AttemptsOK(events) /\ TablesFollow
    BY AtEvent DEF Checking
  <1>1. /\ checked \in DOMAIN events /\ IsAttempt(events[checked])
        /\ EndsAttempt(e, events[checked])
    <2>1. k - 1 = checked
      BY <1>0
    <2> QED BY <1>0, <2>1 DEF AttemptsOK
  <1>2. events[checked].call = e.call /\ events[checked].attempt = e.attempt
    BY <1>1 DEF EndsAttempt
  <1>3. Under(events, checked, e.call)
    BY <1>0, <1>1, <1>2 DEF AttemptsOK
  <1>4. e.call = active /\ e.call \in CallIds
    BY <1>3, LastRequestIsActive, KindsExclude
  <1>5. checked \in 1..checked
    BY <1>0, <1>1
  <1>6. e.attempt \in starts[e.call]
    <2>1. PassedAttempt(e.call, e.attempt)
      BY <1>1, <1>2, <1>5 DEF PassedAttempt
    <2> QED BY <1>0, <1>4, <2>1 DEF TablesFollow
  <1>7. ASSUME e.attempt \in Terminated(e.call) PROVE FALSE
    <2>1. PassedTerminal(e.call, e.attempt)
      BY <1>0, <1>4, <1>7 DEF TablesFollow
    <2>2. PICK i \in 1..checked :
            IsTerminal(events[i]) /\ events[i].call = e.call /\ events[i].attempt = e.attempt
      BY <2>1 DEF PassedTerminal
    <2>3. i \in DOMAIN events
      BY <1>0, <2>2
    <2>4. /\ i - 1 \in DOMAIN events /\ IsAttempt(events[i - 1])
          /\ EndsAttempt(events[i], events[i - 1])
      BY <1>0, <2>2, <2>3 DEF AttemptsOK
    <2>5. events[i - 1].call = e.call /\ events[i - 1].attempt = e.attempt
      BY <2>2, <2>4 DEF EndsAttempt
    <2>6. i - 1 = checked
      BY <1>0, <1>1, <1>2, <2>4, <2>5 DEF AttemptsOK
    <2> QED BY <1>0, <2>2, <2>6
  <1> QED BY <1>4, <1>6, <1>7 DEF IsOpen, Contiguous, Dangling

(* What is not admitted is a tool result of an earlier call.               *)
LEMMA OnlyLateIsNotAdmitted ==
  ASSUME InOrder, reading = "validating", NEW k, NEW e, NEW n, Checking(k, e, n), ~Admits(e)
  PROVE  IsToolResult(e) /\ Requested(e.call) /\ e.call # active
  <1>0. /\ checked \in Nat /\ k = checked + 1 /\ k \in DOMAIN events /\ e = events[k]
        /\ phase = (IF checked = 0 THEN "new" ELSE "open")
        /\ KindsOK(events) /\ ToolsOK(events) /\ TablesFollow
        /\ \A j \in 1..k : j \in DOMAIN events
    BY AtEvent DEF Checking
  <1>1. checked # 0
    <2>1. SUFFICES ASSUME checked = 0 PROVE FALSE
      OBVIOUS
    <2>2. k = 1
      BY <1>0, <2>1
    <2>3. e.type = "task_started"
      BY <1>0, <2>2 DEF KindsOK
    <2> QED BY <1>0, <2>1, <2>3 DEF Admits
  <1>2. phase = "open" /\ k # 1
    BY <1>0, <1>1
  <1>3. \/ IsRequest(e) \/ IsAttempt(e) \/ IsTerminal(e) \/ IsToolResult(e) \/ IsEnd(e)
    BY <1>0, <1>2 DEF KindsOK
  <1>4. ~IsRequest(e)
    BY <1>2, RequestIsAdmitted DEF Admits, IsRequest
  <1>5. ~IsAttempt(e)
    BY <1>2, AttemptIsAdmitted DEF Admits, IsAttempt
  <1>6. ~IsTerminal(e)
    BY <1>2, TerminalIsAdmitted DEF Admits, IsTerminal
  <1>7. ~IsEnd(e)
    <2>1. MayFinish
      BY <1>2, <1>6, NoneOpen DEF MayFinish
    <2> QED BY <1>2, <2>1 DEF Admits, IsEnd, EndTypes
  <1>8. IsToolResult(e)
    BY <1>3, <1>4, <1>5, <1>6, <1>7
  <1>9. e.call # active
    BY <1>2, <1>8 DEF Admits, Contiguous
  <1>10. Requested(e.call)
    <2>1. PICK r \in 1..k : IsRequest(events[r]) /\ events[r].call = e.call
      BY <1>0, <1>8 DEF ToolsOK
    <2>2. r # k
      BY <1>0, <1>4, <2>1
    <2>3. r \in 1..checked
      BY <1>0, <2>2
    <2> QED BY <1>0, <2>1, <2>3 DEF TablesFollow, PassedRequest
  <1> QED BY <1>8, <1>9, <1>10

-----------------------------------------------------------------------------
(* One more event is passed, and the tables follow.                        *)
Passes(k, e) == checked \in Nat /\ k = checked + 1 /\ checked' = k /\ events' = events /\ e = events[k]

LEMMA OneMorePassed ==
  ASSUME NEW k, NEW e, Passes(k, e)
  PROVE  /\ \A c : PassedRequest(c)' <=> PassedRequest(c) \/ (IsRequest(e) /\ e.call = c)
         /\ \A c, a :
              PassedAttempt(c, a)' <=>
              PassedAttempt(c, a) \/ (IsAttempt(e) /\ e.call = c /\ e.attempt = a)
         /\ \A c, a :
              PassedTerminal(c, a)' <=>
              PassedTerminal(c, a) \/ (IsTerminal(e) /\ e.call = c /\ e.attempt = a)
  <1>1. \A i : i \in 1..checked' <=> i \in 1..checked \/ i = k
    BY DEF Passes
  <1>2. events' = events /\ e = events[k]
    BY DEF Passes
  <1>3. \A c : PassedRequest(c)' <=> PassedRequest(c) \/ (IsRequest(e) /\ e.call = c)
    BY <1>1, <1>2 DEF PassedRequest
  <1>4. \A c, a :
          PassedAttempt(c, a)' <=>
          PassedAttempt(c, a) \/ (IsAttempt(e) /\ e.call = c /\ e.attempt = a)
    BY <1>1, <1>2 DEF PassedAttempt
  <1>5. \A c, a :
          PassedTerminal(c, a)' <=>
          PassedTerminal(c, a) \/ (IsTerminal(e) /\ e.call = c /\ e.attempt = a)
    BY <1>1, <1>2 DEF PassedTerminal
  <1> QED BY <1>3, <1>4, <1>5

(* The active call stays the last one requested until another is.          *)
LEMMA StaysUnder ==
  ASSUME NEW k, NEW e, Passes(k, e), ~IsRequest(e), NEW c, Under(events, checked, c)
  PROVE  Under(events', checked', c)
  <1>1. PICK r \in 1..checked :
          /\ IsRequest(events[r]) /\ events[r].call = c
          /\ \A j \in (r + 1)..checked : ~IsRequest(events[j])
    BY DEF Under
  <1>2. checked' = k /\ events' = events /\ k = checked + 1 /\ e = events[k] /\ checked \in Nat
    BY DEF Passes
  <1>3. r \in 1..checked' /\ \A j \in (r + 1)..checked' : ~IsRequest(events'[j])
    BY <1>1, <1>2
  <1> QED BY <1>1, <1>2, <1>3 DEF Under

LEMMA OtherEventKeepsTables ==
  ASSUME TablesFollow, NEW k, NEW e, Passes(k, e),
         ~IsRequest(e), ~IsAttempt(e), ~IsTerminal(e),
         UNCHANGED <<requests, active, starts, terminals>>
  PROVE  TablesFollow'
  <1>1. /\ \A c : PassedRequest(c)' <=> PassedRequest(c)
        /\ \A c, a : PassedAttempt(c, a)' <=> PassedAttempt(c, a)
        /\ \A c, a : PassedTerminal(c, a)' <=> PassedTerminal(c, a)
    BY OneMorePassed
  <1>2. active # None => Under(events', checked', active)
    BY StaysUnder DEF TablesFollow
  <1>3. (\A c : Requested(c)' <=> Requested(c)) /\ (\A c : Terminated(c)' = Terminated(c))
    BY DEF Requested, Terminated
  <1> QED BY <1>1, <1>2, <1>3 DEF TablesFollow

LEMMA RequestKeepsTables ==
  ASSUME TablesFollow, NEW k, NEW e, Passes(k, e), IsRequest(e), e.call \in CallIds,
         RequestBuilt(e.call, None)
  PROVE  TablesFollow'
  <1>0. PICK request : request = [call |-> e.call, local |-> None]
    OBVIOUS
  <1>1. /\ request.call = e.call /\ requests' = Append(requests, request) /\ active' = e.call
        /\ UNCHANGED <<starts, terminals>>
    BY <1>0 DEF RequestBuilt
  <1>2. /\ IsSeq(requests') /\ Len(requests) \in Nat
        /\ DOMAIN requests = 1..Len(requests) /\ DOMAIN requests' = 1..Len(requests) + 1
        /\ \A i \in DOMAIN requests : requests'[i] = requests[i]
        /\ requests'[Len(requests) + 1] = request
    BY <1>1, AppendParts DEF TablesFollow
  <1>3. \A c : Requested(c)' <=> Requested(c) \/ c = e.call
    <2>1. \A i : i \in DOMAIN requests' <=> i \in DOMAIN requests \/ i = Len(requests) + 1
      BY <1>2
    <2> QED BY <1>1, <1>2, <2>1 DEF Requested
  <1>4. /\ \A c : PassedRequest(c)' <=> PassedRequest(c) \/ e.call = c
        /\ \A c, a : PassedAttempt(c, a)' <=> PassedAttempt(c, a)
        /\ \A c, a : PassedTerminal(c, a)' <=> PassedTerminal(c, a)
    BY OneMorePassed, KindsExclude
  <1>5. active' # None /\ Under(events', checked', active')
    <2>1. e.call # None
      BY ContractsAssumption
    <2>2. checked' \in 1..checked' /\ \A j : j \notin (checked' + 1)..checked'
      BY DEF Passes
    <2>3. IsRequest(events'[checked']) /\ events'[checked'].call = active'
      BY <1>1 DEF Passes
    <2> QED BY <1>1, <2>1, <2>2, <2>3 DEF Under
  <1>6. \A c : Terminated(c)' = Terminated(c)
    BY <1>1 DEF Terminated
  <1>7. \A c : Requested(c)' <=> PassedRequest(c)'
    BY <1>3, <1>4 DEF TablesFollow
  <1> QED BY <1>1, <1>2, <1>4, <1>5, <1>6, <1>7 DEF TablesFollow

LEMMA AttemptKeepsTables ==
  ASSUME TablesFollow, NEW k, NEW e, Passes(k, e), IsAttempt(e), e.call \in CallIds,
         ApiAttemptStarted(e.call, e.attempt)
  PROVE  TablesFollow'
  <1>1. /\ starts' = [starts EXCEPT ![e.call] = @ \cup {e.attempt}]
        /\ UNCHANGED <<requests, active, terminals>>
    BY DEF ApiAttemptStarted
  <1>2. /\ \A c : PassedRequest(c)' <=> PassedRequest(c)
        /\ \A c, a :
             PassedAttempt(c, a)' <=> PassedAttempt(c, a) \/ (e.call = c /\ e.attempt = a)
        /\ \A c, a : PassedTerminal(c, a)' <=> PassedTerminal(c, a)
    BY OneMorePassed, KindsExclude
  <1>3. active # None => Under(events', checked', active)
    BY StaysUnder, KindsExclude DEF TablesFollow
  <1>4. (\A c : Requested(c)' <=> Requested(c)) /\ (\A c : Terminated(c)' = Terminated(c))
    BY <1>1 DEF Requested, Terminated
  <1>5. starts' = [c \in CallIds |-> starts'[c]]
    BY <1>1 DEF TablesFollow
  <1>6. \A c \in CallIds : \A a :
          a \in starts'[c] <=> a \in starts[c] \/ (e.call = c /\ e.attempt = a)
    BY <1>1 DEF TablesFollow
  <1> QED BY <1>1, <1>2, <1>3, <1>4, <1>5, <1>6 DEF TablesFollow

LEMMA TerminalKeepsTables ==
  ASSUME TablesFollow, NEW k, NEW e, Passes(k, e), IsTerminal(e), e.call \in CallIds,
         NEW completed, ApiTerminal(e.call, e.attempt, completed, e.usage)
  PROVE  TablesFollow'
  <1>0. PICK terminal :
          terminal = [attempt |-> e.attempt, completed |-> completed, usage |-> e.usage]
    OBVIOUS
  <1>1. /\ terminal.attempt = e.attempt
        /\ terminals' = [terminals EXCEPT ![e.call] = Append(@, terminal)]
        /\ UNCHANGED <<requests, active, starts>>
    BY <1>0 DEF ApiTerminal
  <1>2. /\ \A c : PassedRequest(c)' <=> PassedRequest(c)
        /\ \A c, a : PassedAttempt(c, a)' <=> PassedAttempt(c, a)
        /\ \A c, a :
             PassedTerminal(c, a)' <=> PassedTerminal(c, a) \/ (e.call = c /\ e.attempt = a)
    BY OneMorePassed, KindsExclude
  <1>3. active # None => Under(events', checked', active)
    BY StaysUnder, KindsExclude DEF TablesFollow
  <1>4. \A c : Requested(c)' <=> Requested(c)
    BY <1>1 DEF Requested
  <1>5. /\ terminals' = [c \in CallIds |-> terminals'[c]]
        /\ terminals'[e.call] = Append(terminals[e.call], terminal)
        /\ \A c \in CallIds : c # e.call => terminals'[c] = terminals[c]
    BY <1>1 DEF TablesFollow
  <1>6. PICK s, t : s = terminals[e.call] /\ t = terminals'[e.call]
    OBVIOUS
  <1>7. /\ IsSeq(t) /\ Len(s) \in Nat /\ DOMAIN s = 1..Len(s) /\ DOMAIN t = 1..Len(s) + 1
        /\ \A i \in DOMAIN s : t[i] = s[i]
        /\ t[Len(s) + 1] = terminal
    BY <1>5, <1>6, AppendParts DEF TablesFollow
  <1>8. \A a : a \in AttemptsOf(t) <=> a \in AttemptsOf(s) \/ a = e.attempt
    <2>1. \A i : i \in DOMAIN t <=> i \in DOMAIN s \/ i = Len(s) + 1
      BY <1>7
    <2> QED BY <1>1, <1>7, <2>1 DEF AttemptsOf
  <1>9. \A c \in CallIds : IsSeq(terminals'[c])
    BY <1>5, <1>6, <1>7 DEF TablesFollow
  <1>10. \A c \in CallIds : \A a :
           a \in Terminated(c)' <=> a \in Terminated(c) \/ (e.call = c /\ e.attempt = a)
    BY <1>5, <1>6, <1>8 DEF Terminated
  <1> QED BY <1>1, <1>2, <1>3, <1>4, <1>5, <1>9, <1>10 DEF TablesFollow

LEMMA AllowedKeepsOrder ==
  ASSUME InOrder, reading = "validating", Allowed(events[checked + 1]), checked' = checked + 1,
         checked' # Len(events), UNCHANGED <<source, reading, events, CallsRead, pending, callCount, task>>
  PROVE  InOrder'
  <1>1. PICK k, e, n : Checking(k, e, n)
    BY DEF Checking
  <1>2. /\ checked \in Nat /\ k = checked + 1 /\ k \in DOMAIN events /\ e = events[k]
        /\ Len(events) \in Nat /\ DOMAIN events = 1..Len(events)
        /\ EndedAtLast(events) /\ TablesFollow
        /\ phase = (IF checked = 0 THEN "new" ELSE "open")
    BY <1>1, AtEvent DEF Checking
  <1>3. Passes(k, e) /\ Allowed(e)
    BY <1>2 DEF Passes
  <1>4. ~IsEnd(e)
    BY <1>2 DEF EndedAtLast
  <1>5. TablesFollow' /\ phase' = "open"
    <2>1. CASE e.type = "task_started" /\ TaskStarted
      <3>1. /\ ~IsRequest(e) /\ ~IsAttempt(e) /\ ~IsTerminal(e) /\ phase' = "open"
            /\ UNCHANGED <<requests, active, starts, terminals>>
        BY <2>1, KindsExclude DEF TaskStarted
      <3> QED BY <1>2, <1>3, <3>1, OtherEventKeepsTables
    <2>2. CASE e.type = "request_built" /\ RequestBuilt(e.call, None)
      <3>1. IsRequest(e) /\ phase = "open" /\ phase' = "open"
        BY <2>2 DEF IsRequest, RequestBuilt, MayRequest
      <3>2. e.call \in CallIds
        BY <1>1, <3>1, RequestIsAdmitted
      <3> QED BY <1>2, <1>3, <2>2, <3>1, <3>2, RequestKeepsTables
    <2>3. CASE e.type = "api_attempt_started" /\ ApiAttemptStarted(e.call, e.attempt)
      <3>1. IsAttempt(e) /\ phase = "open" /\ phase' = "open"
        BY <2>3 DEF IsAttempt, ApiAttemptStarted, MayAttempt, Contiguous
      <3>2. e.call \in CallIds
        BY <1>1, <3>1, AttemptIsAdmitted
      <3> QED BY <1>2, <1>3, <2>3, <3>1, <3>2, AttemptKeepsTables
    <2>4. CASE /\ e.type \in {"api_completed", "api_failed"}
               /\ ApiTerminal(e.call, e.attempt, e.type = "api_completed", e.usage)
      <3>0. PICK completed : completed = (e.type = "api_completed")
        OBVIOUS
      <3>1. IsTerminal(e) /\ phase = "open" /\ phase' = "open"
        BY <2>4 DEF IsTerminal, ApiTerminal, IsOpen, Contiguous
      <3>2. e.call \in CallIds
        BY <1>1, <3>1, TerminalIsAdmitted
      <3>3. ApiTerminal(e.call, e.attempt, completed, e.usage)
        BY <2>4, <3>0
      <3> QED BY <1>2, <1>3, <3>1, <3>2, <3>3, TerminalKeepsTables
    <2>5. CASE IsToolResult(e) /\ ToolEvent(e.call)
      <3>1. /\ ~IsRequest(e) /\ ~IsAttempt(e) /\ ~IsTerminal(e) /\ phase' = "open"
            /\ UNCHANGED <<requests, active, starts, terminals>>
        BY <2>5, KindsExclude DEF ToolEvent, Contiguous, trajectoryVars
      <3> QED BY <1>2, <1>3, <3>1, OtherEventKeepsTables
    <2> QED BY <1>3, <1>4, <2>1, <2>2, <2>3, <2>4, <2>5 DEF Allowed, IsEnd, EndTypes
  <1>6. checked' \in Nat /\ checked' < Len(events') /\ checked' # 0
    <2>1. PICK m : m = Len(events)
      OBVIOUS
    <2>2. checked' = k /\ m \in Nat /\ k \in 1..m /\ k # m /\ Len(events') = m
      BY <1>2, <2>1
    <2>3. k \in Nat /\ k < m /\ k # 0
      BY <2>2
    <2> QED BY <2>2, <2>3
  <1>7. FollowsEvents'
    BY <1>5, <1>6 DEF FollowsEvents
  <1>8. LogOrder'
    BY DEF InOrder, LogOrder
  <1> QED BY <1>7, <1>8 DEF InOrder

-----------------------------------------------------------------------------
(* While a reader reads, the validator has passed nothing.                 *)
EmptyTables ==
  /\ IsSeq(requests) /\ active = None
  /\ \A c : ~Requested(c)
  /\ starts = [c \in CallIds |-> starts[c]]
  /\ terminals = [c \in CallIds |-> terminals[c]]
  /\ \A c \in CallIds : IsSeq(terminals[c])
  /\ \A c \in CallIds : \A a : a \notin starts[c] /\ a \notin Terminated(c)

LEMMA NothingPassed == checked = 0 => (TablesFollow <=> EmptyTables)
  <1> SUFFICES ASSUME checked = 0 PROVE TablesFollow <=> EmptyTables
    OBVIOUS
  <1>1. \A i : i \notin 1..checked
    OBVIOUS
  <1>2. /\ \A c : ~PassedRequest(c) /\ ~Under(events, checked, c)
        /\ \A c, a : ~PassedAttempt(c, a) /\ ~PassedTerminal(c, a)
    BY <1>1 DEF PassedRequest, PassedAttempt, PassedTerminal, Under
  <1> QED BY <1>2 DEF TablesFollow, EmptyTables

LEMMA NothingPassedYet ==
  checked = 0 /\ TablesFollow /\ UNCHANGED <<checked, trajectoryVars>> => TablesFollow'
  <1>1. EmptyTables /\ UNCHANGED <<checked, trajectoryVars>> => EmptyTables'
    BY DEF EmptyTables, trajectoryVars, Requested, Terminated
  <1>2. checked = 0 /\ UNCHANGED <<checked, trajectoryVars>> => (checked = 0)'
    OBVIOUS
  <1> QED BY <1>1, <1>2, NothingPassed, PTL

LEMMA OrderInitEstablishes == Init => OrderInv
  <1> SUFFICES ASSUME Init PROVE OrderInv
    OBVIOUS
  <1>1. /\ events = <<StartedEvent>> /\ reading = "reading" /\ checked = 0
        /\ TrajectoryInit
        /\ pending = << >> /\ callCount = 0 /\ turnCount = 0 /\ responses = << >>
        /\ task = NoTask
    BY DEF Init, LogInit, SwebenchInit, SokobanInit, OpenHandsInit
  <1>2. CallsRead = 0
    BY <1>1 DEF CallsRead
  <1>3. Ordered(events, 0) /\ NotEnded(events)
    BY <1>1, StartIsOrdered
  <1>4. 1..0 = {} /\ task.calls = 0 /\ DOMAIN pending = {}
    BY <1>1 DEF NoTask
  <1>5. LogOrder
    BY <1>1, <1>2, <1>3, <1>4 DEF LogOrder
  <1>6. TablesFollow
    <2>1. /\ requests = << >> /\ active = None
          /\ starts = [c \in CallIds |-> {}] /\ terminals = [c \in CallIds |-> << >>]
      BY <1>1 DEF TrajectoryInit
    <2>2. IsSeq(<< >>)
      BY SmallSequences
    <2>3. \A c : ~Requested(c)
      BY <2>1 DEF Requested
    <2>4. \A c \in CallIds : starts[c] = {} /\ terminals[c] = << >> /\ Terminated(c) = {}
      BY <2>1 DEF Terminated, AttemptsOf
    <2> QED BY <1>1, <2>1, <2>2, <2>3, <2>4, NothingPassed DEF EmptyTables
  <1>7. FollowsEvents
    <2>1. Len(events) > 0
      BY <1>3 DEF Ordered
    <2>2. phase = "new"
      BY <1>1 DEF TrajectoryInit
    <2> QED BY <1>1, <1>6, <2>1, <2>2 DEF FollowsEvents
  <1>8. phase # "refused"
    BY <1>1 DEF TrajectoryInit
  <1> QED BY <1>5, <1>7, <1>8 DEF OrderInv, InOrder, OnlyLateToolsAreRefused

LEMMA ReadersLeaveTables ==
  SwebenchStep \/ SokobanStep \/ OpenHandsStep => UNCHANGED <<checked, trajectoryVars>>
  <1>1. SwebenchStep => UNCHANGED <<checked, trajectoryVars>>
    BY DEF SwebenchStep, ConsumeAssistant, ConsumeInterruption, ConsumeTool, ConsumeExit,
           RejectSwebench, RaiseSchemaError
  <1>2. SokobanStep => UNCHANGED <<checked, trajectoryVars>>
    BY DEF SokobanStep, ReadTurn, FinishRollout, RejectSokoban, RaiseSchemaError
  <1>3. OpenHandsStep => UNCHANGED <<checked, trajectoryVars>>
    BY DEF OpenHandsStep, ReadCompletion, ReadLoggedCompletion, EndOpenHandsTask, FinishTask,
           RejectOpenHands, RaiseSchemaError
  <1> QED BY <1>1, <1>2, <1>3

LEMMA ReaderKeepsOrder ==
  ASSUME OrderInv, reading = "reading", UNCHANGED <<checked, trajectoryVars>>,
         reading' # "raised" => LogOrder'
  PROVE  OrderInv'
  <1>1. checked = 0 /\ phase = "new" /\ TablesFollow
    BY DEF OrderInv, InOrder, FollowsEvents
  <1>2. checked' = 0 /\ phase' = "new" /\ TablesFollow'
    BY <1>1, NothingPassedYet DEF trajectoryVars
  <1>3. ASSUME LogOrder' PROVE InOrder'
    <2>1. Len(events') > 0
      BY <1>3 DEF LogOrder, Ordered
    <2>2. FollowsEvents'
      BY <1>2, <2>1 DEF FollowsEvents
    <2> QED BY <1>3, <2>2 DEF InOrder
  <1> QED BY <1>2, <1>3 DEF OrderInv, OnlyLateToolsAreRefused

LEMMA ValidateKeepsOrder ==
  ASSUME OrderInv, ValidateEvent
  PROVE  OrderInv'
  <1>1. /\ reading = "validating" /\ events' = events
        /\ UNCHANGED <<source, pending, callCount, turnCount, responses, task>>
    BY DEF ValidateEvent, Validate, readerVars, swebenchVars, sokobanVars, openHandsVars
  <1>2. InOrder /\ phase # "refused"
    BY <1>1 DEF OrderInv
  <1>3. PICK k, e, n : Checking(k, e, n)
    BY DEF Checking
  <1>4. k = checked + 1 /\ e = events[checked + 1]
    BY <1>3 DEF Checking
  <1>5. CASE /\ Allowed(e)
             /\ checked' = checked + 1
             /\ reading' = IF checked' = Len(events) THEN "accepted" ELSE reading
    <2>1. phase' # "refused"
      BY <1>2, <1>5
      DEF Allowed, TaskStarted, RequestBuilt, ApiAttemptStarted, ApiTerminal, ToolEvent,
          TaskFinished, trajectoryVars
    <2>2. CASE checked' = Len(events)
      BY <1>1, <1>5, <2>1, <2>2 DEF OrderInv, OnlyLateToolsAreRefused
    <2>3. CASE checked' # Len(events)
      <3>1. CallsRead' = CallsRead
        BY <1>1 DEF CallsRead
      <3>2. InOrder'
        BY <1>1, <1>2, <1>4, <1>5, <2>3, <3>1, AllowedKeepsOrder
      <3> QED BY <2>1, <3>2 DEF OrderInv, OnlyLateToolsAreRefused
    <2> QED BY <2>2, <2>3
  <1>6. CASE ~Admits(e) /\ Refuse /\ reading' = "raised" /\ checked' = checked
    <2>1. IsToolResult(e) /\ Requested(e.call) /\ e.call # active
      BY <1>1, <1>2, <1>3, <1>6, OnlyLateIsNotAdmitted
    <2>2. requests' = requests /\ active' = active
      BY <1>6 DEF Refuse
    <2>3. OnlyLateToolsAreRefused'
      BY <1>1, <1>4, <1>6, <2>1, <2>2 DEF OnlyLateToolsAreRefused, Requested
    <2> QED BY <1>6, <2>3 DEF OrderInv
  <1> QED BY <1>4, <1>5, <1>6 DEF ValidateEvent, Validate

LEMMA OrderNextPreserves == ToolsInv /\ OrderInv /\ [Next]_vars => OrderInv'
  <1> SUFFICES ASSUME ToolsInv, OrderInv, [Next]_vars PROVE OrderInv'
    OBVIOUS
  <1>0. reading = "reading" => LogOrder
    BY DEF OrderInv, InOrder
  <1>1. CASE ReadSwebench
    <2>1. /\ source = "swebench" /\ source' = source /\ SwebenchStep /\ reading = "reading"
          /\ UNCHANGED <<checked, trajectoryVars>>
      BY <1>1, ReaderIsReading, ReadersLeaveTables DEF ReadSwebench
    <2>2. reading' # "raised" => LogOrder'
      BY <1>0, <2>1, SwebenchOrderStep DEF ToolsInv, LogIsKept
    <2> QED BY <2>1, <2>2, ReaderKeepsOrder
  <1>2. CASE ReadSokoban
    <2>1. /\ source = "sokoban" /\ source' = source /\ SokobanStep /\ reading = "reading"
          /\ UNCHANGED <<checked, trajectoryVars>>
      BY <1>2, ReaderIsReading, ReadersLeaveTables DEF ReadSokoban
    <2>2. reading' # "raised" => LogOrder'
      BY <1>0, <2>1, SokobanOrderStep
    <2> QED BY <2>1, <2>2, ReaderKeepsOrder
  <1>3. CASE ReadOpenHands
    <2>1. /\ source = "openhands" /\ source' = source /\ OpenHandsStep /\ reading = "reading"
          /\ UNCHANGED <<checked, trajectoryVars>>
      BY <1>3, ReaderIsReading, ReadersLeaveTables DEF ReadOpenHands
    <2>2. reading' # "raised" => LogOrder'
      BY <1>0, <2>1, OpenHandsOrderStep DEF ToolsInv, LogIsKept
    <2> QED BY <2>1, <2>2, ReaderKeepsOrder
  <1>4. CASE ReadArchive \/ \E t \in Tasks : FollowTask(t)
    <2>1. /\ source = "openhands" /\ reading = "reading"
          /\ UNCHANGED <<source, reading, events, responses, checked, trajectoryVars>>
          /\ task' = task \/ 1..task'.calls \subseteq CallIds
      <3>1. CASE ReadArchive
        BY <3>1 DEF ReadArchive, logVars, openHandsVars
      <3>2. CASE \E t \in Tasks : FollowTask(t)
        <4>1. PICK t \in Tasks : FollowTask(t)
          BY <3>2
        <4>2. PICK calls : /\ 1..calls \subseteq CallIds
                           /\ task' = [calls |-> calls, logged |-> evidence.logs[t] # 0]
          BY <4>1 DEF FollowTask
        <4>3. task'.calls = calls
          BY <4>2
        <4> QED BY <4>1, <4>2, <4>3 DEF FollowTask, logVars
      <3> QED BY <1>4, <3>1, <3>2
    <2>2. CallsRead' = CallsRead
      BY <2>1 DEF CallsRead
    <2>3. LogOrder'
      BY <1>0, <2>1, <2>2 DEF LogOrder
    <2> QED BY <2>1, <2>3, ReaderKeepsOrder
  <1>5. CASE ValidateEvent
    BY <1>5, ValidateKeepsOrder
  <1>6. CASE WriteFile
    BY <1>6 DEF WriteFile, OrderInv, OnlyLateToolsAreRefused
  <1>7. CASE Replay
    <2>1. reading' = "dropped" /\ phase' = phase /\ reading = "dropped"
      BY <1>7 DEF Replay, logVars, trajectoryVars
    <2> QED BY <2>1 DEF OrderInv, OnlyLateToolsAreRefused
  <1>8. CASE UNCHANGED vars
    <2>1. /\ UNCHANGED <<source, logVars, trajectoryVars>>
          /\ UNCHANGED <<pending, callCount, turnCount, responses, task>>
      BY <1>8 DEF vars, readerVars, swebenchVars, sokobanVars, openHandsVars
    <2>2. CallsRead' = CallsRead
      BY <2>1 DEF CallsRead
    <2>3. LogOrder => LogOrder'
      BY <2>1, <2>2 DEF LogOrder, logVars
    <2>4. FollowsEvents => FollowsEvents'
      BY <2>1 DEF FollowsEvents, TablesFollow, logVars, trajectoryVars, Requested, Terminated,
                  PassedRequest, PassedAttempt, PassedTerminal
    <2>5. OnlyLateToolsAreRefused => OnlyLateToolsAreRefused'
      BY <2>1 DEF OnlyLateToolsAreRefused, logVars, trajectoryVars, Requested
    <2> QED BY <2>1, <2>3, <2>4, <2>5 DEF OrderInv, InOrder, logVars, trajectoryVars
  <1> QED BY <1>1, <1>2, <1>3, <1>4, <1>5, <1>6, <1>7, <1>8 DEF Next

LEMMA OrderInvHolds == Spec => []OrderInv
  BY OrderInitEstablishes, OrderNextPreserves, ToolsInvHolds, PTL DEF Spec

(* A reader that accepts a log writes its events in an order the grammar   *)
(* allows, except that a tool result may come after a later call's request *)
(* (validate_trajectory against the three readers).                        *)
THEOREM OnlyLateAreRefused == Spec => []OnlyLateToolsAreRefused
  <1>1. OrderInv => OnlyLateToolsAreRefused
    BY DEF OrderInv
  <1> QED BY <1>1, OrderInvHolds, PTL

-----------------------------------------------------------------------------
(* The aggregate and the ledger.                                           *)
(*                                                                         *)
(* The usage of a task is added up twice.  A reader keeps its own list or  *)
(* sums while it writes events, and states the result in the last event;   *)
(* the ledger is made from the terminals that the validator passes, call   *)
(* by call.  The two never look at each other, so the invariant compares   *)
(* both with a third sum, of what the terminal events themselves say:      *)
(*   - LogAdds: what a reader has added up is the sum over the events it   *)
(*     wrote, and the list has a usage that is not complete if and only if *)
(*     an event has; at the end this is what the last event states;        *)
(*   - LedgerFollows: the sum over the passed events is the sum, over the  *)
(*     requests, of the sums over their calls' terminals, which needs that *)
(*     no call is requested twice and none has a terminal unrequested.     *)
(* A log is accepted when all its events are passed: the sums then meet.   *)

(* What a log's events add up to, and whether every attempt says what it   *)
(* used.                                                                   *)
UsageTotal(usage) == IF IsComplete(usage) THEN AccountedTotal(usage) ELSE 0

EventTotal(e) == IF IsTerminal(e) THEN UsageTotal(e.usage) ELSE 0

TotalUpTo(s, n) == SumFunctionOnSet([i \in 1..n |-> EventTotal(s[i])], 1..n)

TotalOf(s) == TotalUpTo(s, Len(s))

UsagesOK(s) ==
  \A i \in DOMAIN s : IsTerminal(s[i]) =>
    s[i].usage \in TokenUsage /\ ~TotalMismatch(s[i].usage)

IsWhole(s) == \A i \in DOMAIN s : IsTerminal(s[i]) => IsComplete(s[i].usage)

HasTerminal(s) == \E i \in DOMAIN s : IsTerminal(s[i])

EveryCallEnds(s) ==
  \A i \in DOMAIN s : IsRequest(s[i]) =>
    \E k \in DOMAIN s : IsTerminal(s[k]) /\ s[k].call = s[i].call

-----------------------------------------------------------------------------
LEMMA UsageTotalType ==
  ASSUME NEW usage \in TokenUsage
  PROVE  /\ UsageTotal(usage) \in Nat
         /\ IsComplete(usage) =>
              /\ usage.input_tokens \in Nat /\ usage.output_tokens \in Nat
              /\ AccountedTotal(usage) \in Nat
  <1>1. usage.input_tokens \in OptNat /\ usage.output_tokens \in OptNat
    BY DEF TokenUsage
  <1>2. IsComplete(usage) => usage.input_tokens \in Nat /\ usage.output_tokens \in Nat
    BY <1>1 DEF IsComplete, OptNat
  <1>3. IsComplete(usage) => AccountedTotal(usage) \in Nat
    BY <1>2 DEF AccountedTotal
  <1> QED BY <1>2, <1>3 DEF UsageTotal

LEMMA EventTotalType ==
  ASSUME NEW s, UsagesOK(s), NEW i \in DOMAIN s
  PROVE  EventTotal(s[i]) \in Nat
  BY UsageTotalType DEF UsagesOK, EventTotal

LEMMA IntervalIsFinite ==
  ASSUME NEW n \in Nat
  PROVE  IsFiniteSet(1..n)
  <1>1. 1 \in Int /\ n \in Int
    OBVIOUS
  <1> QED BY <1>1, FS_Interval

LEMMA TotalUpToType ==
  ASSUME NEW s, IsSeq(s), UsagesOK(s), NEW n \in Nat, n <= Len(s)
  PROVE  TotalUpTo(s, n) \in Nat
  <1>1. Len(s) \in Nat /\ DOMAIN s = 1..Len(s)
    BY SeqOfItsElements
  <1>2. PICK f : f = [i \in 1..n |-> EventTotal(s[i])]
    OBVIOUS
  <1>3. \A i \in 1..n : f[i] \in Nat
    <2> SUFFICES ASSUME NEW i \in 1..n PROVE f[i] \in Nat
      OBVIOUS
    <2>1. i \in DOMAIN s
      BY <1>1
    <2> QED BY <1>2, <2>1, EventTotalType
  <1>4. SumFunctionOnSet(f, 1..n) \in Nat
    <2>1. PICK S : S = 1..n
      OBVIOUS
    <2>2. IsFiniteSet(S) /\ Nat \in {Nat, Int} /\ \A i \in S : f[i] \in Nat
      BY <1>3, <2>1, IntervalIsFinite
    <2>3. SumFunctionOnSet(f, S) \in Nat
      BY <2>2, SumType
    <2> QED BY <2>1, <2>3
  <1> QED BY <1>2, <1>4 DEF TotalUpTo

(* The next event adds its total.                                          *)
LEMMA NextTotal ==
  ASSUME NEW s, IsSeq(s), UsagesOK(s), NEW n \in Nat, n + 1 \in DOMAIN s
  PROVE  TotalUpTo(s, n + 1) = TotalUpTo(s, n) + EventTotal(s[n + 1])
  <1>1. Len(s) \in Nat /\ DOMAIN s = 1..Len(s)
    BY SeqOfItsElements
  <1>2. PICK f, g, m : /\ f = [i \in 1..n |-> EventTotal(s[i])]
                       /\ g = [i \in 1..m |-> EventTotal(s[i])]
                       /\ m = n + 1
    OBVIOUS
  <1>3. \A i \in 1..m : g[i] = EventTotal(s[i]) /\ i \in DOMAIN s
    BY <1>1, <1>2
  <1>4. \A i \in 1..m : g[i] \in Int
    BY <1>3, EventTotalType
  <1>5. \A i \in 1..n : f[i] = g[i]
    BY <1>2
  <1>6. SumFunctionOnSet(g, 1..m) = SumFunctionOnSet(f, 1..n) + g[m]
    BY <1>2, <1>4, <1>5, SumNext
  <1>7. m \in 1..m
    BY <1>2
  <1> QED BY <1>2, <1>3, <1>6, <1>7 DEF TotalUpTo

(* Pieces add up.                                                          *)
LEMMA TotalOfConcat ==
  ASSUME NEW s, NEW t, IsSeq(s), IsSeq(t), UsagesOK(s), UsagesOK(t)
  PROVE  /\ UsagesOK(s \o t)
         /\ TotalOf(s \o t) = TotalOf(s) + TotalOf(t)
         /\ IsWhole(s \o t) <=> IsWhole(s) /\ IsWhole(t)
         /\ HasTerminal(s \o t) <=> HasTerminal(s) \/ HasTerminal(t)
         /\ EveryCallEnds(s) /\ EveryCallEnds(t) => EveryCallEnds(s \o t)
  <1>1. PICK u, m, l : u = s \o t /\ m = Len(s) /\ l = Len(t)
    OBVIOUS
  <1>2. /\ IsSeq(u) /\ m \in Nat /\ l \in Nat /\ Len(u) = m + l
        /\ DOMAIN s = 1..m /\ DOMAIN t = 1..l /\ DOMAIN u = 1..(m + l)
        /\ \A i \in 1..m : u[i] = s[i]
        /\ \A j \in 1..l : u[m + j] = t[j]
    BY <1>1, Joining DEF Joined
  <1>3. ASSUME NEW i \in DOMAIN u
        PROVE  \/ i \in DOMAIN s /\ u[i] = s[i]
               \/ \E j \in DOMAIN t : i = m + j /\ u[i] = t[j]
    <2>1. CASE i <= m
      BY <1>2, <2>1
    <2>2. CASE i > m
      <3>1. i - m \in 1..l /\ i = m + (i - m)
        BY <1>2, <2>2
      <3> QED BY <1>2, <3>1
    <2> QED BY <1>2, <2>1, <2>2
  <1>4. /\ \A i \in DOMAIN s : i \in DOMAIN u /\ u[i] = s[i]
        /\ \A j \in DOMAIN t : m + j \in DOMAIN u /\ u[m + j] = t[j]
    BY <1>2
  <1>5. UsagesOK(u)
    BY <1>3 DEF UsagesOK
  <1>6. IsWhole(u) <=> IsWhole(s) /\ IsWhole(t)
    <2>1. IsWhole(s) /\ IsWhole(t) => IsWhole(u)
      BY <1>3 DEF IsWhole
    <2>2. IsWhole(u) => IsWhole(s) /\ IsWhole(t)
      BY <1>4 DEF IsWhole
    <2> QED BY <2>1, <2>2
  <1>7. HasTerminal(u) <=> HasTerminal(s) \/ HasTerminal(t)
    <2>1. HasTerminal(u) => HasTerminal(s) \/ HasTerminal(t)
      BY <1>3 DEF HasTerminal
    <2>2. HasTerminal(s) \/ HasTerminal(t) => HasTerminal(u)
      BY <1>4 DEF HasTerminal
    <2> QED BY <2>1, <2>2
  <1>8. EveryCallEnds(s) /\ EveryCallEnds(t) => EveryCallEnds(u)
    <2> SUFFICES ASSUME EveryCallEnds(s), EveryCallEnds(t), NEW i \in DOMAIN u, IsRequest(u[i])
                 PROVE  \E k \in DOMAIN u : IsTerminal(u[k]) /\ u[k].call = u[i].call
      BY DEF EveryCallEnds
    <2>1. CASE i \in DOMAIN s /\ u[i] = s[i]
      BY <1>4, <2>1 DEF EveryCallEnds
    <2>2. CASE \E j \in DOMAIN t : i = m + j /\ u[i] = t[j]
      BY <1>4, <2>2 DEF EveryCallEnds
    <2> QED BY <1>3, <2>1, <2>2
  <1>9. TotalOf(u) = TotalOf(s) + TotalOf(t)
    <2>1. PICK f, g, h, p :
            /\ f = [i \in 1..(m + l) |-> EventTotal(u[i])]
            /\ g = [i \in 1..m |-> EventTotal(s[i])]
            /\ h = [j \in 1..l |-> EventTotal(t[j])]
            /\ p = [j \in 1..l |-> m + j]
      OBVIOUS
    <2>2. PICK R : R = {p[j] : j \in 1..l}
      OBVIOUS
    <2>4. 1..m \cap R = {} /\ 1..m \cup R = 1..(m + l)
      <3>1. \A i : i \in R <=> \E j \in 1..l : i = m + j
        BY <2>1, <2>2
      <3>2. \A i \in 1..(m + l) : i \in 1..m \/ i \in R
        <4> SUFFICES ASSUME NEW i \in 1..(m + l), ~(i \in 1..m) PROVE i \in R
          OBVIOUS
        <4>1. i - m \in 1..l /\ i = m + (i - m)
          BY <1>2
        <4> QED BY <3>1, <4>1
      <3>3. \A i \in R : i \in 1..(m + l) /\ ~(i \in 1..m)
        BY <1>2, <3>1
      <3>4. \A i \in 1..m : i \in 1..(m + l)
        BY <1>2
      <3> QED BY <3>2, <3>3, <3>4
    <2>3. IsFiniteSet(1..m) /\ IsFiniteSet(1..l) /\ IsFiniteSet(R)
      <3>1. IsFiniteSet(1..m) /\ IsFiniteSet(1..l) /\ IsFiniteSet(1..(m + l))
        BY <1>2, IntervalIsFinite
      <3>2. R \subseteq 1..(m + l)
        BY <2>4
      <3> QED BY <3>1, <3>2, FS_Subset
    <2>5. \A i \in 1..(m + l) : f[i] \in Int
      BY <1>2, <1>5, <2>1, EventTotalType
    <2>6. SumFunctionOnSet(f, 1..m \cup R) = SumFunctionOnSet(f, 1..m) + SumFunctionOnSet(f, R)
      <3>1. PICK S : S = 1..m
        OBVIOUS
      <3>2. \A i \in S \cup R : f[i] \in Int
        BY <2>4, <2>5, <3>1
      <3> QED BY <2>3, <2>4, <3>1, <3>2, SumDisjoint
    <2>7. SumFunctionOnSet(f, 1..m) = SumFunctionOnSet(g, 1..m)
      <3>1. \A i \in 1..m : f[i] = g[i]
        BY <1>2, <2>1
      <3> QED BY <2>3, <3>1, SumSame
    <2>8. SumFunctionOnSet(f, R) = SumFunctionOnSet(h, 1..l)
      <3>1. PICK I : I = 1..l
        OBVIOUS
      <3>2. /\ \A i, j \in I : p[i] = p[j] => i = j
            /\ \A j \in I : p[j] \in 1..(m + l) /\ f[p[j]] = h[j]
        BY <1>2, <2>1, <3>1
      <3>3. IsFiniteSet(I) /\ R = {p[j] : j \in I} /\ \A j \in I : f[p[j]] \in Int
        BY <2>2, <2>3, <2>5, <3>1, <3>2
      <3>4. PICK q : q = [j \in I |-> f[p[j]]]
        OBVIOUS
      <3>5. SumFunctionOnSet(f, {p[j] : j \in I}) = SumFunctionOnSet(q, I)
        BY <3>2, <3>3, <3>4, SumImage
      <3>6. SumFunctionOnSet(q, I) = SumFunctionOnSet(h, I)
        <4>1. \A j \in I : q[j] = h[j]
          BY <3>2, <3>4
        <4> QED BY <3>3, <4>1, SumSame
      <3> QED BY <3>1, <3>3, <3>5, <3>6
    <2>9. /\ TotalOf(u) = SumFunctionOnSet(f, 1..(m + l))
          /\ TotalOf(s) = SumFunctionOnSet(g, 1..m)
          /\ TotalOf(t) = SumFunctionOnSet(h, 1..l)
      BY <1>1, <1>2, <2>1 DEF TotalOf, TotalUpTo
    <2> QED BY <2>4, <2>6, <2>7, <2>8, <2>9
  <1> QED BY <1>1, <1>5, <1>6, <1>7, <1>8, <1>9

(* A piece without the end of an attempt adds nothing.                     *)
LEMMA NothingUsed ==
  ASSUME NEW t, IsSeq(t), \A i \in DOMAIN t : ~IsTerminal(t[i])
  PROVE  UsagesOK(t) /\ TotalOf(t) = 0 /\ IsWhole(t) /\ ~HasTerminal(t)
  <1>1. Len(t) \in Nat /\ DOMAIN t = 1..Len(t)
    BY SeqOfItsElements
  <1>2. PICK f, S : S = 1..Len(t) /\ f = [i \in S |-> EventTotal(t[i])]
    OBVIOUS
  <1>3. IsFiniteSet(S) /\ \A i \in S : f[i] = 0
    BY <1>1, <1>2, IntervalIsFinite DEF EventTotal
  <1>4. TotalOf(t) = 0
    BY <1>2, <1>3, SumZero DEF TotalOf, TotalUpTo
  <1> QED BY <1>4 DEF UsagesOK, IsWhole, HasTerminal

LEMMA CallUses ==
  ASSUME NEW c, NEW completed, NEW usage \in TokenUsage, ~TotalMismatch(usage), NEW t,
         t = <<RequestEvent(c), AttemptEvent(c, FirstAttempt),
               TerminalEvent(c, FirstAttempt, completed, usage)>>
  PROVE  /\ IsSeq(t) /\ UsagesOK(t) /\ TotalOf(t) = UsageTotal(usage)
         /\ IsWhole(t) <=> IsComplete(usage)
         /\ HasTerminal(t) /\ EveryCallEnds(t)
  <1>1. PICK r, a, e :
          /\ r = RequestEvent(c) /\ a = AttemptEvent(c, FirstAttempt)
          /\ e = TerminalEvent(c, FirstAttempt, completed, usage)
    OBVIOUS
  <1>2. /\ IsRequest(r) /\ r.call = c /\ IsAttempt(a)
        /\ IsTerminal(e) /\ e.call = c /\ e.usage = usage
    BY <1>1 DEF RequestEvent, AttemptEvent, TerminalEvent, IsRequest, IsAttempt, IsTerminal
  <1>3. t = <<r, a, e>>
    BY <1>1
  <1>4. IsSeq(t) /\ Len(t) = 3 /\ DOMAIN t = 1..3 /\ t[1] = r /\ t[2] = a /\ t[3] = e
    BY <1>3, SmallSequences
  <1>5. \A i \in DOMAIN t : /\ IsTerminal(t[i]) <=> i = 3
                            /\ IsRequest(t[i]) <=> i = 1
    <2> SUFFICES ASSUME NEW i \in {1, 2, 3}
                 PROVE  (IsTerminal(t[i]) <=> i = 3) /\ (IsRequest(t[i]) <=> i = 1)
      BY <1>4
    <2> QED BY <1>2, <1>4, KindsExclude
  <1>6. 3 \in DOMAIN t
    BY <1>4
  <1>7. /\ UsagesOK(t) /\ (IsWhole(t) <=> IsComplete(usage))
        /\ HasTerminal(t) /\ EveryCallEnds(t)
    BY <1>2, <1>4, <1>5, <1>6 DEF UsagesOK, IsWhole, HasTerminal, EveryCallEnds
  <1>8. TotalOf(t) = UsageTotal(usage)
    <2>1. PICK f, S : S = 1..3 /\ f = [i \in S |-> EventTotal(t[i])]
      OBVIOUS
    <2>2. IsFiniteSet(S) /\ {3} \subseteq S /\ 3 \in S
      <3>1. IsFiniteSet(1..3)
        BY IntervalIsFinite
      <3>2. 3 \in 1..3
        OBVIOUS
      <3> QED BY <2>1, <3>1, <3>2
    <2>3. f[3] = UsageTotal(usage) /\ f[3] \in Int
      BY <1>2, <1>4, <2>1, <2>2, UsageTotalType DEF EventTotal
    <2>4. \A i \in S \ {3} : f[i] = 0
      BY <1>4, <1>5, <2>1 DEF EventTotal
    <2>5. SumFunctionOnSet(f, S) = SumFunctionOnSet(f, {3})
      BY <2>2, <2>3, <2>4, SumWhere
    <2>6. SumFunctionOnSet(f, {3}) = f[3]
      <3>1. SumFunctionOnSet(f, {} \cup {3}) = SumFunctionOnSet(f, {}) + f[3]
        BY <2>3, SumAdd, FS_EmptySet
      <3>2. {} \cup {3} = {3}
        OBVIOUS
      <3> QED BY <2>3, <3>1, <3>2, SumEmpty
    <2>7. TotalOf(t) = SumFunctionOnSet(f, S)
      BY <1>4, <2>1 DEF TotalOf, TotalUpTo
    <2> QED BY <2>3, <2>5, <2>6, <2>7
  <1> QED BY <1>4, <1>7, <1>8

-----------------------------------------------------------------------------
(* Input and output are added up each by itself.                           *)
LEMMA SumOfUsages ==
  ASSUME NEW K, IsFiniteSet(K), NEW us,
         \A k \in K : us[k] \in TokenUsage /\ IsComplete(us[k]),
         NEW input, input = SumFunction([k \in K |-> us[k].input_tokens]),
         NEW output, output = SumFunction([k \in K |-> us[k].output_tokens])
  PROVE  /\ input \in Nat /\ output \in Nat
         /\ input + output = SumFunctionOnSet([k \in K |-> UsageTotal(us[k])], K)
  <1>1. PICK f, g, h : /\ f = [k \in K |-> us[k].input_tokens]
                       /\ g = [k \in K |-> us[k].output_tokens]
                       /\ h = [k \in K |-> UsageTotal(us[k])]
    OBVIOUS
  <1>2. DOMAIN f = K /\ DOMAIN g = K
    BY <1>1
  <1>3. input = SumFunctionOnSet(f, K) /\ output = SumFunctionOnSet(g, K)
    BY <1>1, <1>2 DEF SumFunction
  <1>4. ASSUME NEW k \in K
        PROVE  f[k] \in Nat /\ g[k] \in Nat /\ h[k] = f[k] + g[k]
    <2>1. PICK u \in TokenUsage : u = us[k] /\ IsComplete(u)
      OBVIOUS
    <2>2. u.input_tokens \in Nat /\ u.output_tokens \in Nat
      BY <2>1, UsageTotalType
    <2>3. f[k] = u.input_tokens /\ g[k] = u.output_tokens /\ h[k] = UsageTotal(u)
      BY <1>1, <2>1
    <2> QED BY <2>1, <2>2, <2>3 DEF UsageTotal, AccountedTotal
  <1>5. input \in Nat /\ output \in Nat
    <2>1. Nat \in {Nat, Int}
      OBVIOUS
    <2> QED BY <1>3, <1>4, <2>1, SumType
  <1>6. SumFunctionOnSet(h, K) = SumFunctionOnSet(f, K) + SumFunctionOnSet(g, K)
    <2>1. \A k \in K : f[k] \in Int /\ g[k] \in Int /\ h[k] = f[k] + g[k]
      BY <1>4
    <2> QED BY <2>1, SumPlus
  <1> QED BY <1>1, <1>3, <1>5, <1>6

(* A total that is filled in changes no count.                             *)
LEMMA StatedTotal ==
  ASSUME NEW usage \in TokenUsage, IsComplete(usage), NEW stated,
         stated = [usage EXCEPT !.reported_total_tokens = AccountedTotal(usage)]
  PROVE  /\ stated \in TokenUsage /\ IsComplete(stated) /\ ~TotalMismatch(stated)
         /\ UsageTotal(stated) = UsageTotal(usage)
  <1>1. AccountedTotal(usage) \in OptNat
    BY UsageTotalType DEF OptNat
  <1>2. /\ stated \in TokenUsage
        /\ stated.input_tokens = usage.input_tokens
        /\ stated.output_tokens = usage.output_tokens
        /\ stated.reported_total_tokens = AccountedTotal(usage)
    BY <1>1 DEF TokenUsage
  <1>3. IsComplete(stated) /\ AccountedTotal(stated) = AccountedTotal(usage)
    BY <1>2 DEF IsComplete, AccountedTotal
  <1> QED BY <1>2, <1>3 DEF TotalMismatch, UsageTotal

LEMMA NoUsageFacts ==
  /\ NoUsage \in TokenUsage /\ ~IsComplete(NoUsage) /\ ~TotalMismatch(NoUsage)
  /\ UsageTotal(NoUsage) = 0
  <1>1. NoUsage \in TokenUsage
    BY DEF NoUsage, TokenUsage, OptNat
  <1>2. ~IsComplete(NoUsage)
    BY DEF NoUsage, IsComplete
  <1> QED BY <1>1, <1>2 DEF TotalMismatch, UsageTotal

(* The usage that the readers write on a terminal event.                   *)
LEMMA WithTotalFacts ==
  ASSUME NEW usage \in Usages \cup {NoUsage}, Readable(usage)
  PROVE  /\ WithTotal(usage) \in TokenUsage /\ ~TotalMismatch(WithTotal(usage))
         /\ IsComplete(WithTotal(usage)) <=> IsComplete(usage)
  <1>1. usage \in TokenUsage
    BY ContractsAssumption, NoUsageFacts
  <1>2. CASE IsComplete(usage)
    BY <1>1, <1>2, StatedTotal DEF WithTotal
  <1>3. CASE ~IsComplete(usage)
    BY <1>1, <1>3 DEF WithTotal, TotalMismatch
  <1> QED BY <1>2, <1>3

LEMMA MappedUsageFacts ==
  ASSUME NEW usage \in Usages
  PROVE  /\ MappedUsage(usage) \in TokenUsage /\ ~TotalMismatch(MappedUsage(usage))
         /\ UsageTotal(MappedUsage(usage)) = UsageTotal(usage)
  <1>1. usage \in TokenUsage
    BY ContractsAssumption
  <1>2. CASE IsComplete(usage)
    BY <1>1, <1>2, StatedTotal DEF MappedUsage
  <1>3. CASE ~IsComplete(usage)
    BY <1>3, NoUsageFacts DEF MappedUsage, UsageTotal
  <1> QED BY <1>2, <1>3

LEMMA ResponseUsageFacts ==
  ASSUME NEW usage \in ResponseUsages
  PROVE  usage \in TokenUsage /\ ~TotalMismatch(usage)
  <1>1. CASE usage = NoUsage
    BY <1>1, NoUsageFacts
  <1>2. CASE usage # NoUsage
    <2>1. PICK u \in Usages :
            /\ IsComplete(u)
            /\ usage = [u EXCEPT !.reported_total_tokens = AccountedTotal(u)]
      BY <1>2 DEF ResponseUsages
    <2>2. u \in TokenUsage
      BY ContractsAssumption
    <2> QED BY <2>1, <2>2, StatedTotal
  <1> QED BY <1>1, <1>2

(* The attempts of a turn add up to what is known of its interactions.     *)
LEMMA AttemptsUse ==
  ASSUME NEW c, NEW n \in Nat, NEW interactions \in [1..n -> Interaction], NEW t,
         t = AttemptEvents(c, interactions)
  PROVE  /\ IsSeq(t) /\ UsagesOK(t)
         /\ Known(interactions, "input_tokens") \in Nat
         /\ Known(interactions, "output_tokens") \in Nat
         /\ TotalOf(t) = Known(interactions, "input_tokens")
                         + Known(interactions, "output_tokens")
  <1>1. PICK us : us = [i \in 1..n |-> interactions[i].usage]
    OBVIOUS
  <1>2. \A i \in 1..n : us[i] = interactions[i].usage /\ us[i] \in Usages /\ us[i] \in TokenUsage
    BY <1>1, ContractsAssumption DEF Interaction
  <1>3. Len(interactions) = n /\ DOMAIN interactions = 1..n
    OBVIOUS
  <1>4. t = [e \in 1..2 * n |->
               LET i == (e + 1) \div 2 IN
               IF e = 2 * i THEN TerminalEvent(c, i, interactions[i].success,
                                               MappedUsage(interactions[i].usage))
                            ELSE AttemptEvent(c, i)]
    BY <1>3 DEF AttemptEvents
  <1>5. IsSeq(t) /\ DOMAIN t = 1..2 * n /\ Len(t) = 2 * n
    <2>1. PICK m \in Nat : m = 2 * n
      OBVIOUS
    <2>2. t = [i \in 1..m |-> t[i]] /\ DOMAIN t = 1..m
      BY <1>4, <2>1
    <2>3. IsSeq(t)
      BY <2>2 DEF IsSeq
    <2>4. Len(t) = m
      BY <2>2
    <2> QED BY <2>1, <2>2, <2>3, <2>4
  <1>6. ASSUME NEW i \in 1..n
        PROVE  /\ 2 * i - 1 \in DOMAIN t /\ ~IsTerminal(t[2 * i - 1])
               /\ 2 * i \in DOMAIN t /\ IsTerminal(t[2 * i])
               /\ t[2 * i].usage = MappedUsage(us[i])
    <2>1. /\ ((2 * i - 1) + 1) \div 2 = i /\ (2 * i + 1) \div 2 = i
          /\ 2 * i - 1 # 2 * i /\ 2 * i - 1 \in 1..2 * n /\ 2 * i \in 1..2 * n
      OBVIOUS
    <2>2. /\ t[2 * i - 1] = AttemptEvent(c, i)
          /\ t[2 * i] = TerminalEvent(c, i, interactions[i].success,
                                      MappedUsage(interactions[i].usage))
      BY <1>4, <2>1
    <2>3. ~IsTerminal(AttemptEvent(c, i))
      BY DEF AttemptEvent, IsTerminal
    <2>4. ASSUME NEW completed, NEW usage
          PROVE  /\ IsTerminal(TerminalEvent(c, i, completed, usage))
                 /\ TerminalEvent(c, i, completed, usage).usage = usage
      BY DEF TerminalEvent, IsTerminal
    <2>5. PICK p, q : p = 2 * i - 1 /\ q = 2 * i
      OBVIOUS
    <2>6. p \in DOMAIN t /\ q \in DOMAIN t
      BY <1>5, <2>1, <2>5
    <2>7. ~IsTerminal(t[p])
      BY <2>2, <2>3, <2>5
    <2>8. IsTerminal(t[q]) /\ t[q].usage = MappedUsage(us[i])
      BY <1>2, <2>2, <2>4, <2>5
    <2> QED BY <2>5, <2>6, <2>7, <2>8
  <1>7. ASSUME NEW e \in DOMAIN t
        PROVE  \E i \in 1..n : e = 2 * i - 1 \/ e = 2 * i
    <2>1. (e + 1) \div 2 \in 1..n /\ (e = 2 * ((e + 1) \div 2) - 1 \/ e = 2 * ((e + 1) \div 2))
      BY <1>5
    <2> QED BY <2>1
  <1>8. ASSUME NEW e \in DOMAIN t
        PROVE  \/ ~IsTerminal(t[e])
               \/ \E i \in 1..n : e = 2 * i /\ t[e].usage = MappedUsage(us[i])
    <2>1. PICK i \in 1..n : e = 2 * i - 1 \/ e = 2 * i
      BY <1>7
    <2>2. CASE e = 2 * i - 1
      BY <1>6, <2>2
    <2>3. CASE e = 2 * i
      BY <1>6, <2>3
    <2> QED BY <2>1, <2>2, <2>3
  <1>9. UsagesOK(t)
    BY <1>2, <1>8, MappedUsageFacts DEF UsagesOK
  <1>10. PICK f, h, g, R, D :
           /\ D = 1..2 * n
           /\ f = [e \in D |-> EventTotal(t[e])]
           /\ h = [i \in 1..n |-> 2 * i]
           /\ g = [i \in 1..n |-> UsageTotal(us[i])]
           /\ R = {h[i] : i \in 1..n}
    OBVIOUS
  <1>11. IsFiniteSet(D) /\ IsFiniteSet(1..n)
    <2>1. 2 * n \in Nat
      OBVIOUS
    <2> QED BY <1>10, <2>1, IntervalIsFinite
  <1>12. \A e \in D : f[e] = EventTotal(t[e]) /\ f[e] \in Nat
    BY <1>5, <1>9, <1>10, EventTotalType
  <1>13. \A i \in 1..n : h[i] \in D /\ f[h[i]] = g[i] /\ g[i] \in Nat
    <2> SUFFICES ASSUME NEW i \in 1..n PROVE h[i] \in D /\ f[h[i]] = g[i] /\ g[i] \in Nat
      OBVIOUS
    <2>1. h[i] = 2 * i /\ g[i] = UsageTotal(us[i]) /\ 2 * i \in D
      BY <1>5, <1>6, <1>10
    <2>2. EventTotal(t[2 * i]) = UsageTotal(us[i])
      BY <1>2, <1>6, MappedUsageFacts DEF EventTotal
    <2> QED BY <1>12, <2>1, <2>2
  <1>14. TotalOf(t) = SumFunctionOnSet(f, D)
    BY <1>5, <1>10 DEF TotalOf, TotalUpTo
  <1>15. SumFunctionOnSet(f, D) = SumFunctionOnSet(f, R)
    <2>1. R \subseteq D
      BY <1>10, <1>13
    <2>2. ASSUME NEW e \in D \ R PROVE f[e] = 0
      <3>1. \A i \in 1..n : e # 2 * i
        BY <1>10, <2>2
      <3>2. ~IsTerminal(t[e])
        BY <1>5, <1>8, <1>10, <3>1
      <3> QED BY <1>12, <3>2 DEF EventTotal
    <2>3. \A e \in R : f[e] \in Int
      BY <1>12, <2>1
    <2> QED BY <1>11, <2>1, <2>2, <2>3, SumWhere
  <1>16. SumFunctionOnSet(f, R) = SumFunctionOnSet(g, 1..n)
    <2>1. PICK I : I = 1..n
      OBVIOUS
    <2>2. PICK q : q = [i \in I |-> f[h[i]]]
      OBVIOUS
    <2>3. /\ \A i, j \in I : h[i] = h[j] => i = j
          /\ \A i \in I : f[h[i]] \in Int /\ q[i] = g[i]
      <3>1. \A i \in I : f[h[i]] = g[i] /\ g[i] \in Nat
        BY <1>13, <2>1
      <3>2. \A i \in I : q[i] = f[h[i]]
        BY <2>2
      <3>3. \A i, j \in I : h[i] = h[j] => i = j
        BY <1>10, <2>1
      <3>4. \A i \in I : g[i] \in Int
        BY <3>1
      <3> QED BY <3>1, <3>2, <3>3, <3>4
    <2>4. IsFiniteSet(I) /\ R = {h[i] : i \in I}
      BY <1>10, <1>11, <2>1
    <2>5. SumFunctionOnSet(f, {h[i] : i \in I}) = SumFunctionOnSet(q, I)
      BY <2>2, <2>3, <2>4, SumImage
    <2>6. SumFunctionOnSet(q, I) = SumFunctionOnSet(g, I)
      BY <2>3, <2>4, SumSame
    <2> QED BY <2>1, <2>4, <2>5, <2>6
  <1>17. PICK K : K = {i \in DOMAIN interactions : IsComplete(interactions[i].usage)}
    OBVIOUS
  <1>18. /\ K \subseteq 1..n /\ IsFiniteSet(K)
         /\ \A i \in K : us[i] \in TokenUsage /\ IsComplete(us[i])
         /\ \A i \in (1..n) \ K : ~IsComplete(us[i])
    <2>1. K \subseteq 1..n
      BY <1>3, <1>17
    <2>2. IsFiniteSet(K)
      BY <1>11, <2>1, FS_Subset
    <2> QED BY <1>2, <1>3, <1>17, <2>1, <2>2
  <1>19. SumFunctionOnSet(g, 1..n) = SumFunctionOnSet(g, K)
    <2>1. \A i \in (1..n) \ K : g[i] = 0
      BY <1>10, <1>18 DEF UsageTotal
    <2>2. \A i \in K : g[i] \in Int
      <3>1. \A i \in 1..n : g[i] \in Nat
        BY <1>13
      <3> QED BY <1>18, <3>1
    <2> QED BY <1>11, <1>18, <2>1, <2>2, SumWhere
  <1>20. PICK input, output : /\ input = Known(interactions, "input_tokens")
                              /\ output = Known(interactions, "output_tokens")
    OBVIOUS
  <1>21. /\ input = SumFunction([i \in K |-> us[i].input_tokens])
         /\ output = SumFunction([i \in K |-> us[i].output_tokens])
    <2>1. /\ [i \in K |-> us[i].input_tokens] = [i \in K |-> interactions[i].usage["input_tokens"]]
          /\ [i \in K |-> us[i].output_tokens] = [i \in K |-> interactions[i].usage["output_tokens"]]
      BY <1>2, <1>18
    <2> QED BY <1>17, <1>20, <2>1 DEF Known
  <1>22. PICK q : q = [i \in K |-> UsageTotal(us[i])]
    OBVIOUS
  <1>23. input \in Nat /\ output \in Nat /\ input + output = SumFunctionOnSet(q, K)
    BY <1>18, <1>21, <1>22, SumOfUsages
  <1>24. SumFunctionOnSet(q, K) = SumFunctionOnSet(g, K)
    <2>1. \A i \in K : q[i] = g[i]
      BY <1>10, <1>18, <1>22
    <2> QED BY <1>18, <2>1, SumSame
  <1> QED BY <1>5, <1>9, <1>14, <1>15, <1>16, <1>19, <1>20, <1>23, <1>24

LEMMA TurnUses ==
  ASSUME NEW c, NEW n \in Nat, NEW interactions \in [1..n -> Interaction], NEW t,
         t = <<RequestEvent(c)>> \o AttemptEvents(c, interactions)
  PROVE  /\ IsSeq(t) /\ UsagesOK(t)
         /\ Known(interactions, "input_tokens") \in Nat
         /\ Known(interactions, "output_tokens") \in Nat
         /\ TotalOf(t) = Known(interactions, "input_tokens")
                         + Known(interactions, "output_tokens")
  <1>1. PICK r, s : r = <<RequestEvent(c)>> /\ s = AttemptEvents(c, interactions)
    OBVIOUS
  <1>2. IsSeq(r) /\ \A i \in DOMAIN r : ~IsTerminal(r[i])
    <2>1. PICK e : e = RequestEvent(c)
      OBVIOUS
    <2>2. ~IsTerminal(e)
      BY <2>1 DEF RequestEvent, IsTerminal
    <2> QED BY <1>1, <2>1, <2>2, SmallSequences
  <1>3. UsagesOK(r) /\ TotalOf(r) = 0
    BY <1>2, NothingUsed
  <1>4. /\ IsSeq(s) /\ UsagesOK(s)
        /\ Known(interactions, "input_tokens") \in Nat
        /\ Known(interactions, "output_tokens") \in Nat
        /\ TotalOf(s) = Known(interactions, "input_tokens")
                        + Known(interactions, "output_tokens")
    BY <1>1, AttemptsUse
  <1>5. t = r \o s
    BY <1>1
  <1>6. IsSeq(t)
    BY <1>2, <1>4, <1>5, ConcatParts
  <1>7. UsagesOK(t) /\ TotalOf(t) = TotalOf(r) + TotalOf(s)
    BY <1>2, <1>3, <1>4, <1>5, TotalOfConcat
  <1> QED BY <1>3, <1>4, <1>6, <1>7

-----------------------------------------------------------------------------
(* What a reader has added up while it reads, and what the log states at   *)
(* its end.                                                                *)
(* us is a reader's list of usages, s the events it has written.           *)
Recounts(us, s) ==
  /\ IsSeq(us)
  /\ \A k \in DOMAIN us : us[k] \in TokenUsage
  /\ TotalOf(s) = SumFunctionOnSet([k \in DOMAIN us |-> UsageTotal(us[k])], DOMAIN us)
  /\ IsWhole(s) <=> \A k \in DOMAIN us : IsComplete(us[k])
  /\ HasTerminal(s) <=> DOMAIN us # {}

ResponseColumn == [i \in DOMAIN responses |-> responses[i].usage]

ReaderAdds ==
  IF source = "sokoban"
  THEN /\ summedInput \in Nat /\ summedOutput \in Nat
       /\ TotalOf(events) = summedInput + summedOutput
  ELSE Recounts(IF source = "swebench" THEN usages ELSE ResponseColumn, events)

(* The usage of the last event of s states the sum of s, and (SWE-bench    *)
(* logs) states nothing when an attempt's usage is not known.              *)
Says(usage, s) ==
  IsWhole(s) /\ HasTerminal(s) =>
    IsComplete(usage) /\ ~TotalMismatch(usage) /\ AccountedTotal(usage) = TotalOf(s)

Hides(usage, s) == ~(IsWhole(s) /\ HasTerminal(s)) => ~IsComplete(usage)

LogAdds ==
  /\ IsSeq(events)
  /\ UsagesOK(events)
  /\ source = "swebench" => EveryCallEnds(events)
  /\ IF reading = "reading" THEN ReaderAdds
     ELSE /\ Says(TaskUsage, events)
          /\ source = "swebench" => Hides(TaskUsage, events)

-----------------------------------------------------------------------------
LEMMA OneMoreRecounted ==
  ASSUME NEW s, NEW t, NEW us, NEW vs, NEW usage \in TokenUsage,
         IsSeq(s), UsagesOK(s), Recounts(us, s),
         IsSeq(t), UsagesOK(t), TotalOf(t) = UsageTotal(usage),
         IsWhole(t) <=> IsComplete(usage), HasTerminal(t),
         IsSeq(vs), DOMAIN vs = 1..Len(us) + 1,
         \A k \in DOMAIN us : vs[k] = us[k], vs[Len(us) + 1] = usage
  PROVE  Recounts(vs, s \o t)
  <1>1. PICK n, m : n = Len(us) /\ m = Len(us) + 1
    OBVIOUS
  <1>2. n \in Nat /\ DOMAIN us = 1..n /\ DOMAIN vs = 1..m /\ m = n + 1
    BY <1>1, SeqOfItsElements DEF Recounts
  <1>3. \A k \in DOMAIN vs : (k \in DOMAIN us /\ vs[k] = us[k]) \/ (k = m /\ vs[k] = usage)
    BY <1>1, <1>2
  <1>4. m \in DOMAIN vs /\ vs[m] = usage
    BY <1>1, <1>2
  <1>5. \A k \in DOMAIN vs : vs[k] \in TokenUsage
    BY <1>3 DEF Recounts
  <1>6. /\ TotalOf(s \o t) = TotalOf(s) + TotalOf(t)
        /\ IsWhole(s \o t) <=> IsWhole(s) /\ IsWhole(t)
        /\ HasTerminal(s \o t) <=> HasTerminal(s) \/ HasTerminal(t)
    BY TotalOfConcat
  <1>7. IsWhole(s \o t) <=> \A k \in DOMAIN vs : IsComplete(vs[k])
    <2>1. (\A k \in DOMAIN vs : IsComplete(vs[k])) <=>
          (\A k \in DOMAIN us : IsComplete(us[k])) /\ IsComplete(usage)
      <3>1. \A k \in DOMAIN us : k \in DOMAIN vs /\ vs[k] = us[k]
        BY <1>2
      <3> QED BY <1>3, <1>4, <3>1
    <2> QED BY <1>6, <2>1 DEF Recounts
  <1>8. TotalOf(s \o t) = SumFunctionOnSet([k \in DOMAIN vs |-> UsageTotal(vs[k])], DOMAIN vs)
    <2>1. PICK f, g : /\ f = [k \in DOMAIN us |-> UsageTotal(us[k])]
                      /\ g = [k \in DOMAIN vs |-> UsageTotal(vs[k])]
      OBVIOUS
    <2>2. \A k \in 1..n : f[k] = g[k]
      <3>1. \A k \in 1..n : k \in DOMAIN us /\ k \in DOMAIN vs
        BY <1>2
      <3>2. \A k \in 1..n : f[k] = UsageTotal(us[k]) /\ g[k] = UsageTotal(vs[k])
        BY <2>1, <3>1
      <3> QED BY <3>1, <3>2
    <2>3. \A k \in 1..(n + 1) : g[k] \in Int
      <3>1. \A k \in DOMAIN vs : UsageTotal(vs[k]) \in Nat
        BY <1>5, UsageTotalType
      <3> QED BY <1>2, <2>1, <3>1
    <2>4. SumFunctionOnSet(g, 1..(n + 1)) = SumFunctionOnSet(f, 1..n) + g[n + 1]
      BY <1>2, <2>2, <2>3, SumNext
    <2>5. g[n + 1] = UsageTotal(usage)
      BY <1>2, <1>4, <2>1
    <2>6. TotalOf(s) = SumFunctionOnSet(f, 1..n)
      BY <1>2, <2>1 DEF Recounts
    <2> QED BY <1>2, <1>6, <2>1, <2>4, <2>5, <2>6
  <1>9. HasTerminal(s \o t) /\ DOMAIN vs # {}
    BY <1>4, <1>6
  <1> QED BY <1>5, <1>7, <1>8, <1>9 DEF Recounts

(* What adds nothing leaves the sums alone.                                *)
LEMMA NothingAdded ==
  ASSUME NEW s, NEW t, IsSeq(s), UsagesOK(s), IsSeq(t), \A i \in DOMAIN t : ~IsTerminal(t[i])
  PROVE  /\ UsagesOK(s \o t) /\ TotalOf(s \o t) = TotalOf(s)
         /\ IsWhole(s \o t) <=> IsWhole(s)
         /\ HasTerminal(s \o t) <=> HasTerminal(s)
         /\ \A us : Recounts(us, s) => Recounts(us, s \o t)
         /\ (\A i \in DOMAIN t : ~IsRequest(t[i])) /\ EveryCallEnds(s) => EveryCallEnds(s \o t)
  <1>1. UsagesOK(t) /\ TotalOf(t) = 0 /\ IsWhole(t) /\ ~HasTerminal(t)
    BY NothingUsed
  <1>2. TotalOf(s) \in Nat
    <2>1. Len(s) \in Nat
      BY SeqOfItsElements
    <2> QED BY <2>1, TotalUpToType DEF TotalOf
  <1>3. /\ UsagesOK(s \o t) /\ TotalOf(s \o t) = TotalOf(s)
        /\ IsWhole(s \o t) <=> IsWhole(s)
        /\ HasTerminal(s \o t) <=> HasTerminal(s)
    BY <1>1, <1>2, TotalOfConcat
  <1>4. \A us : Recounts(us, s) => Recounts(us, s \o t)
    BY <1>3 DEF Recounts
  <1>5. (\A i \in DOMAIN t : ~IsRequest(t[i])) => EveryCallEnds(t)
    BY DEF EveryCallEnds
  <1> QED BY <1>1, <1>3, <1>4, <1>5, TotalOfConcat

LEMMA ResultsAddNothing ==
  ASSUME NEW t, NEW n, AreResults(t, n)
  PROVE  IsSeq(t) /\ \A i \in DOMAIN t : ~IsTerminal(t[i]) /\ ~IsRequest(t[i])
  BY KindsExclude DEF AreResults

(* The end of a log: some events that add nothing, and the usage the last  *)
(* of them carries.                                                        *)
LEMMA EndSays ==
  ASSUME NEW s, NEW t, NEW n, NEW ending \in EndTypes, NEW usage,
         IsSeq(s), UsagesOK(s), AreResults(t, n)
  PROVE  LET u == s \o (t \o <<EndEvent(ending, usage)>>) IN
         /\ IsSeq(u) /\ UsagesOK(u) /\ u[Len(u)].usage = usage
         /\ Says(usage, s) => Says(usage, u)
         /\ Hides(usage, s) => Hides(usage, u)
         /\ EveryCallEnds(s) => EveryCallEnds(u)
  <1>1. PICK e, w, v, u : /\ e = EndEvent(ending, usage) /\ w = <<e>> /\ v = t \o w
                          /\ u = s \o (t \o <<EndEvent(ending, usage)>>)
    OBVIOUS
  <1>2. IsEnd(e) /\ e.usage = usage /\ ~IsTerminal(e) /\ ~IsRequest(e)
    <2>1. e.usage = usage
      BY <1>1 DEF EndEvent
    <2> QED BY <1>1, <2>1, EndEventEnds, KindsExclude
  <1>3. IsSeq(t) /\ \A i \in DOMAIN t : ~IsTerminal(t[i]) /\ ~IsRequest(t[i])
    BY ResultsAddNothing
  <1>4. IsSeq(w) /\ Len(w) = 1 /\ DOMAIN w = 1..1 /\ w[1] = e
    BY <1>1, SmallSequences
  <1>5. Joined(v, t, w)
    BY <1>1, <1>3, <1>4, Joining
  <1>6. /\ IsSeq(v) /\ Len(v) = Len(t) + 1 /\ v[Len(v)] = e /\ Len(v) \in Nat /\ Len(v) > 0
        /\ \A i \in DOMAIN v : ~IsTerminal(v[i]) /\ ~IsRequest(v[i])
    <2>1. PICK l : l = Len(t)
      OBVIOUS
    <2>2. /\ IsSeq(v) /\ l \in Nat /\ Len(v) = l + 1 /\ DOMAIN v = 1..(l + 1) /\ v[l + 1] = e
          /\ DOMAIN t = 1..l /\ \A i \in 1..l : v[i] = t[i]
      BY <1>4, <1>5, <2>1 DEF Joined
    <2>3. \A i \in DOMAIN v : i \in 1..l \/ i = l + 1
      BY <2>2
    <2> QED BY <1>2, <1>3, <2>1, <2>2, <2>3
  <1>7. u = s \o v
    BY <1>1
  <1>8. Joined(u, s, v)
    BY <1>6, <1>7, Joining
  <1>9. IsSeq(u) /\ u[Len(u)] = e
    <2>1. Len(v) \in 1..Len(v) /\ Len(u) = Len(s) + Len(v)
      BY <1>6, <1>8 DEF Joined
    <2> QED BY <1>6, <1>8, <2>1 DEF Joined
  <1>10. /\ UsagesOK(u) /\ TotalOf(u) = TotalOf(s)
         /\ IsWhole(u) <=> IsWhole(s)
         /\ HasTerminal(u) <=> HasTerminal(s)
         /\ EveryCallEnds(s) => EveryCallEnds(u)
    BY <1>6, <1>7, NothingAdded
  <1>11. (Says(usage, s) => Says(usage, u)) /\ (Hides(usage, s) => Hides(usage, u))
    BY <1>10 DEF Says, Hides
  <1> QED BY <1>1, <1>2, <1>9, <1>10, <1>11

(* A reader that keeps every usage states their sum.                       *)
LEMMA SumSays ==
  ASSUME NEW s, NEW us, NEW vs, Recounts(us, s), \A k \in DOMAIN us : IsComplete(us[k]),
         \A k \in DOMAIN us : vs[k] = us[k],
         NEW input, input = SumFunction([k \in DOMAIN us |-> vs[k].input_tokens]),
         NEW output, output = SumFunction([k \in DOMAIN us |-> vs[k].output_tokens]),
         NEW stated, stated = [ input_tokens |-> input, output_tokens |-> output,
                                reported_total_tokens |-> input + output ]
  PROVE  IsComplete(stated) /\ ~TotalMismatch(stated) /\ AccountedTotal(stated) = TotalOf(s)
  <1>1. Len(us) \in Nat /\ DOMAIN us = 1..Len(us)
    BY SeqOfItsElements DEF Recounts
  <1>2. IsFiniteSet(DOMAIN us)
    BY <1>1, IntervalIsFinite
  <1>3. PICK K : K = DOMAIN us
    OBVIOUS
  <1>4. \A k \in K : vs[k] \in TokenUsage /\ IsComplete(vs[k])
    BY <1>3 DEF Recounts
  <1>5. PICK g : g = [k \in K |-> UsageTotal(vs[k])]
    OBVIOUS
  <1>6. input \in Nat /\ output \in Nat /\ input + output = SumFunctionOnSet(g, K)
    <2>1. /\ input = SumFunction([k \in K |-> vs[k].input_tokens])
          /\ output = SumFunction([k \in K |-> vs[k].output_tokens])
          /\ IsFiniteSet(K)
      BY <1>2, <1>3
    <2> QED BY <1>4, <1>5, <2>1, SumOfUsages
  <1>7. SumFunctionOnSet(g, K) = TotalOf(s)
    <2>1. PICK f : f = [k \in K |-> UsageTotal(us[k])]
      OBVIOUS
    <2>2. \A k \in K : g[k] = f[k]
      BY <1>3, <1>5, <2>1
    <2>3. SumFunctionOnSet(g, K) = SumFunctionOnSet(f, K)
      BY <1>2, <1>3, <2>2, SumSame
    <2> QED BY <1>3, <2>1, <2>3 DEF Recounts
  <1>8. /\ stated.input_tokens = input /\ stated.output_tokens = output
        /\ stated.reported_total_tokens = input + output
    OBVIOUS
  <1>9. IsComplete(stated)
    BY <1>6, <1>8, ContractsAssumption DEF IsComplete
  <1>10. AccountedTotal(stated) = input + output
    BY <1>8 DEF AccountedTotal
  <1> QED BY <1>6, <1>7, <1>8, <1>9, <1>10 DEF TotalMismatch

LEMMA AddCallAdds ==
  ASSUME LogAdds, source = "swebench", reading = "reading", UNCHANGED <<source, reading>>,
         NEW completed, NEW usage \in Usages \cup {NoUsage}, Readable(usage),
         AddCall(completed, WithTotal(usage))
  PROVE  LogAdds'
  <1>1. PICK u, new : u = WithTotal(usage) /\ new = CallEvents(completed, u)
    OBVIOUS
  <1>2. u \in TokenUsage /\ ~TotalMismatch(u)
    BY <1>1, WithTotalFacts
  <1>3. events' = events \o new /\ usages' = Append(usages, u)
    BY <1>1 DEF AddCall, Emit
  <1>4. /\ IsSeq(new) /\ UsagesOK(new) /\ TotalOf(new) = UsageTotal(u)
        /\ IsWhole(new) <=> IsComplete(u)
        /\ HasTerminal(new) /\ EveryCallEnds(new)
    <2>1. PICK c : c = NextCall
      OBVIOUS
    <2>2. new = <<RequestEvent(c), AttemptEvent(c, FirstAttempt),
                  TerminalEvent(c, FirstAttempt, completed, u)>>
      BY <1>1, <2>1 DEF CallEvents
    <2> QED BY <1>2, <2>2, CallUses
  <1>5. IsSeq(events) /\ UsagesOK(events) /\ EveryCallEnds(events) /\ Recounts(usages, events)
    BY DEF LogAdds, ReaderAdds
  <1>6. /\ IsSeq(usages') /\ DOMAIN usages' = 1..Len(usages) + 1
        /\ \A k \in DOMAIN usages : usages'[k] = usages[k]
        /\ usages'[Len(usages) + 1] = u
    BY <1>3, <1>5, AppendParts DEF Recounts
  <1>7. Recounts(usages', events \o new)
    BY <1>2, <1>4, <1>5, <1>6, OneMoreRecounted
  <1>8. IsSeq(events \o new) /\ UsagesOK(events \o new) /\ EveryCallEnds(events \o new)
    BY <1>4, <1>5, TotalOfConcat, ConcatParts
  <1> QED BY <1>3, <1>7, <1>8 DEF LogAdds, ReaderAdds

LEMMA SwebenchAddsStep ==
  ASSUME LogAdds, LogOrder, SwebenchToolsInv, source = "swebench", source' = source,
         reading = "reading", SwebenchStep, reading' # "raised"
  PROVE  LogAdds'
  <1>0. IsSeq(events) /\ UsagesOK(events) /\ EveryCallEnds(events) /\ Recounts(usages, events)
    BY DEF LogAdds, ReaderAdds
  <1>1. CASE \E usage \in Usages, tools \in SUBSET ToolIds : ConsumeAssistant(usage, tools)
    <2>1. PICK usage \in Usages, tools \in SUBSET ToolIds : ConsumeAssistant(usage, tools)
      BY <1>1
    <2>2. reading' = reading /\ Readable(usage) /\ AddCall(TRUE, WithTotal(usage))
      BY <2>1 DEF ConsumeAssistant
    <2> QED BY <2>2, AddCallAdds
  <1>2. CASE \E usage \in Usages \cup {NoUsage} : ConsumeInterruption(usage)
    <2>1. PICK usage \in Usages \cup {NoUsage} : ConsumeInterruption(usage)
      BY <1>2
    <2>2. reading' = reading /\ Readable(usage) /\ AddCall(FALSE, WithTotal(usage))
      BY <2>1 DEF ConsumeInterruption
    <2> QED BY <2>2, AddCallAdds
  <1>3. CASE \E tool \in ToolIds, failed \in BOOLEAN : ConsumeTool(tool, failed)
    <2>1. PICK tool, failed : ConsumeTool(tool, failed)
      BY <1>3
    <2>2. PICK c, t : c = pending[tool] /\ t = <<ToolResultEvent(c, tool, failed)>>
      OBVIOUS
    <2>3. /\ events' = events \o t /\ c \in 1..callCount
          /\ reading' = reading /\ usages' = usages
      BY <2>1, <2>2 DEF ConsumeTool, Emit, LogOrder
    <2>4. IsSeq(t) /\ \A i \in DOMAIN t : ~IsTerminal(t[i]) /\ ~IsRequest(t[i])
      BY <2>2, <2>3, OneIsResults, ResultsAddNothing
    <2>5. /\ UsagesOK(events \o t) /\ Recounts(usages, events \o t) /\ EveryCallEnds(events \o t)
          /\ IsSeq(events \o t)
      BY <1>0, <2>4, NothingAdded, ConcatParts
    <2> QED BY <2>3, <2>5 DEF LogAdds, ReaderAdds
  <1>4. CASE \E submitted \in BOOLEAN, reported \in CallIds \cup {0} :
               ConsumeExit(submitted, reported)
    <2>1. PICK submitted, reported : ConsumeExit(submitted, reported)
      BY <1>4
    <2>2. PICK n, answers, ending, usage :
            /\ n = callCount /\ answers = InterceptedTool(submitted)
            /\ ending = IF submitted THEN "task_finished" ELSE "task_aborted"
            /\ usage = Aggregate
      OBVIOUS
    <2>3. /\ events' = events \o (answers \o <<EndEvent(ending, usage)>>)
          /\ reading' = "validating" /\ ending \in EndTypes
      BY <2>1, <2>2 DEF ConsumeExit, Emit, EndTypes
    <2>4. \A t \in DOMAIN pending : pending[t] \in 1..n
      BY <2>2 DEF LogOrder
    <2>5. AreResults(answers, n)
      <3>1. CASE DOMAIN pending = {}
        <4>1. pending = << >>
          BY <3>1 DEF SwebenchToolsInv
        <4> QED BY <2>2, <4>1, NoResults DEF InterceptedTool
      <3>2. CASE DOMAIN pending # {}
        <4>1. PICK tool : tool = CHOOSE t \in DOMAIN pending : TRUE
          OBVIOUS
        <4>2. pending # << >>
          BY <3>2
        <4>3. tool \in DOMAIN pending
          BY <3>2, <4>1
        <4>4. answers = <<ToolResultEvent(pending[tool], tool, ~submitted)>>
          BY <2>2, <4>1, <4>2 DEF InterceptedTool
        <4> QED BY <2>4, <4>3, <4>4, OneIsResults
      <3> QED BY <3>1, <3>2
    <2>6. Says(usage, events) /\ Hides(usage, events)
      <3>1. DOMAIN usages = {} <=> usages = << >>
        BY <1>0 DEF Recounts, IsSeq
      <3>2. CASE DOMAIN usages # {} /\ \A k \in DOMAIN usages : IsComplete(usages[k])
        <4>1. PICK input, output :
                /\ input = SumFunction([i \in DOMAIN usages |-> usages[i].input_tokens])
                /\ output = SumFunction([i \in DOMAIN usages |-> usages[i].output_tokens])
          OBVIOUS
        <4>2. usage = [ input_tokens |-> input, output_tokens |-> output,
                        reported_total_tokens |-> input + output ]
          BY <2>2, <3>1, <3>2, <4>1 DEF Aggregate
        <4>3. IsComplete(usage) /\ ~TotalMismatch(usage) /\ AccountedTotal(usage) = TotalOf(events)
          BY <1>0, <3>2, <4>1, <4>2, SumSays
        <4>4. IsWhole(events) /\ HasTerminal(events)
          BY <1>0, <3>2 DEF Recounts
        <4> QED BY <4>3, <4>4 DEF Says, Hides
      <3>3. CASE ~(DOMAIN usages # {} /\ \A k \in DOMAIN usages : IsComplete(usages[k]))
        <4>1. usage = NoUsage
          BY <2>2, <3>1, <3>3 DEF Aggregate
        <4>2. ~(IsWhole(events) /\ HasTerminal(events))
          BY <1>0, <3>3 DEF Recounts
        <4> QED BY <4>1, <4>2, NoUsageFacts DEF Says, Hides
      <3> QED BY <3>2, <3>3
    <2>7. PICK u : u = events \o (answers \o <<EndEvent(ending, usage)>>)
      OBVIOUS
    <2>8. /\ IsSeq(u) /\ UsagesOK(u) /\ u[Len(u)].usage = usage /\ EveryCallEnds(u)
          /\ Says(usage, u) /\ Hides(usage, u)
      BY <1>0, <2>3, <2>5, <2>6, <2>7, EndSays
    <2>9. events' = u /\ TaskUsage' = usage
      BY <2>3, <2>7, <2>8 DEF TaskUsage
    <2> QED BY <2>3, <2>8, <2>9 DEF LogAdds
  <1>5. ~RejectSwebench
    BY DEF RejectSwebench, RaiseSchemaError
  <1> QED BY <1>1, <1>2, <1>3, <1>4, <1>5 DEF SwebenchStep

LEMMA SokobanAddsStep ==
  ASSUME LogAdds, LogOrder, source = "sokoban", source' = source, reading = "reading",
         SokobanStep, reading' # "raised"
  PROVE  LogAdds'
  <1>0. PICK n : n = turnCount
    OBVIOUS
  <1>1. /\ n \in Nat /\ IsSeq(events) /\ UsagesOK(events)
        /\ summedInput \in Nat /\ summedOutput \in Nat
        /\ TotalOf(events) = summedInput + summedOutput
    BY <1>0 DEF LogOrder, CallsRead, Ordered, LogAdds, ReaderAdds
  <1>2. CASE \E k \in 1..MaxInteractions, actions \in 0..MaxActions :
               \E interactions \in [1..k -> Interaction] : ReadTurn(interactions, actions)
    <2>1. PICK k \in 1..MaxInteractions, actions \in 0..MaxActions :
            \E interactions \in [1..k -> Interaction] : ReadTurn(interactions, actions)
      BY <1>2
    <2>2. PICK interactions \in [1..k -> Interaction] : ReadTurn(interactions, actions)
      BY <2>1
    <2>3. PICK call, attempts, results, turn :
            /\ call = <<RequestEvent(n + 1)>>
            /\ attempts = AttemptEvents(n + 1, interactions)
            /\ results = ActionEvents(n + 1, actions)
            /\ turn = call \o attempts
      OBVIOUS
    <2>4. PICK input, output : /\ input = Known(interactions, "input_tokens")
                               /\ output = Known(interactions, "output_tokens")
      OBVIOUS
    <2>5. /\ events' = events \o (turn \o results) /\ reading' = reading
          /\ summedInput' = summedInput + input /\ summedOutput' = summedOutput + output
      BY <1>0, <2>2, <2>3, <2>4 DEF ReadTurn, Emit
    <2>6. /\ IsSeq(turn) /\ UsagesOK(turn) /\ input \in Nat /\ output \in Nat
          /\ TotalOf(turn) = input + output
      <3>1. k \in Nat /\ turn = <<RequestEvent(n + 1)>> \o AttemptEvents(n + 1, interactions)
        BY <2>1, <2>3
      <3> QED BY <2>4, <3>1, TurnUses
    <2>7. IsSeq(results) /\ \A i \in DOMAIN results : ~IsTerminal(results[i])
      <3>1. actions \in Nat /\ n + 1 \in 1..(n + 1)
        BY <1>1, <2>1
      <3> QED BY <2>3, <3>1, ActionsAreResults, ResultsAddNothing
    <2>8. PICK s : s = events \o turn
      OBVIOUS
    <2>9. IsSeq(s) /\ UsagesOK(s) /\ TotalOf(s) = TotalOf(events) + TotalOf(turn)
      <3>1. IsSeq(s)
        BY <1>1, <2>6, <2>8, ConcatParts
      <3>2. UsagesOK(s) /\ TotalOf(s) = TotalOf(events) + TotalOf(turn)
        BY <1>1, <2>6, <2>8, TotalOfConcat
      <3> QED BY <3>1, <3>2
    <2>10. events' = s \o results
      <3>1. IsSeq(events) /\ IsSeq(turn) /\ IsSeq(results)
        BY <1>1, <2>6, <2>7
      <3>2. (events \o turn) \o results = events \o (turn \o results)
        BY <3>1, Associative
      <3> QED BY <2>5, <2>8, <3>2
    <2>11. IsSeq(events') /\ UsagesOK(events') /\ TotalOf(events') = TotalOf(s)
      BY <2>7, <2>9, <2>10, NothingAdded, ConcatParts
    <2>12. /\ summedInput' \in Nat /\ summedOutput' \in Nat
           /\ TotalOf(events') = summedInput' + summedOutput'
      BY <1>1, <2>5, <2>6, <2>9, <2>11
    <2> QED BY <2>5, <2>11, <2>12 DEF LogAdds, ReaderAdds
  <1>3. CASE \E usage \in StatedUsages : FinishRollout(usage)
    <2>1. PICK usage : FinishRollout(usage)
      BY <1>3
    <2>2. /\ events' = events \o <<EndEvent("task_finished", usage)>> /\ reading' = "validating"
          /\ "task_finished" \in EndTypes
      BY <2>1 DEF FinishRollout, Emit, EndTypes
    <2>3. Says(usage, events)
      BY <1>1, <2>1 DEF FinishRollout, AggregateAgrees, AccountedTotal, Says
    <2>4. PICK u, ending, t :
            /\ ending = "task_finished" /\ t = << >>
            /\ u = events \o (t \o <<EndEvent(ending, usage)>>)
      OBVIOUS
    <2>5. IsSeq(u) /\ UsagesOK(u) /\ u[Len(u)].usage = usage /\ Says(usage, u)
      <3>1. AreResults(t, n) /\ ending \in EndTypes
        BY <2>2, <2>4, NoResults
      <3>2. PICK s : s = events
        OBVIOUS
      <3>3. /\ IsSeq(s) /\ UsagesOK(s) /\ Says(usage, s)
            /\ u = s \o (t \o <<EndEvent(ending, usage)>>)
        BY <1>1, <2>3, <2>4, <3>2
      <3> QED BY <3>1, <3>3, EndSays
    <2>6. events' = u /\ TaskUsage' = usage
      BY <2>2, <2>4, <2>5 DEF TaskUsage
    <2> QED BY <2>2, <2>5, <2>6 DEF LogAdds
  <1>4. ~RejectSokoban
    BY DEF RejectSokoban, RaiseSchemaError
  <1> QED BY <1>2, <1>3, <1>4 DEF SokobanStep

(* A completion is read: its usage is one more of the responses'.          *)
LEMMA CompletionAdds ==
  ASSUME IsSeq(responses), NEW usage \in ResponseUsages, NEW tools,
         responses' = Append(responses, [usage |-> usage, tools |-> tools]),
         NEW s, NEW new, new = CompletionEvents(Len(responses) + 1, usage),
         IsSeq(s), UsagesOK(s), Recounts(ResponseColumn, s)
  PROVE  IsSeq(s \o new) /\ UsagesOK(s \o new) /\ Recounts(ResponseColumn', s \o new)
  <1>1. PICK c, us, vs, response :
          /\ c = Len(responses) + 1 /\ us = ResponseColumn /\ vs = ResponseColumn'
          /\ response = [usage |-> usage, tools |-> tools]
    OBVIOUS
  <1>2. usage \in TokenUsage /\ ~TotalMismatch(usage)
    BY ResponseUsageFacts
  <1>3. /\ IsSeq(new) /\ UsagesOK(new) /\ TotalOf(new) = UsageTotal(usage)
        /\ IsWhole(new) <=> IsComplete(usage)
        /\ HasTerminal(new)
    <2>1. new = <<RequestEvent(c), AttemptEvent(c, FirstAttempt),
                  TerminalEvent(c, FirstAttempt, TRUE, usage)>>
      BY <1>1 DEF CompletionEvents
    <2> QED BY <1>2, <2>1, CallUses
  <1>4. /\ IsSeq(responses') /\ Len(responses) \in Nat /\ Len(responses') = c
        /\ DOMAIN responses = 1..Len(responses) /\ DOMAIN responses' = 1..c
        /\ \A i \in DOMAIN responses : responses'[i] = responses[i]
        /\ responses'[c] = response
    BY <1>1, AppendParts
  <1>5. /\ us = [i \in 1..Len(responses) |-> responses[i].usage]
        /\ vs = [i \in 1..c |-> responses'[i].usage]
    BY <1>1, <1>4 DEF ResponseColumn
  <1>6. Len(us) = Len(responses) /\ DOMAIN us = 1..Len(responses) /\ DOMAIN vs = 1..c
    BY <1>4, <1>5
  <1>7. IsSeq(vs)
    <2>1. c \in Nat /\ vs = [i \in 1..c |-> vs[i]]
      BY <1>1, <1>4, <1>5
    <2> QED BY <2>1 DEF IsSeq
  <1>8. /\ \A k \in DOMAIN us : vs[k] = us[k]
        /\ vs[Len(us) + 1] = usage
    <2>1. response.usage = usage
      BY <1>1
    <2> QED BY <1>1, <1>4, <1>5, <1>6, <2>1
  <1>9. Recounts(vs, s \o new)
    BY <1>1, <1>2, <1>3, <1>6, <1>7, <1>8, OneMoreRecounted
  <1>10. IsSeq(s \o new) /\ UsagesOK(s \o new)
    BY <1>3, TotalOfConcat, ConcatParts
  <1> QED BY <1>1, <1>9, <1>10

LEMMA AnsweredAreResults ==
  ASSUME OpenHandsToolsInv, NEW n, n = Len(responses), n \in Nat, NEW answers \in Answered
  PROVE  AreResults(answers, n)
  <1>1. CASE answers = << >>
    BY <1>1, NoResults
  <1>2. CASE answers # << >>
    <2>1. PICK outcome :
            /\ outcome = [t \in responses[n].tools |-> FALSE]
            /\ answers \in ResultsOf(n, outcome)
            /\ n # 0
      BY <1>2 DEF Answered
    <2>2. DOMAIN outcome = responses[n].tools
      BY <2>1
    <2>3. DOMAIN responses = 1..n /\ n \in 1..n
      BY <2>1, SeqOfItsElements DEF OpenHandsToolsInv
    <2>4. IsFiniteSet(DOMAIN outcome)
      BY <2>2, <2>3, ToolIdsAssumption, FS_Subset DEF OpenHandsToolsInv
    <2> QED BY <2>1, <2>3, <2>4, AnyOrderAreResults
  <1> QED BY <1>1, <1>2

(* A task's end states the responses' sum, also where a ledger gives it.   *)
LEMMA OpenHandsEndAdds ==
  ASSUME OpenHandsToolsInv, Recounts(ResponseColumn, events), Len(responses) = task.calls,
         NEW usage, usage = ResponseSum \/ \E ledger \in Ledgers : usage = LoggedUsage(ledger)
  PROVE  Says(usage, events)
  <1>1. PICK us, K : us = ResponseColumn /\ K = DOMAIN responses
    OBVIOUS
  <1>2. DOMAIN us = K /\ \A i \in K : us[i] = responses[i].usage
    BY <1>1 DEF ResponseColumn
  <1>3. SUFFICES ASSUME IsWhole(events), HasTerminal(events)
                 PROVE  /\ IsComplete(usage) /\ ~TotalMismatch(usage)
                        /\ AccountedTotal(usage) = TotalOf(events)
    BY DEF Says
  <1>4. K # {} /\ \A i \in K : IsComplete(us[i]) /\ Complete(i)
    BY <1>1, <1>2, <1>3 DEF Recounts, Complete
  <1>5. \E vs : (\A i \in K : vs[i] = us[i]) /\ usage = UsageSum(K, vs)
    <2>1. CASE usage = ResponseSum
      <3>1. PICK vs : vs = [i \in K |-> responses[i].usage]
        OBVIOUS
      <3>2. usage = UsageSum(K, vs)
        BY <1>1, <1>4, <2>1, <3>1 DEF ResponseSum
      <3>3. \A i \in K : vs[i] = us[i]
        BY <1>2, <3>1
      <3> QED BY <3>2, <3>3
    <2>2. CASE \E ledger \in Ledgers : usage = LoggedUsage(ledger)
      <3>1. PICK ledger \in Ledgers : usage = LoggedUsage(ledger)
        BY <2>2
      <3>2. task.calls # 0
        <4>1. DOMAIN responses = 1..Len(responses)
          BY SeqOfItsElements DEF OpenHandsToolsInv
        <4>2. 1..0 = {}
          OBVIOUS
        <4> QED BY <1>1, <1>4, <4>1, <4>2
      <3>3. DOMAIN ledger \subseteq K /\ Agrees(ledger)
        BY <1>1, <3>1, <3>2 DEF Ledgers
      <3>4. PICK extras, vs :
              /\ extras = K \ DOMAIN ledger
              /\ vs = [i \in DOMAIN ledger \cup extras |->
                         IF i \in DOMAIN ledger THEN ledger[i] ELSE responses[i].usage]
        OBVIOUS
      <3>5. DOMAIN vs = K /\ \A i \in extras : Complete(i)
        BY <1>4, <3>3, <3>4
      <3>6. usage = UsageSum(K, vs)
        BY <1>1, <3>1, <3>4, <3>5 DEF LoggedUsage
      <3>7. \A i \in K : vs[i] = us[i]
        <4> SUFFICES ASSUME NEW i \in K PROVE vs[i] = us[i]
          OBVIOUS
        <4>1. CASE i \in DOMAIN ledger
          BY <1>1, <1>2, <1>4, <3>3, <3>4, <4>1 DEF Agrees
        <4>2. CASE i \notin DOMAIN ledger
          BY <1>2, <3>4, <4>2
        <4> QED BY <4>1, <4>2
      <3> QED BY <3>6, <3>7
    <2> QED BY <2>1, <2>2
  <1>6. PICK vs : (\A i \in K : vs[i] = us[i]) /\ usage = UsageSum(K, vs)
    BY <1>5
  <1>7. PICK input, output :
          /\ input = SumFunction([i \in K |-> vs[i].input_tokens])
          /\ output = SumFunction([i \in K |-> vs[i].output_tokens])
    OBVIOUS
  <1>8. usage = [ input_tokens |-> input, output_tokens |-> output,
                  reported_total_tokens |-> input + output ]
    BY <1>6, <1>7 DEF UsageSum
  <1>9. /\ Recounts(us, events) /\ \A k \in DOMAIN us : IsComplete(us[k]) /\ vs[k] = us[k]
        /\ input = SumFunction([i \in DOMAIN us |-> vs[i].input_tokens])
        /\ output = SumFunction([i \in DOMAIN us |-> vs[i].output_tokens])
    BY <1>1, <1>2, <1>4, <1>6, <1>7
  <1> QED BY <1>8, <1>9, SumSays

LEMMA OpenHandsAddsStep ==
  ASSUME LogAdds, LogOrder, OpenHandsToolsInv, source = "openhands", source' = source,
         reading = "reading", OpenHandsStep, reading' # "raised"
  PROVE  LogAdds'
  <1>0. PICK n : n = Len(responses)
    OBVIOUS
  <1>1. /\ n \in Nat /\ IsSeq(events) /\ IsSeq(responses) /\ UsagesOK(events)
        /\ Recounts(ResponseColumn, events)
    BY <1>0 DEF LogOrder, CallsRead, Ordered, LogAdds, ReaderAdds, OpenHandsToolsInv
  <1>2. ASSUME NEW usage \in ResponseUsages, NEW tools \in SUBSET ToolIds,
               ReadCompletion(usage, tools)
        PROVE  LogAdds'
    <2>1. PICK called : called = CompletionEvents(n + 1, usage)
      OBVIOUS
    <2>2. PICK answers \in Answered : events' = events \o (answers \o called)
      BY <1>0, <1>2, <2>1 DEF ReadCompletion, Emit
    <2>3. /\ reading' = reading
          /\ responses' = Append(responses, [usage |-> usage, tools |-> tools])
      BY <1>2 DEF ReadCompletion
    <2>4. AreResults(answers, n)
      BY <1>0, <1>1, <2>2, AnsweredAreResults
    <2>5. IsSeq(answers) /\ \A i \in DOMAIN answers : ~IsTerminal(answers[i])
      BY <2>4, ResultsAddNothing
    <2>6. PICK s : s = events \o answers
      OBVIOUS
    <2>7. IsSeq(s) /\ UsagesOK(s) /\ Recounts(ResponseColumn, s)
      BY <1>1, <2>5, <2>6, NothingAdded, ConcatParts
    <2>8. IsSeq(s \o called) /\ UsagesOK(s \o called) /\ Recounts(ResponseColumn', s \o called)
      BY <1>0, <1>1, <2>1, <2>3, <2>7, CompletionAdds
    <2>9. events' = s \o called
      <3>1. IsSeq(called)
        BY <2>1, CallIsBlock DEF CompletionEvents, IsBlock
      <3> QED BY <1>1, <2>2, <2>5, <2>6, <3>1, Associative
    <2> QED BY <2>3, <2>8, <2>9 DEF LogAdds, ReaderAdds
  <1>3. ASSUME NEW usage \in ResponseUsages, NEW tools \in SUBSET ToolIds,
               ReadLoggedCompletion(usage, tools)
        PROVE  LogAdds'
    <2>1. PICK called : called = CompletionEvents(n + 1, usage)
      OBVIOUS
    <2>2. PICK outcome \in Histories(tools) :
            \E results \in ResultsOf(n + 1, outcome) : events' = events \o (called \o results)
      BY <1>0, <1>3, <2>1 DEF ReadLoggedCompletion, Emit
    <2>3. PICK results \in ResultsOf(n + 1, outcome) : events' = events \o (called \o results)
      BY <2>2
    <2>4. /\ reading' = reading
          /\ responses' = Append(responses, [usage |-> usage, tools |-> tools])
      BY <1>3 DEF ReadLoggedCompletion
    <2>5. IsSeq(results) /\ \A i \in DOMAIN results : ~IsTerminal(results[i])
      <3>1. IsFiniteSet(DOMAIN outcome)
        <4>1. DOMAIN outcome \subseteq tools
          BY DEF Histories
        <4> QED BY <4>1, ToolIdsAssumption, FS_Subset
      <3>2. n + 1 \in 1..(n + 1)
        BY <1>1
      <3> QED BY <3>1, <3>2, AnyOrderAreResults, ResultsAddNothing
    <2>6. PICK s : s = events \o called
      OBVIOUS
    <2>7. IsSeq(s) /\ UsagesOK(s) /\ Recounts(ResponseColumn', s)
      BY <1>0, <1>1, <2>1, <2>4, <2>6, CompletionAdds
    <2>8. events' = s \o results
      <3>1. IsSeq(called)
        BY <2>1, CallIsBlock DEF CompletionEvents, IsBlock
      <3> QED BY <1>1, <2>3, <2>5, <2>6, <3>1, Associative
    <2>9. IsSeq(events') /\ UsagesOK(events') /\ Recounts(ResponseColumn', events')
      BY <2>5, <2>7, <2>8, NothingAdded, ConcatParts
    <2> QED BY <2>4, <2>9 DEF LogAdds, ReaderAdds
  <1>4. CASE EndOpenHandsTask
    <2>0. PICK ending \in EndTypes :
            \E usage : /\ FinishTask(ending, usage)
                       /\ \/ usage = ResponseSum
                          \/ \E ledger \in Ledgers : usage = LoggedUsage(ledger)
      BY <1>4 DEF EndOpenHandsTask, EndTypes
    <2>1. PICK usage : /\ FinishTask(ending, usage)
                       /\ \/ usage = ResponseSum
                          \/ \E ledger \in Ledgers : usage = LoggedUsage(ledger)
      BY <2>0
    <2>2. PICK u, t, s : /\ t = << >> /\ s = events
                         /\ u = s \o (t \o <<EndEvent(ending, usage)>>)
      OBVIOUS
    <2>3. /\ events' = events \o <<EndEvent(ending, usage)>> /\ reading' = "validating"
          /\ Len(responses) = task.calls
      BY <2>1 DEF FinishTask, Emit
    <2>4. Says(usage, events)
      BY <1>1, <2>1, <2>3, OpenHandsEndAdds
    <2>5. IsSeq(u) /\ UsagesOK(u) /\ u[Len(u)].usage = usage /\ Says(usage, u)
      <3>1. AreResults(t, n) /\ ending \in EndTypes
        BY <2>0, <2>2, NoResults
      <3>2. /\ IsSeq(s) /\ UsagesOK(s) /\ Says(usage, s)
            /\ u = s \o (t \o <<EndEvent(ending, usage)>>)
        BY <1>1, <2>2, <2>4
      <3> QED BY <3>1, <3>2, EndSays
    <2>6. events' = u /\ TaskUsage' = usage
      BY <2>2, <2>3, <2>5 DEF TaskUsage
    <2> QED BY <2>3, <2>5, <2>6 DEF LogAdds
  <1>5. ~RejectOpenHands
    BY DEF RejectOpenHands, RaiseSchemaError
  <1> QED BY <1>2, <1>3, <1>4, <1>5 DEF OpenHandsStep

-----------------------------------------------------------------------------
(* The ledger counts what the passed events say, call by call.             *)
CallTotal(t) ==
  SumFunctionOnSet([i \in DOMAIN t |-> UsageTotal(t[i].usage)], DOMAIN t)

CallsTotal(rs, ts) ==
  SumFunctionOnSet([j \in DOMAIN rs |-> CallTotal(ts[rs[j].call])], DOMAIN rs)

(* Among the first n events of s: a request of call c, a terminal with     *)
(* this usage.  Bills: a call's ledger t has a terminal with this usage.   *)
AskedIn(s, n, c) == \E k \in 1..n : IsRequest(s[k]) /\ s[k].call = c

UsedIn(s, n, usage) == \E k \in 1..n : IsTerminal(s[k]) /\ s[k].usage = usage

Bills(t, usage) == \E i \in DOMAIN t : t[i].usage = usage

LedgerFollows ==
  /\ IsSeq(requests)
  /\ \A c \in CallIds : IsSeq(terminals[c])
  /\ \A j \in DOMAIN requests :
       requests[j].call \in CallIds /\ AskedIn(events, checked, requests[j].call)
  /\ \A i, j \in DOMAIN requests : requests[i].call = requests[j].call => i = j
  /\ \A c \in CallIds : DOMAIN terminals[c] # {} => Requested(c)
  /\ \A c \in CallIds : \A i \in DOMAIN terminals[c] : UsedIn(events, checked, terminals[c][i].usage)
  /\ \A k \in 1..checked : IsTerminal(events[k]) =>
       events[k].call \in CallIds /\ Bills(terminals[events[k].call], events[k].usage)
  /\ TotalUpTo(events, checked) = CallsTotal(requests, terminals)

-----------------------------------------------------------------------------
LEMMA LedgerUsages ==
  ASSUME LedgerFollows, UsagesOK(events), \A k \in 1..checked : k \in DOMAIN events,
         NEW c \in CallIds, NEW i \in DOMAIN terminals[c]
  PROVE  terminals[c][i].usage \in TokenUsage /\ ~TotalMismatch(terminals[c][i].usage)
  BY DEF LedgerFollows, UsedIn, UsagesOK

LEMMA CallTotalType ==
  ASSUME LedgerFollows, UsagesOK(events), \A k \in 1..checked : k \in DOMAIN events,
         NEW c \in CallIds
  PROVE  CallTotal(terminals[c]) \in Nat
  <1>1. PICK t, D, f : /\ t = terminals[c] /\ D = DOMAIN t
                       /\ f = [i \in D |-> UsageTotal(t[i].usage)]
    OBVIOUS
  <1>2. IsSeq(t)
    BY <1>1 DEF LedgerFollows
  <1>3. IsFiniteSet(D)
    <2>1. Len(t) \in Nat /\ D = 1..Len(t)
      BY <1>1, <1>2, SeqOfItsElements
    <2> QED BY <2>1, IntervalIsFinite
  <1>4. \A i \in D : t[i].usage \in TokenUsage
    BY <1>1, LedgerUsages
  <1>5. \A i \in D : f[i] \in Nat
    BY <1>1, <1>4, UsageTotalType
  <1>6. Nat \in {Nat, Int}
    OBVIOUS
  <1>7. SumFunctionOnSet(f, D) \in Nat
    BY <1>3, <1>5, <1>6, SumType
  <1> QED BY <1>1, <1>7 DEF CallTotal

(* One more terminal of a call.                                            *)
LEMMA OneMoreTerminal ==
  ASSUME NEW s, IsSeq(s), NEW t, NEW terminal, t = Append(s, terminal),
         \A i \in DOMAIN s : s[i].usage \in TokenUsage, terminal.usage \in TokenUsage
  PROVE  CallTotal(t) = CallTotal(s) + UsageTotal(terminal.usage)
  <1>1. PICK n : n = Len(s)
    OBVIOUS
  <1>2. /\ n \in Nat /\ DOMAIN s = 1..n /\ DOMAIN t = 1..(n + 1)
        /\ \A i \in DOMAIN s : t[i] = s[i]
        /\ t[n + 1] = terminal
    BY <1>1, AppendParts
  <1>3. PICK f, g : /\ f = [i \in 1..n |-> UsageTotal(s[i].usage)]
                    /\ g = [i \in 1..(n + 1) |-> UsageTotal(t[i].usage)]
    OBVIOUS
  <1>4. \A i \in 1..n : f[i] = g[i]
    BY <1>2, <1>3
  <1>5. \A i \in 1..(n + 1) : t[i].usage \in TokenUsage
    <2>1. \A i \in 1..(n + 1) : i \in 1..n \/ i = n + 1
      BY <1>2
    <2> QED BY <1>2, <2>1
  <1>6. \A i \in 1..(n + 1) : g[i] \in Int
    <2>1. \A i \in 1..(n + 1) : UsageTotal(t[i].usage) \in Nat
      BY <1>5, UsageTotalType
    <2>2. PICK D : D = 1..(n + 1) /\ g = [i \in D |-> UsageTotal(t[i].usage)]
      BY <1>3
    <2>3. \A i \in D : g[i] \in Nat
      <3>1. \A i \in D : UsageTotal(t[i].usage) \in Nat
        BY <2>1, <2>2
      <3>2. \A i \in D : g[i] = UsageTotal(t[i].usage)
        BY <2>2
      <3> QED BY <3>1, <3>2
    <2>4. \A i \in D : g[i] \in Int
      BY <2>3
    <2> QED BY <2>2, <2>4
  <1>7. SumFunctionOnSet(g, 1..(n + 1)) = SumFunctionOnSet(f, 1..n) + g[n + 1]
    BY <1>2, <1>4, <1>6, SumNext
  <1>8. g[n + 1] = UsageTotal(terminal.usage)
    <2>1. n + 1 \in 1..(n + 1)
      BY <1>2
    <2>2. g[n + 1] = UsageTotal(t[n + 1].usage)
      BY <1>3, <2>1
    <2> QED BY <1>2, <2>2
  <1> QED BY <1>2, <1>3, <1>7, <1>8 DEF CallTotal

LEMMA StillPassed ==
  ASSUME NEW k, NEW e, Passes(k, e)
  PROVE  /\ \A c : AskedIn(events, checked, c) => AskedIn(events', checked', c)
         /\ \A usage : UsedIn(events, checked, usage) => UsedIn(events', checked', usage)
         /\ \A i : i \in 1..checked' <=> i \in 1..checked \/ i = k
  <1>1. \A i : i \in 1..checked' <=> i \in 1..checked \/ i = k
    BY DEF Passes
  <1>2. events' = events
    BY DEF Passes
  <1>3. \A c : AskedIn(events, checked, c) => AskedIn(events', checked', c)
    BY <1>1, <1>2 DEF AskedIn
  <1>4. \A usage : UsedIn(events, checked, usage) => UsedIn(events', checked', usage)
    BY <1>1, <1>2 DEF UsedIn
  <1> QED BY <1>1, <1>3, <1>4

LEMMA PassedAreEvents ==
  ASSUME IsSeq(events), NEW k, NEW e, Passes(k, e), k \in DOMAIN events
  PROVE  \A i \in 1..checked : i \in DOMAIN events
  <1>1. PICK n : n = Len(events) /\ n \in Nat /\ DOMAIN events = 1..n
    BY SeqOfItsElements
  <1>2. checked \in Nat /\ checked + 1 \in 1..n
    BY <1>1 DEF Passes
  <1>3. \A i \in 1..checked : i \in 1..n
    BY <1>1, <1>2
  <1> QED BY <1>1, <1>3

(* One more event is passed, and the ledger follows.                       *)
LEMMA OtherEventKeepsLedger ==
  ASSUME LedgerFollows, UsagesOK(events), IsSeq(events), NEW k, NEW e, Passes(k, e),
         k \in DOMAIN events, ~IsRequest(e), ~IsTerminal(e), UNCHANGED <<requests, terminals>>
  PROVE  LedgerFollows'
  <1>1. /\ \A c : AskedIn(events, checked, c) => AskedIn(events', checked', c)
        /\ \A usage : UsedIn(events, checked, usage) => UsedIn(events', checked', usage)
        /\ \A i : i \in 1..checked' <=> i \in 1..checked \/ i = k
    BY StillPassed
  <1>2. /\ events' = events /\ e = events[k] /\ checked' = checked + 1 /\ k = checked + 1
        /\ checked \in Nat
    BY DEF Passes
  <1>3. TotalUpTo(events', checked') = TotalUpTo(events, checked)
    <2>1. TotalUpTo(events, k) = TotalUpTo(events, checked) + EventTotal(events[k])
      BY <1>2, NextTotal
    <2>2. EventTotal(events[k]) = 0
      BY <1>2 DEF EventTotal
    <2>3. TotalUpTo(events, checked) \in Nat
      <3>1. checked <= Len(events)
        BY <1>2, SeqOfItsElements
      <3> QED BY <1>2, <3>1, TotalUpToType
    <2> QED BY <1>2, <2>1, <2>2, <2>3
  <1>4. \A c : Requested(c) => Requested(c)'
    BY DEF Requested
  <1>5. \A c, usage : Bills(terminals[c], usage) => Bills(terminals'[c], usage)
    BY DEF Bills
  <1>6. \A i \in 1..checked' : IsTerminal(events'[i]) =>
          events'[i].call \in CallIds /\ Bills(terminals'[events'[i].call], events'[i].usage)
    <2>1. \A i \in 1..checked : IsTerminal(events[i]) =>
            events[i].call \in CallIds /\ Bills(terminals[events[i].call], events[i].usage)
      BY DEF LedgerFollows
    <2> QED BY <1>1, <1>2, <1>5, <2>1
  <1> QED BY <1>1, <1>3, <1>4, <1>6 DEF LedgerFollows

LEMMA RequestKeepsLedger ==
  ASSUME LedgerFollows, UsagesOK(events), IsSeq(events), NEW k, NEW e, Passes(k, e),
         k \in DOMAIN events, IsRequest(e), e.call \in CallIds, RequestBuilt(e.call, None)
  PROVE  LedgerFollows'
  <1>1. /\ \A c : AskedIn(events, checked, c) => AskedIn(events', checked', c)
        /\ \A usage : UsedIn(events, checked, usage) => UsedIn(events', checked', usage)
        /\ \A i : i \in 1..checked' <=> i \in 1..checked \/ i = k
    BY StillPassed
  <1>2. /\ events' = events /\ e = events[k] /\ checked' = checked + 1 /\ k = checked + 1
        /\ checked \in Nat /\ ~IsTerminal(e)
    BY KindsExclude DEF Passes
  <1>3. PICK request, n : request = [call |-> e.call, local |-> None] /\ n = Len(requests)
    OBVIOUS
  <1>4. /\ request.call = e.call /\ requests' = Append(requests, request)
        /\ terminals' = terminals /\ ~Requested(e.call)
    BY <1>3 DEF RequestBuilt, MayRequest
  <1>5. /\ IsSeq(requests') /\ n \in Nat
        /\ DOMAIN requests = 1..n /\ DOMAIN requests' = 1..(n + 1)
        /\ \A i \in DOMAIN requests : requests'[i] = requests[i]
        /\ requests'[n + 1] = request
    <2>1. IsSeq(requests)
      BY DEF LedgerFollows
    <2> QED BY <1>3, <1>4, <2>1, AppendParts
  <1>6. \A i \in DOMAIN requests' : i \in DOMAIN requests \/ i = n + 1
    BY <1>5
  <1>7. AskedIn(events', checked', e.call)
    <2>1. IsRequest(events'[k])
      BY <1>2
    <2> QED BY <1>1, <1>2, <2>1 DEF AskedIn
  <1>8. \A j \in DOMAIN requests' :
          requests'[j].call \in CallIds /\ AskedIn(events', checked', requests'[j].call)
    <2> SUFFICES ASSUME NEW j \in DOMAIN requests'
                 PROVE  requests'[j].call \in CallIds /\ AskedIn(events', checked', requests'[j].call)
      OBVIOUS
    <2>1. CASE j \in DOMAIN requests
      BY <1>1, <1>5, <2>1 DEF LedgerFollows
    <2>2. CASE j = n + 1
      BY <1>4, <1>5, <1>7, <2>2
    <2> QED BY <1>6, <2>1, <2>2
  <1>9. \A i, j \in DOMAIN requests' : requests'[i].call = requests'[j].call => i = j
    <2>1. \A i \in DOMAIN requests : requests'[i].call # e.call
      BY <1>4, <1>5 DEF Requested
    <2>2. \A i, j \in DOMAIN requests : requests[i].call = requests[j].call => i = j
      BY DEF LedgerFollows
    <2> QED BY <1>4, <1>5, <1>6, <2>1, <2>2
  <1>10. \A c : Requested(c) => Requested(c)'
    <2>1. \A i \in DOMAIN requests : i \in DOMAIN requests'
      BY <1>5
    <2> QED BY <1>5, <2>1 DEF Requested
  <1>11. \A c, usage : Bills(terminals[c], usage) => Bills(terminals'[c], usage)
    BY <1>4 DEF Bills
  <1>12. \A i \in 1..checked' : IsTerminal(events'[i]) =>
           events'[i].call \in CallIds /\ Bills(terminals'[events'[i].call], events'[i].usage)
    <2>1. \A i \in 1..checked : IsTerminal(events[i]) =>
            events[i].call \in CallIds /\ Bills(terminals[events[i].call], events[i].usage)
      BY DEF LedgerFollows
    <2> QED BY <1>1, <1>2, <1>11, <2>1
  <1>13. \A i \in 1..checked : i \in DOMAIN events
    BY PassedAreEvents
  <1>14. TotalUpTo(events', checked') = TotalUpTo(events, checked)
    <2>1. TotalUpTo(events, k) = TotalUpTo(events, checked) + EventTotal(events[k])
      BY <1>2, NextTotal
    <2>2. EventTotal(events[k]) = 0
      BY <1>2 DEF EventTotal
    <2>3. TotalUpTo(events, checked) \in Nat
      <3>1. checked <= Len(events)
        BY <1>2, SeqOfItsElements
      <3> QED BY <1>2, <3>1, TotalUpToType
    <2> QED BY <1>2, <2>1, <2>2, <2>3
  <1>15. CallsTotal(requests', terminals') = CallsTotal(requests, terminals)
    <2>1. PICK f, g : /\ f = [j \in 1..n |-> CallTotal(terminals[requests[j].call])]
                      /\ g = [j \in 1..(n + 1) |-> CallTotal(terminals[requests'[j].call])]
      OBVIOUS
    <2>2. \A j \in 1..n : f[j] = g[j]
      BY <1>5, <2>1
    <2>3. \A j \in 1..(n + 1) : CallTotal(terminals[requests'[j].call]) \in Nat
      BY <1>5, <1>8, <1>13, CallTotalType
    <2>4. \A j \in 1..(n + 1) : g[j] \in Int
      BY <2>1, <2>3
    <2>5. SumFunctionOnSet(g, 1..(n + 1)) = SumFunctionOnSet(f, 1..n) + g[n + 1]
      BY <1>5, <2>2, <2>4, SumNext
    <2>6. g[n + 1] = 0
      <3>1. g[n + 1] = CallTotal(terminals[e.call])
        BY <1>4, <1>5, <2>1
      <3>2. DOMAIN terminals[e.call] = {}
        BY <1>4 DEF LedgerFollows
      <3> QED BY <3>1, <3>2, SumEmpty DEF CallTotal
    <2>7. SumFunctionOnSet(f, 1..n) \in Int
      <3>1. IsFiniteSet(1..n)
        BY <1>5, IntervalIsFinite
      <3>2. \A j \in 1..n : f[j] \in Int
        BY <1>5, <2>2, <2>4
      <3>3. Int \in {Nat, Int}
        OBVIOUS
      <3> QED BY <3>1, <3>2, <3>3, SumType
    <2>8. /\ CallsTotal(requests, terminals) = SumFunctionOnSet(f, 1..n)
          /\ CallsTotal(requests', terminals') = SumFunctionOnSet(g, 1..(n + 1))
      BY <1>4, <1>5, <2>1 DEF CallsTotal
    <2> QED BY <2>5, <2>6, <2>7, <2>8
  <1>16. /\ \A c \in CallIds : IsSeq(terminals'[c])
         /\ \A c \in CallIds : DOMAIN terminals'[c] # {} => Requested(c)'
         /\ \A c \in CallIds : \A i \in DOMAIN terminals'[c] : UsedIn(events', checked', terminals'[c][i].usage)
    BY <1>1, <1>4, <1>10 DEF LedgerFollows
  <1>17. TotalUpTo(events', checked') = CallsTotal(requests', terminals')
    BY <1>14, <1>15 DEF LedgerFollows
  <1> QED BY <1>5, <1>8, <1>9, <1>12, <1>16, <1>17 DEF LedgerFollows

LEMMA TerminalKeepsLedger ==
  ASSUME LedgerFollows, TablesFollow, UsagesOK(events), IsSeq(events), NEW k, NEW e,
         Passes(k, e), k \in DOMAIN events, IsTerminal(e), e.call \in CallIds,
         NEW completed, ApiTerminal(e.call, e.attempt, completed, e.usage)
  PROVE  LedgerFollows'
  <1>1. /\ \A c : AskedIn(events, checked, c) => AskedIn(events', checked', c)
        /\ \A usage : UsedIn(events, checked, usage) => UsedIn(events', checked', usage)
        /\ \A i : i \in 1..checked' <=> i \in 1..checked \/ i = k
    BY StillPassed
  <1>2. /\ events' = events /\ e = events[k] /\ checked' = checked + 1 /\ k = checked + 1
        /\ checked \in Nat
    BY DEF Passes
  <1>3. PICK terminal :
          terminal = [attempt |-> e.attempt, completed |-> completed, usage |-> e.usage]
    OBVIOUS
  <1>4. /\ terminal.usage = e.usage
        /\ terminals' = [terminals EXCEPT ![e.call] = Append(@, terminal)]
        /\ requests' = requests /\ e.call = active
    BY <1>3 DEF ApiTerminal, IsOpen, Contiguous
  <1>5. /\ terminals'[e.call] = Append(terminals[e.call], terminal)
        /\ \A c \in CallIds : c # e.call => terminals'[c] = terminals[c]
    BY <1>4 DEF TablesFollow
  <1>6. PICK s, t, n : s = terminals[e.call] /\ t = terminals'[e.call] /\ n = Len(s)
    OBVIOUS
  <1>7. /\ IsSeq(s) /\ IsSeq(t) /\ n \in Nat /\ DOMAIN s = 1..n /\ DOMAIN t = 1..(n + 1)
        /\ \A i \in DOMAIN s : t[i] = s[i]
        /\ t[n + 1] = terminal
    <2>1. IsSeq(s) /\ t = Append(s, terminal)
      BY <1>5, <1>6 DEF LedgerFollows
    <2> QED BY <1>6, <2>1, AppendParts
  <1>8. \A i \in DOMAIN t : i \in DOMAIN s \/ i = n + 1
    BY <1>7
  <1>9. \A i \in 1..checked : i \in DOMAIN events
    BY PassedAreEvents
  <1>10. e.usage \in TokenUsage
    BY <1>2 DEF UsagesOK
  <1>11. Requested(e.call) /\ \A c : Requested(c) => Requested(c)'
    <2>1. Under(events, checked, e.call)
      BY <1>4, ContractsAssumption DEF TablesFollow
    <2>2. PassedRequest(e.call)
      BY <2>1 DEF Under, PassedRequest
    <2>3. \A c : Requested(c) => Requested(c)'
      BY <1>4 DEF Requested
    <2> QED BY <2>2, <2>3 DEF TablesFollow
  <1>12. UsedIn(events', checked', e.usage)
    <2>1. IsTerminal(events'[k]) /\ events'[k].usage = e.usage
      BY <1>2
    <2> QED BY <1>1, <2>1 DEF UsedIn
  <1>13. \A c \in CallIds : /\ IsSeq(terminals'[c])
                            /\ DOMAIN terminals'[c] # {} => Requested(c)'
    BY <1>5, <1>6, <1>7, <1>11 DEF LedgerFollows
  <1>14. \A c \in CallIds : \A i \in DOMAIN terminals'[c] : UsedIn(events', checked', terminals'[c][i].usage)
    <2>1. \A i \in DOMAIN s : UsedIn(events', checked', s[i].usage)
      BY <1>1, <1>6 DEF LedgerFollows
    <2>2. \A i \in DOMAIN t : UsedIn(events', checked', t[i].usage)
      BY <1>4, <1>7, <1>8, <1>12, <2>1
    <2>3. ASSUME NEW c \in CallIds, c # e.call, NEW i \in DOMAIN terminals'[c]
          PROVE  UsedIn(events', checked', terminals'[c][i].usage)
      BY <1>1, <1>5, <2>3 DEF LedgerFollows
    <2> QED BY <1>6, <2>2, <2>3
  <1>15. ASSUME NEW c \in CallIds, NEW usage, Bills(terminals[c], usage)
         PROVE  Bills(terminals'[c], usage)
    <2>1. CASE c # e.call
      BY <1>5, <1>15, <2>1 DEF Bills
    <2>2. CASE c = e.call
      <3>1. PICK i \in DOMAIN s : s[i].usage = usage
        BY <1>6, <1>15, <2>2 DEF Bills
      <3>2. i \in DOMAIN t /\ t[i].usage = usage
        BY <1>7, <3>1
      <3> QED BY <1>6, <2>2, <3>2 DEF Bills
    <2> QED BY <2>1, <2>2
  <1>16. Bills(terminals'[e.call], e.usage)
    <2>1. n + 1 \in DOMAIN t /\ t[n + 1].usage = e.usage
      BY <1>4, <1>7
    <2> QED BY <1>6, <2>1 DEF Bills
  <1>17. \A i \in 1..checked' : IsTerminal(events'[i]) =>
           events'[i].call \in CallIds /\ Bills(terminals'[events'[i].call], events'[i].usage)
    <2>1. \A i \in 1..checked : IsTerminal(events[i]) =>
            events[i].call \in CallIds /\ Bills(terminals[events[i].call], events[i].usage)
      BY DEF LedgerFollows
    <2> QED BY <1>1, <1>2, <1>15, <1>16, <2>1
  <1>18. TotalUpTo(events', checked') = TotalUpTo(events, checked) + UsageTotal(e.usage)
    <2>1. TotalUpTo(events, k) = TotalUpTo(events, checked) + EventTotal(events[k])
      BY <1>2, NextTotal
    <2> QED BY <1>2, <2>1 DEF EventTotal
  <1>19. CallTotal(t) = CallTotal(s) + UsageTotal(e.usage)
    <2>1. \A i \in DOMAIN s : s[i].usage \in TokenUsage
      BY <1>6, <1>9, LedgerUsages
    <2>2. t = Append(s, terminal)
      BY <1>5, <1>6
    <2>3. terminal.usage \in TokenUsage
      BY <1>4, <1>10
    <2>4. IsSeq(s)
      BY <1>7
    <2>5. CallTotal(t) = CallTotal(s) + UsageTotal(terminal.usage)
      BY <2>1, <2>2, <2>3, <2>4, OneMoreTerminal
    <2> QED BY <1>4, <2>5
  <1>20. CallsTotal(requests', terminals') =
           CallsTotal(requests, terminals) + UsageTotal(e.usage)
    <2>1. PICK f, g, D :
            /\ D = DOMAIN requests
            /\ f = [j \in D |-> CallTotal(terminals[requests[j].call])]
            /\ g = [j \in D |-> CallTotal(terminals'[requests[j].call])]
      OBVIOUS
    <2>2. PICK r \in D : requests[r].call = e.call
      BY <1>11, <2>1 DEF Requested
    <2>3. \A j \in D : requests[j].call \in CallIds /\ (j # r => requests[j].call # e.call)
      BY <2>1, <2>2 DEF LedgerFollows
    <2>4. \A j \in D \ {r} : f[j] = g[j]
      BY <1>5, <2>1, <2>3
    <2>5. f[r] = CallTotal(s) /\ g[r] = CallTotal(t)
      BY <1>6, <2>1, <2>2
    <2>6. \A j \in D : f[j] \in Nat
      BY <1>9, <2>1, <2>3, CallTotalType
    <2>7. UsageTotal(e.usage) \in Nat
      BY <1>10, UsageTotalType
    <2>8. \A j \in D : f[j] \in Int /\ g[j] \in Int
      <3>1. f[r] \in Nat /\ g[r] = f[r] + UsageTotal(e.usage)
        BY <1>19, <2>2, <2>5, <2>6
      <3>2. g[r] \in Int
        BY <2>7, <3>1
      <3>3. \A j \in D : j = r \/ j \in D \ {r}
        OBVIOUS
      <3> QED BY <2>4, <2>6, <3>2, <3>3
    <2>9. IsFiniteSet(D)
      <3>1. Len(requests) \in Nat /\ D = 1..Len(requests)
        BY <2>1, SeqOfItsElements DEF LedgerFollows
      <3> QED BY <3>1, IntervalIsFinite
    <2>10. SumFunctionOnSet(g, D) = SumFunctionOnSet(f, D) + (g[r] - f[r])
      BY <2>4, <2>8, <2>9, SumUpdate
    <2>11. g[r] - f[r] = UsageTotal(e.usage)
      BY <1>19, <2>2, <2>5, <2>6, <2>7
    <2>12. /\ CallsTotal(requests, terminals) = SumFunctionOnSet(f, D)
           /\ CallsTotal(requests', terminals') = SumFunctionOnSet(g, D)
      BY <1>4, <2>1 DEF CallsTotal
    <2> QED BY <2>10, <2>11, <2>12
  <1>21. /\ IsSeq(requests')
         /\ \A j \in DOMAIN requests' :
              requests'[j].call \in CallIds /\ AskedIn(events', checked', requests'[j].call)
         /\ \A i, j \in DOMAIN requests' : requests'[i].call = requests'[j].call => i = j
    BY <1>1, <1>4 DEF LedgerFollows
  <1>22. TotalUpTo(events', checked') = CallsTotal(requests', terminals')
    BY <1>18, <1>20 DEF LedgerFollows
  <1> QED BY <1>13, <1>14, <1>17, <1>21, <1>22 DEF LedgerFollows

-----------------------------------------------------------------------------
LEMMA AllowedKeepsLedger ==
  ASSUME InOrder, LedgerFollows, UsagesOK(events), reading = "validating",
         Allowed(events[checked + 1]), checked' = checked + 1, UNCHANGED events
  PROVE  LedgerFollows'
  <1>1. PICK k, e, n : Checking(k, e, n)
    BY DEF Checking
  <1>2. /\ checked \in Nat /\ k = checked + 1 /\ k \in DOMAIN events /\ e = events[k]
        /\ TablesFollow /\ IsSeq(events)
        /\ phase = (IF checked = 0 THEN "new" ELSE "open")
    BY <1>1, AtEvent DEF Checking, Ordered
  <1>3. Passes(k, e) /\ Allowed(e)
    BY <1>2 DEF Passes
  <1>4. CASE e.type = "task_started" /\ TaskStarted
    <2>1. ~IsRequest(e) /\ ~IsTerminal(e) /\ UNCHANGED <<requests, terminals>>
      BY <1>4, KindsExclude DEF TaskStarted
    <2> QED BY <1>2, <1>3, <2>1, OtherEventKeepsLedger
  <1>5. CASE e.type = "request_built" /\ RequestBuilt(e.call, None)
    <2>1. IsRequest(e) /\ phase = "open"
      BY <1>5 DEF IsRequest, RequestBuilt, MayRequest
    <2>2. e.call \in CallIds
      BY <1>1, <2>1, RequestIsAdmitted
    <2> QED BY <1>2, <1>3, <1>5, <2>1, <2>2, RequestKeepsLedger
  <1>6. CASE e.type = "api_attempt_started" /\ ApiAttemptStarted(e.call, e.attempt)
    <2>1. IsAttempt(e)
      BY <1>6 DEF IsAttempt
    <2>2. ~IsRequest(e) /\ ~IsTerminal(e) /\ UNCHANGED <<requests, terminals>>
      BY <1>6, <2>1, KindsExclude DEF ApiAttemptStarted
    <2> QED BY <1>2, <1>3, <2>2, OtherEventKeepsLedger
  <1>7. CASE /\ e.type \in {"api_completed", "api_failed"}
             /\ ApiTerminal(e.call, e.attempt, e.type = "api_completed", e.usage)
    <2>0. PICK completed : completed = (e.type = "api_completed")
      OBVIOUS
    <2>1. IsTerminal(e) /\ phase = "open"
      BY <1>7 DEF IsTerminal, ApiTerminal, IsOpen, Contiguous
    <2>2. e.call \in CallIds
      BY <1>1, <2>1, TerminalIsAdmitted
    <2>3. ApiTerminal(e.call, e.attempt, completed, e.usage)
      BY <1>7, <2>0
    <2> QED BY <1>2, <1>3, <2>1, <2>2, <2>3, TerminalKeepsLedger
  <1>8. CASE IsToolResult(e) /\ ToolEvent(e.call)
    <2>1. ~IsRequest(e) /\ ~IsTerminal(e) /\ UNCHANGED <<requests, terminals>>
      BY <1>8, KindsExclude DEF ToolEvent, Contiguous, trajectoryVars
    <2> QED BY <1>2, <1>3, <2>1, OtherEventKeepsLedger
  <1>9. CASE \/ e.type = "task_finished" /\ TaskFinished
             \/ e.type = "task_aborted" /\ TaskAborted /\ phase' = "aborted_censored"
    <2>1. IsEnd(e)
      BY <1>9 DEF IsEnd, EndTypes
    <2>2. ~IsRequest(e) /\ ~IsTerminal(e) /\ UNCHANGED <<requests, terminals>>
      BY <1>9, <2>1, KindsExclude DEF TaskFinished, TaskAborted
    <2> QED BY <1>2, <1>3, <2>2, OtherEventKeepsLedger
  <1> QED BY <1>3, <1>4, <1>5, <1>6, <1>7, <1>8, <1>9 DEF Allowed

(* Nothing passed, nothing in the ledger.                                  *)
NothingBilled ==
  /\ IsSeq(requests) /\ DOMAIN requests = {}
  /\ \A c \in CallIds : IsSeq(terminals[c]) /\ DOMAIN terminals[c] = {}

LEMMA NothingBilledYet ==
  ASSUME NothingBilled, checked = 0
  PROVE  LedgerFollows
  <1>1. \A i : i \notin 1..0
    OBVIOUS
  <1>2. TotalUpTo(events, checked) = 0
    <2>1. 1..0 = {}
      OBVIOUS
    <2> QED BY <2>1, SumEmpty DEF TotalUpTo
  <1>3. CallsTotal(requests, terminals) = 0
    BY SumEmpty DEF CallsTotal, NothingBilled
  <1> QED BY <1>1, <1>2, <1>3 DEF LedgerFollows, NothingBilled

LEMMA NoTablesNothingBilled ==
  ASSUME LedgerFollows, checked = 0
  PROVE  NothingBilled
  <1>1. \A i : i \notin 1..0
    OBVIOUS
  <1>2. DOMAIN requests = {}
    BY <1>1 DEF LedgerFollows, AskedIn
  <1>3. \A c \in CallIds : DOMAIN terminals[c] = {}
    BY <1>2 DEF LedgerFollows, Requested
  <1> QED BY <1>2, <1>3 DEF LedgerFollows, NothingBilled

LEMMA ReadersKeepLedger ==
  LedgerFollows /\ checked = 0 /\ UNCHANGED <<checked, trajectoryVars>> => LedgerFollows'
  <1>1. LedgerFollows /\ checked = 0 => NothingBilled
    BY NoTablesNothingBilled
  <1>2. NothingBilled /\ checked = 0 /\ UNCHANGED <<checked, trajectoryVars>> =>
          NothingBilled' /\ (checked = 0)'
    BY DEF NothingBilled, trajectoryVars
  <1>3. NothingBilled /\ checked = 0 => LedgerFollows
    BY NothingBilledYet
  <1> QED BY <1>1, <1>2, <1>3, PTL

-----------------------------------------------------------------------------
AggregateInv ==
  reading \in {"reading", "validating", "accepted"} =>
    /\ LogAdds
    /\ LedgerFollows
    /\ reading = "accepted" =>
         /\ checked = Len(events)
         /\ phase \in {"finished", "aborted_censored"}
         /\ phase = "finished" => \A c \in CallIds : Dangling(c) = {}

LEMMA AggregateInitEstablishes == Init => AggregateInv
  <1> SUFFICES ASSUME Init PROVE AggregateInv
    OBVIOUS
  <1>1. /\ events = <<StartedEvent>> /\ reading = "reading" /\ checked = 0
        /\ requests = << >> /\ terminals = [c \in CallIds |-> << >>]
        /\ usages = << >> /\ summedInput = 0 /\ summedOutput = 0 /\ responses = << >>
    BY DEF Init, LogInit, TrajectoryInit, SwebenchInit, SokobanInit, OpenHandsInit
  <1>2. IsSeq(<< >>) /\ DOMAIN << >> = {} /\ Len(<< >>) = 0
    BY SmallSequences
  <1>3. LedgerFollows
    <2>1. NothingBilled
      BY <1>1, <1>2 DEF NothingBilled
    <2> QED BY <1>1, <2>1, NothingBilledYet
  <1>4. IsSeq(events) /\ \A i \in DOMAIN events : ~IsTerminal(events[i]) /\ ~IsRequest(events[i])
    <2>1. Len(<<StartedEvent>>) = 1 /\ DOMAIN <<StartedEvent>> = 1..1
          /\ <<StartedEvent>>[1].type = "task_started"
      BY DEF StartedEvent
    <2>2. IsSeq(<<StartedEvent>>)
      BY SmallSequences
    <2>3. \A i \in DOMAIN events : i = 1
      BY <1>1, <2>1
    <2>4. events[1].type = "task_started"
      BY <1>1, <2>1
    <2> QED BY <1>1, <2>2, <2>3, <2>4, KindsExclude
  <1>5. /\ UsagesOK(events) /\ TotalOf(events) = 0 /\ IsWhole(events) /\ ~HasTerminal(events)
        /\ EveryCallEnds(events)
    <2>1. EveryCallEnds(events)
      BY <1>4 DEF EveryCallEnds
    <2> QED BY <1>4, <2>1, NothingUsed
  <1>6. \A us : us = << >> => Recounts(us, events)
    BY <1>2, <1>5, SumEmpty DEF Recounts
  <1>7. ResponseColumn = << >>
    <2>1. DOMAIN ResponseColumn = {}
      BY <1>1, <1>2 DEF ResponseColumn
    <2>2. ResponseColumn = [i \in {} |-> << >>[i].usage]
      BY <1>1, <1>2 DEF ResponseColumn
    <2>3. << >> = [i \in {} |-> << >>[i].usage]
      OBVIOUS
    <2> QED BY <2>2, <2>3
  <1>8. ReaderAdds
    <2>1. TotalOf(events) = summedInput + summedOutput /\ summedInput \in Nat /\ summedOutput \in Nat
      BY <1>1, <1>5
    <2> QED BY <1>1, <1>6, <1>7, <2>1 DEF ReaderAdds
  <1>9. LogAdds
    BY <1>1, <1>4, <1>5, <1>8 DEF LogAdds
  <1> QED BY <1>1, <1>3, <1>9 DEF AggregateInv

-----------------------------------------------------------------------------
LEMMA ReaderKeepsAggregate ==
  ASSUME OrderInv, AggregateInv, reading = "reading", UNCHANGED <<checked, trajectoryVars>>,
         reading' \in {"reading", "validating", "raised"}, reading' # "raised" => LogAdds'
  PROVE  AggregateInv'
  <1>1. checked = 0 /\ LedgerFollows
    BY DEF OrderInv, InOrder, FollowsEvents, AggregateInv
  <1>2. LedgerFollows'
    BY <1>1, ReadersKeepLedger
  <1> QED BY <1>2 DEF AggregateInv

LEMMA ReadersEnd ==
  ASSUME reading = "reading", SwebenchStep \/ SokobanStep \/ OpenHandsStep
  PROVE  reading' \in {"reading", "validating", "raised"}
  <1>1. SwebenchStep => reading' \in {"reading", "validating", "raised"}
    BY DEF SwebenchStep, ConsumeAssistant, ConsumeInterruption, ConsumeTool, ConsumeExit,
           RejectSwebench, RaiseSchemaError
  <1>2. SokobanStep => reading' \in {"reading", "validating", "raised"}
    BY DEF SokobanStep, ReadTurn, FinishRollout, RejectSokoban, RaiseSchemaError
  <1>3. OpenHandsStep => reading' \in {"reading", "validating", "raised"}
    BY DEF OpenHandsStep, ReadCompletion, ReadLoggedCompletion, EndOpenHandsTask, FinishTask,
           RejectOpenHands, RaiseSchemaError
  <1> QED BY <1>1, <1>2, <1>3

(* The last event is the task's end, so a log is accepted by its end.      *)
LEMMA AcceptedByItsEnd ==
  ASSUME InOrder, reading = "validating", Allowed(events[checked + 1]),
         checked' = checked + 1, checked' = Len(events)
  PROVE  /\ phase' \in {"finished", "aborted_censored"}
         /\ phase' = "finished" => \A c \in CallIds : Dangling(c)' = {}
  <1>1. PICK k, e, n : Checking(k, e, n)
    BY DEF Checking
  <1>2. k = Len(events) /\ k \in DOMAIN events /\ e = events[k] /\ EndedAtLast(events)
    BY <1>1, AtEvent DEF Checking
  <1>3. IsEnd(e) /\ Allowed(e)
    BY <1>1, <1>2 DEF EndedAtLast, Checking
  <1>4. /\ e.type \in {"task_finished", "task_aborted"} /\ ~IsToolResult(e)
    BY <1>3, KindsExclude DEF IsEnd, EndTypes
  <1>5. CASE e.type = "task_finished" /\ TaskFinished
    <2>1. /\ phase' = "finished" /\ starts' = starts /\ terminals' = terminals
          /\ \A c \in CallIds : Dangling(c) = {}
      BY <1>5 DEF TaskFinished, MayFinish
    <2>2. \A c : Dangling(c)' = Dangling(c)
      BY <2>1 DEF Dangling, Terminated
    <2> QED BY <2>1, <2>2
  <1>6. CASE TaskAborted /\ phase' = "aborted_censored"
    BY <1>6
  <1> QED BY <1>3, <1>4, <1>5, <1>6 DEF Allowed

LEMMA ValidateKeepsAggregate ==
  ASSUME OrderInv, AggregateInv, ValidateEvent
  PROVE  AggregateInv'
  <1>1. /\ reading = "validating" /\ events' = events /\ source' = source
    BY DEF ValidateEvent, Validate
  <1>2. InOrder /\ LogAdds /\ LedgerFollows /\ UsagesOK(events)
    BY <1>1 DEF OrderInv, AggregateInv, LogAdds
  <1>3. PICK e : e = events[checked + 1]
    OBVIOUS
  <1>4. CASE /\ Allowed(e)
             /\ checked' = checked + 1
             /\ reading' = IF checked' = Len(events) THEN "accepted" ELSE reading
    <2>1. reading' # "reading"
      BY <1>1, <1>4
    <2>2. LogAdds'
      <3>1. TaskUsage' = TaskUsage
        BY <1>1 DEF TaskUsage
      <3>2. Says(TaskUsage, events) /\ (source = "swebench" => Hides(TaskUsage, events))
        BY <1>1, <1>2 DEF LogAdds
      <3>3. Says(TaskUsage', events') /\ (source' = "swebench" => Hides(TaskUsage', events'))
        BY <1>1, <3>1, <3>2
      <3>4. IsSeq(events') /\ UsagesOK(events') /\ (source' = "swebench" => EveryCallEnds(events'))
        BY <1>1, <1>2 DEF LogAdds
      <3> QED BY <2>1, <3>3, <3>4 DEF LogAdds
    <2>3. LedgerFollows'
      BY <1>1, <1>2, <1>3, <1>4, AllowedKeepsLedger
    <2>4. reading' = "accepted" =>
            /\ checked' = Len(events')
            /\ phase' \in {"finished", "aborted_censored"}
            /\ phase' = "finished" => \A c \in CallIds : Dangling(c)' = {}
      <3> SUFFICES ASSUME reading' = "accepted"
                   PROVE  /\ checked' = Len(events')
                          /\ phase' \in {"finished", "aborted_censored"}
                          /\ phase' = "finished" => \A c \in CallIds : Dangling(c)' = {}
        OBVIOUS
      <3>1. checked' = Len(events)
        BY <1>1, <1>4
      <3> QED BY <1>1, <1>2, <1>3, <1>4, <3>1, AcceptedByItsEnd
    <2> QED BY <2>2, <2>3, <2>4 DEF AggregateInv
  <1>5. CASE reading' = "raised"
    BY <1>5 DEF AggregateInv
  <1> QED BY <1>3, <1>4, <1>5 DEF ValidateEvent, Validate

LEMMA AggregateNextPreserves == ToolsInv /\ OrderInv /\ AggregateInv /\ [Next]_vars => AggregateInv'
  <1> SUFFICES ASSUME ToolsInv, OrderInv, AggregateInv, [Next]_vars PROVE AggregateInv'
    OBVIOUS
  <1>0. reading = "reading" => LogOrder /\ LogAdds
    BY DEF OrderInv, InOrder, AggregateInv
  <1>1. CASE ReadSwebench
    <2>1. /\ source = "swebench" /\ source' = source /\ SwebenchStep /\ reading = "reading"
          /\ UNCHANGED <<checked, trajectoryVars>>
      BY <1>1, ReaderIsReading, ReadersLeaveTables DEF ReadSwebench
    <2>2. reading' # "raised" => LogAdds'
      BY <1>0, <2>1, SwebenchAddsStep DEF ToolsInv, LogIsKept
    <2> QED BY <2>1, <2>2, ReadersEnd, ReaderKeepsAggregate
  <1>2. CASE ReadSokoban
    <2>1. /\ source = "sokoban" /\ source' = source /\ SokobanStep /\ reading = "reading"
          /\ UNCHANGED <<checked, trajectoryVars>>
      BY <1>2, ReaderIsReading, ReadersLeaveTables DEF ReadSokoban
    <2>2. reading' # "raised" => LogAdds'
      BY <1>0, <2>1, SokobanAddsStep
    <2> QED BY <2>1, <2>2, ReadersEnd, ReaderKeepsAggregate
  <1>3. CASE ReadOpenHands
    <2>1. /\ source = "openhands" /\ source' = source /\ OpenHandsStep /\ reading = "reading"
          /\ UNCHANGED <<checked, trajectoryVars>>
      BY <1>3, ReaderIsReading, ReadersLeaveTables DEF ReadOpenHands
    <2>2. reading' # "raised" => LogAdds'
      BY <1>0, <2>1, OpenHandsAddsStep DEF ToolsInv, LogIsKept
    <2> QED BY <2>1, <2>2, ReadersEnd, ReaderKeepsAggregate
  <1>4. CASE ReadArchive \/ \E t \in Tasks : FollowTask(t)
    <2>1. /\ source = "openhands" /\ reading = "reading"
          /\ UNCHANGED <<source, reading, events, responses, checked, trajectoryVars>>
      BY <1>4 DEF ReadArchive, FollowTask, logVars, openHandsVars
    <2>2. IsSeq(events) /\ UsagesOK(events) /\ Recounts(ResponseColumn, events)
      BY <1>0, <2>1 DEF LogAdds, ReaderAdds
    <2>3. ResponseColumn' = ResponseColumn
      BY <2>1 DEF ResponseColumn
    <2>4. Recounts(ResponseColumn', events')
      BY <2>1, <2>2, <2>3
    <2>5. LogAdds'
      BY <2>1, <2>2, <2>4 DEF LogAdds, ReaderAdds
    <2> QED BY <2>1, <2>5, ReaderKeepsAggregate
  <1>5. CASE ValidateEvent
    BY <1>5, ValidateKeepsAggregate
  <1>6. CASE WriteFile
    BY <1>6 DEF WriteFile, AggregateInv
  <1>7. CASE Replay
    <2>1. reading' = "dropped"
      BY <1>7 DEF Replay, logVars
    <2> QED BY <2>1 DEF AggregateInv
  <1>8. CASE UNCHANGED vars
    <2>1. /\ UNCHANGED <<source, reading, events, checked, phase, requests, starts, terminals>>
          /\ UNCHANGED <<usages, responses, summedInput, summedOutput>>
      BY <1>8 DEF vars, logVars, trajectoryVars, readerVars, swebenchVars, sokobanVars,
                  openHandsVars
    <2>2. LogAdds => LogAdds'
      <3>1. ResponseColumn' = ResponseColumn /\ TaskUsage' = TaskUsage
        BY <2>1 DEF ResponseColumn, TaskUsage
      <3> QED BY <2>1, <3>1 DEF LogAdds, ReaderAdds
    <2>3. LedgerFollows => LedgerFollows'
      BY <2>1 DEF LedgerFollows, Requested
    <2>4. \A c : Dangling(c)' = Dangling(c)
      BY <2>1 DEF Dangling, Terminated
    <2> QED BY <2>1, <2>2, <2>3, <2>4 DEF AggregateInv
  <1> QED BY <1>1, <1>2, <1>3, <1>4, <1>5, <1>6, <1>7, <1>8 DEF Next

LEMMA AggregateInvHolds == Spec => []AggregateInv
  BY AggregateInitEstablishes, AggregateNextPreserves, ToolsInvHolds, OrderInvHolds, PTL DEF Spec

-----------------------------------------------------------------------------
(* A call's label: the sum of its terminals, or missing.                   *)
Settled(t) == DOMAIN t # {} /\ \A i \in DOMAIN t : IsComplete(t[i].usage)

LEMMA CallIsLabelled ==
  ASSUME NEW started, NEW t, IsSeq(t), started \ AttemptsOf(t) = {}, CallTotal(t) \in Nat,
         \A i \in DOMAIN t : t[i].usage \in TokenUsage /\ ~TotalMismatch(t[i].usage)
  PROVE  LedgerTotal(started, t) =
           IF Settled(t) THEN [status |-> "observed", value |-> CallTotal(t)]
                         ELSE Unavailable("missing")
  <1>1. DOMAIN t = {} <=> t = << >>
    <2>1. DOMAIN t = {} => t = << >>
      BY SeqOfItsElements
    <2> QED BY <2>1
  <1>2. ~\E usage \in UsagesIn(t) : TotalMismatch(usage)
    BY DEF UsagesIn
  <1>3. (\E usage \in UsagesIn(t) : ~IsComplete(usage)) <=>
          ~\A i \in DOMAIN t : IsComplete(t[i].usage)
    BY DEF UsagesIn
  <1>4. LedgerStatus(started, t) = IF Settled(t) THEN "observed" ELSE "missing"
    BY <1>1, <1>2, <1>3 DEF LedgerStatus, Settled
  <1>5. CASE Settled(t)
    <2>1. PICK D, f, g : /\ D = DOMAIN t
                         /\ f = [i \in D |-> AccountedTotal(t[i].usage)]
                         /\ g = [i \in D |-> UsageTotal(t[i].usage)]
      OBVIOUS
    <2>2. \A i \in D : f[i] = g[i]
      BY <1>5, <2>1 DEF Settled, UsageTotal
    <2>3. f = g
      BY <2>1, <2>2
    <2>4. SumFunction(f) = CallTotal(t)
      <3>1. DOMAIN f = D
        BY <2>1
      <3>2. SumFunction(f) = SumFunctionOnSet(g, D)
        BY <2>3, <3>1 DEF SumFunction
      <3> QED BY <2>1, <3>2 DEF CallTotal
    <2>5. LedgerTotal(started, t) = Observed(SumFunction(f))
      BY <1>4, <1>5, <2>1 DEF LedgerTotal, LedgerSum, SumOver
    <2>6. ~(CallTotal(t) < 0)
      OBVIOUS
    <2> QED BY <1>5, <2>4, <2>5, <2>6 DEF Observed
  <1>6. CASE ~Settled(t)
    <2>1. "missing" # "observed"
      OBVIOUS
    <2> QED BY <1>4, <1>6, <2>1 DEF LedgerTotal, LedgerSum
  <1> QED BY <1>5, <1>6

-----------------------------------------------------------------------------
(* The whole task's label at its first request.                            *)
AllSettled == \A j \in DOMAIN requests : Settled(terminals[requests[j].call])

AtItsEnd ==
  /\ LedgerFollows
  /\ UsagesOK(events)
  /\ IsSeq(events)
  /\ checked = Len(events)
  /\ phase = "finished"
  /\ \A c \in CallIds : Dangling(c) = {}
  /\ requests # << >>

LEMMA RequestsAtItsEnd ==
  ASSUME AtItsEnd
  PROVE  /\ Len(requests) \in Nat /\ DOMAIN requests = 1..Len(requests) /\ 1 \in DOMAIN requests
         /\ \A i : i \in 1..checked <=> i \in DOMAIN events
  <1>1. Len(requests) \in Nat /\ DOMAIN requests = 1..Len(requests)
    BY SeqOfItsElements DEF AtItsEnd, LedgerFollows
  <1>2. Len(requests) # 0
    BY <1>1, SeqOfItsElements DEF AtItsEnd, LedgerFollows
  <1>3. \A i : i \in 1..checked <=> i \in DOMAIN events
    BY SeqOfItsElements DEF AtItsEnd
  <1> QED BY <1>1, <1>2, <1>3

LEMMA CallsAtItsEnd ==
  ASSUME AtItsEnd, NEW c \in CallIds
  PROVE  /\ CallTotal(terminals[c]) \in Nat
         /\ CallBillableTotal(c) =
              IF Settled(terminals[c])
              THEN [status |-> "observed", value |-> CallTotal(terminals[c])]
              ELSE Unavailable("missing")
  <1>1. \A k \in 1..checked : k \in DOMAIN events
    BY RequestsAtItsEnd
  <1>2. LedgerFollows /\ UsagesOK(events)
    BY DEF AtItsEnd
  <1>3. PICK t : t = terminals[c]
    OBVIOUS
  <1>4. /\ IsSeq(t) /\ CallTotal(t) \in Nat
        /\ \A i \in DOMAIN t : t[i].usage \in TokenUsage /\ ~TotalMismatch(t[i].usage)
    BY <1>1, <1>2, <1>3, CallTotalType, LedgerUsages DEF LedgerFollows
  <1>5. starts[c] \ AttemptsOf(t) = {}
    BY <1>3 DEF AtItsEnd, Dangling, Terminated
  <1>6. LedgerTotal(starts[c], t) =
          IF Settled(t) THEN [status |-> "observed", value |-> CallTotal(t)]
                        ELSE Unavailable("missing")
    BY <1>4, <1>5, CallIsLabelled
  <1> QED BY <1>3, <1>4, <1>6 DEF CallBillableTotal

LEMMA TaskIsLabelled ==
  ASSUME AtItsEnd
  PROVE  TaskRemaining(1) = IF AllSettled THEN Observed(TotalOf(events))
                                          ELSE Unavailable("missing")
  <1>1. PICK n, D : n = Len(requests) /\ D = DOMAIN requests /\ n \in Nat /\ D = 1..n
    BY RequestsAtItsEnd
  <1>2. PICK unavailable :
          unavailable = {j \in D : ~IsObserved(CallBillableTotal(requests[j].call))}
    OBVIOUS
  <1>3. \A j \in D : requests[j].call \in CallIds
    BY <1>1 DEF AtItsEnd, LedgerFollows
  <1>4. \A j \in D : CallBillableTotal(requests[j].call) =
                       IF Settled(terminals[requests[j].call])
                       THEN [status |-> "observed",
                             value |-> CallTotal(terminals[requests[j].call])]
                       ELSE Unavailable("missing")
    BY <1>3, CallsAtItsEnd
  <1>5. \A j \in D : j \in unavailable <=> ~Settled(terminals[requests[j].call])
    <2> SUFFICES ASSUME NEW j \in D
                 PROVE  j \in unavailable <=> ~Settled(terminals[requests[j].call])
      OBVIOUS
    <2>1. PICK t, label : t = terminals[requests[j].call] /\ label = CallBillableTotal(requests[j].call)
      OBVIOUS
    <2>2. label = IF Settled(t) THEN [status |-> "observed", value |-> CallTotal(t)]
                                ELSE [status |-> "missing", value |-> None]
      BY <1>4, <2>1 DEF Unavailable
    <2>3. label.status = IF Settled(t) THEN "observed" ELSE "missing"
      BY <2>2
    <2>4. j \in unavailable <=> label.status # "observed"
      BY <1>2, <2>1 DEF IsObserved
    <2> QED BY <2>1, <2>3, <2>4
  <1>6. AllSettled <=> unavailable = {}
    BY <1>1, <1>2, <1>5 DEF AllSettled
  <1>7. TerminationStatus = "observed"
    BY DEF AtItsEnd, TerminationStatus
  <1>8. CASE unavailable # {}
    <2>1. unavailable \subseteq Nat
      BY <1>1, <1>2
    <2>2. \E x \in unavailable : \A y \in unavailable : x <= y
      BY <1>8, <2>1, LeastNatural
    <2>3. Min(unavailable) \in unavailable
      BY <2>2 DEF Min
    <2>4. CallBillableTotal(requests[Min(unavailable)].call).status = "missing"
      <3>1. PICK j : j = Min(unavailable)
        OBVIOUS
      <3>2. j \in D /\ ~Settled(terminals[requests[j].call])
        BY <1>2, <1>5, <2>3, <3>1
      <3>3. CallBillableTotal(requests[j].call) = [status |-> "missing", value |-> None]
        BY <1>4, <3>2 DEF Unavailable
      <3> QED BY <3>1, <3>3
    <2>5. TaskRemaining(1) =
            Unavailable(CallBillableTotal(requests[Min(unavailable)].call).status)
      BY <1>1, <1>2, <1>7, <1>8 DEF TaskRemaining
    <2> QED BY <1>6, <1>8, <2>4, <2>5
  <1>9. CASE unavailable = {}
    <2>1. PICK f, g : /\ f = [j \in D |-> CallBillableTotal(requests[j].call).value]
                      /\ g = [j \in D |-> CallTotal(terminals[requests[j].call])]
      OBVIOUS
    <2>2. \A j \in D : CallBillableTotal(requests[j].call).value =
                         CallTotal(terminals[requests[j].call])
      <3> SUFFICES ASSUME NEW j \in D
                   PROVE  CallBillableTotal(requests[j].call).value =
                            CallTotal(terminals[requests[j].call])
        OBVIOUS
      <3>1. PICK t, label : t = terminals[requests[j].call] /\ label = CallBillableTotal(requests[j].call)
        OBVIOUS
      <3>2. Settled(t)
        BY <1>5, <1>9, <3>1
      <3>3. label = [status |-> "observed", value |-> CallTotal(t)]
        BY <1>4, <3>1, <3>2
      <3>4. label.value = CallTotal(t)
        BY <3>3
      <3> QED BY <3>1, <3>4
    <2>3. f = g
      BY <2>1, <2>2
    <2>4. DOMAIN f = D
      BY <2>1
    <2>5. SumFunction(f) = CallsTotal(requests, terminals)
      <3>1. SumFunction(f) = SumFunctionOnSet(g, D)
        BY <2>3, <2>4 DEF SumFunction
      <3> QED BY <1>1, <2>1, <3>1 DEF CallsTotal
    <2>6. TaskRemaining(1) = Observed(SumFunction(f))
      BY <1>1, <1>2, <1>7, <1>9, <2>1 DEF TaskRemaining
    <2>7. TotalOf(events) = CallsTotal(requests, terminals)
      BY DEF AtItsEnd, LedgerFollows, TotalOf
    <2> QED BY <1>6, <1>9, <2>5, <2>6, <2>7
  <1> QED BY <1>8, <1>9

(* What settles every call.                                                *)
LEMMA SettledIsWhole ==
  ASSUME AtItsEnd
  PROVE  /\ AllSettled => IsWhole(events) /\ HasTerminal(events)
         /\ EveryCallEnds(events) /\ IsWhole(events) => AllSettled
  <1>1. \A i : i \in 1..checked <=> i \in DOMAIN events
    BY RequestsAtItsEnd
  <1>2. LedgerFollows
    BY DEF AtItsEnd
  <1>3. ASSUME AllSettled
        PROVE  IsWhole(events) /\ HasTerminal(events)
    <2>1. ASSUME NEW k \in DOMAIN events, IsTerminal(events[k])
          PROVE  IsComplete(events[k].usage)
      <3>1. PICK c, usage : c = events[k].call /\ usage = events[k].usage
        OBVIOUS
      <3>2. c \in CallIds /\ Bills(terminals[c], usage)
        BY <1>1, <1>2, <2>1, <3>1 DEF LedgerFollows
      <3>3. PICK i \in DOMAIN terminals[c] : terminals[c][i].usage = usage
        BY <3>2 DEF Bills
      <3>4. Requested(c)
        BY <1>2, <3>2, <3>3 DEF LedgerFollows
      <3>5. Settled(terminals[c])
        BY <1>3, <3>4 DEF Requested, AllSettled
      <3> QED BY <3>1, <3>3, <3>5 DEF Settled
    <2>2. PICK c : c = requests[1].call
      OBVIOUS
    <2>3. c \in CallIds /\ Settled(terminals[c])
      BY <1>2, <1>3, <2>2, RequestsAtItsEnd DEF AllSettled, LedgerFollows
    <2>4. PICK i \in DOMAIN terminals[c] : TRUE
      BY <2>3 DEF Settled
    <2>5. UsedIn(events, checked, terminals[c][i].usage)
      BY <1>2, <2>3, <2>4 DEF LedgerFollows
    <2>6. HasTerminal(events)
      BY <1>1, <2>5 DEF UsedIn, HasTerminal
    <2> QED BY <2>1, <2>6 DEF IsWhole
  <1>4. ASSUME EveryCallEnds(events), IsWhole(events)
        PROVE  AllSettled
    <2> SUFFICES ASSUME NEW j \in DOMAIN requests
                 PROVE  Settled(terminals[requests[j].call])
      BY DEF AllSettled
    <2>1. PICK c : c = requests[j].call
      OBVIOUS
    <2>2. c \in CallIds /\ AskedIn(events, checked, c)
      BY <1>2, <2>1 DEF LedgerFollows
    <2>3. PICK k \in DOMAIN events : IsRequest(events[k]) /\ events[k].call = c
      BY <1>1, <2>2 DEF AskedIn
    <2>4. PICK l \in DOMAIN events : IsTerminal(events[l]) /\ events[l].call = c
      BY <1>4, <2>3 DEF EveryCallEnds
    <2>5. Bills(terminals[events[l].call], events[l].usage)
      BY <1>1, <1>2, <2>4 DEF LedgerFollows
    <2>6. Bills(terminals[c], events[l].usage)
      BY <2>4, <2>5
    <2>7. DOMAIN terminals[c] # {}
      BY <2>6 DEF Bills
    <2>8. \A i \in DOMAIN terminals[c] : IsComplete(terminals[c][i].usage)
      <3> SUFFICES ASSUME NEW i \in DOMAIN terminals[c] PROVE IsComplete(terminals[c][i].usage)
        OBVIOUS
      <3>1. UsedIn(events, checked, terminals[c][i].usage)
        BY <1>2, <2>2 DEF LedgerFollows
      <3>2. PICK m \in DOMAIN events : IsTerminal(events[m]) /\ events[m].usage = terminals[c][i].usage
        BY <1>1, <3>1 DEF UsedIn
      <3> QED BY <1>4, <3>2 DEF IsWhole
    <2> QED BY <2>1, <2>7, <2>8 DEF Settled
  <1> QED BY <1>3, <1>4

LEMMA AggregateAgreesAtTheEnd == AggregateInv => AggregateIsLedgerSum
  <1> SUFFICES ASSUME AggregateInv, reading = "accepted", requests # << >>
               PROVE  /\ IsObserved(TaskRemaining(1)) =>
                           TaskAggregate(TaskUsage) = TaskRemaining(1)
                      /\ source = "swebench" => TaskAggregate(TaskUsage) = TaskRemaining(1)
    BY DEF AggregateIsLedgerSum, Accepted
  <1>1. /\ LedgerFollows /\ IsSeq(events) /\ UsagesOK(events) /\ checked = Len(events)
        /\ source = "swebench" => EveryCallEnds(events)
        /\ Says(TaskUsage, events)
        /\ source = "swebench" => Hides(TaskUsage, events)
        /\ phase \in {"finished", "aborted_censored"}
        /\ phase = "finished" => \A c \in CallIds : Dangling(c) = {}
    BY DEF AggregateInv, LogAdds
  <1>2. CASE phase = "aborted_censored"
    <2>1. TerminationStatus = "censored"
      BY <1>2 DEF TerminationStatus
    <2>2. TaskAggregate(TaskUsage) = Unavailable("censored")
      BY <2>1 DEF TaskAggregate
    <2>3. TaskRemaining(1) = Unavailable("censored")
      BY <2>1 DEF TaskRemaining
    <2> QED BY <2>2, <2>3
  <1>3. CASE phase = "finished"
    <2>1. AtItsEnd
      BY <1>1, <1>3 DEF AtItsEnd
    <2>2. TerminationStatus = "observed"
      BY <1>3 DEF TerminationStatus
    <2>3. TaskRemaining(1) = IF AllSettled THEN Observed(TotalOf(events))
                                           ELSE Unavailable("missing")
      BY <2>1, TaskIsLabelled
    <2>4. PICK u : u = TaskUsage
      OBVIOUS
    <2>5. CASE AllSettled
      <3>1. IsComplete(u) /\ ~TotalMismatch(u) /\ AccountedTotal(u) = TotalOf(events)
        BY <1>1, <2>1, <2>4, <2>5, SettledIsWhole DEF Says
      <3>2. TaskAggregate(u) = Observed(TotalOf(events))
        BY <2>2, <3>1 DEF TaskAggregate
      <3> QED BY <2>3, <2>4, <2>5, <3>2
    <2>6. CASE ~AllSettled
      <3>1. TaskRemaining(1) = Unavailable("missing") /\ ~IsObserved(TaskRemaining(1))
        BY <2>3, <2>6 DEF Unavailable, IsObserved
      <3>2. ASSUME source = "swebench" PROVE TaskAggregate(u) = Unavailable("missing")
        <4>1. ~IsWhole(events)
          BY <1>1, <2>1, <2>6, <3>2, SettledIsWhole
        <4>2. ~IsComplete(u)
          BY <1>1, <2>4, <3>2, <4>1 DEF Hides
        <4> QED BY <2>2, <4>2 DEF TaskAggregate
      <3> QED BY <2>4, <3>1, <3>2
    <2> QED BY <2>5, <2>6
  <1> QED BY <1>1, <1>2, <1>3

(* The aggregate label of an accepted log, whose usage the reader counted  *)
(* for itself (bagen_swebench.py, bagen_sokoban.py,                        *)
(* openhands_trajectory.py), is the label of the whole task that the call  *)
(* ledgers give (build_task_aggregate_label against                        *)
(* build_prediction_labels); for SWE-bench logs also when one of them is   *)
(* unavailable.                                                            *)
THEOREM AggregateAgreesWithLedger == Spec => []AggregateIsLedgerSum
  BY AggregateInvHolds, AggregateAgreesAtTheEnd, PTL
=============================================================================
