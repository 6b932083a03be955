----------------------------- MODULE EventStore -----------------------------
(***************************************************************************)
(* The append-only event store and the replays that fill it                *)
(* (recording/store.py SQLiteEventStore, collection/replay.py              *)
(* ReplayTrajectorySource.collect), for the rows of one trajectory id.     *)
(*                                                                         *)
(* A replay appends the events of one canonical file in order, from the    *)
(* first, and stops at the first error.  append reads the highest          *)
(* event_seq and inserts in two statements; the read opens no transaction, *)
(* so other replays' rows may be committed in between.  The insert is      *)
(* refused when a row has that sequence number already (primary key; the   *)
(* event_id, which the readers derive from it, is unique as well).         *)
(*                                                                         *)
(* Two replays may hold different files of the trajectory: its id is made  *)
(* from where the log lies and not from what it says, so a log that was    *)
(* collected again under the same name gives another version of it.        *)
(***************************************************************************)
EXTENDS Integers, FiniteSets

CONSTANTS
  Replays,     (* processes that replay a file of the trajectory      *)
  Versions,    (* the files of the trajectory that were written       *)
  Lengths,     (* bound: the numbers of events a file may have        *)
  MaxReplays,  (* bound: replays started by one process               *)
  NoFile       (* the version of a process that replays nothing       *)

ASSUME StoreAssumption ==
  /\ Lengths \subseteq Nat \ {0}
  /\ Versions # {}
  /\ NoFile \notin Versions

VARIABLES
  lengthOf,  (* version -> number of events in its file               *)
  rows,      (* the committed rows: [seq, version]                    *)
  replay     (* process -> where its replay stands                    *)

storeVars == <<lengthOf, rows, replay>>

Row == [seq : Nat, version : Versions]

Places == {"idle", "select", "insert", "done", "raised"}

Standing == [ at : Places, version : Versions \cup {NoFile}, next : Nat,
              started : Nat ]

StoreTypeOK ==
  /\ lengthOf \in [Versions -> Lengths]
  /\ rows \in SUBSET Row
  /\ replay \in [Replays -> Standing]

StoreInit ==
  /\ lengthOf \in [Versions -> Lengths]
  /\ rows = {}
  /\ replay = [p \in Replays |->
                 [at |-> "idle", version |-> NoFile, next |-> 0, started |-> 0]]

Present(seq) == \E r \in rows : r.seq = seq

GoOn(p, at) == replay' = [replay EXCEPT ![p].at = at]

-----------------------------------------------------------------------------
(* collect: the events in order, starting with the first. *)
StartReplay(p, v) ==
  /\ replay[p].at \in {"idle", "done", "raised"}
  /\ replay[p].started < MaxReplays
  /\ replay' = [replay EXCEPT ![p] =
                  [at |-> "select", version |-> v, next |-> 0,
                   started |-> @.started + 1]]
  /\ UNCHANGED <<lengthOf, rows>>

(* Mutant: an event that is refused is skipped and the replay goes on. *)
RefusedButGoesOn(p) ==
  /\ IF replay[p].next + 1 < lengthOf[replay[p].version]
     THEN replay' = [replay EXCEPT ![p].next = @ + 1, ![p].at = "select"]
     ELSE GoOn(p, "done")
  /\ UNCHANGED rows

(* EventStoreError: collect stops and the caller sees the exception. *)
Refused(p) ==
  /\ GoOn(p, "raised")
  /\ UNCHANGED rows

(* SELECT MAX(event_seq): the new event must come after every row. *)
SelectMax(p) ==
  /\ replay[p].at = "select"
  /\ IF \E r \in rows : replay[p].next <= r.seq
     THEN Refused(p)
     ELSE GoOn(p, "insert") /\ UNCHANGED rows
  /\ UNCHANGED lengthOf

(* Mutant: INSERT OR REPLACE. *)
InsertOrReplaceRow(p) ==
  /\ replay[p].at = "insert"
  /\ rows' = {r \in rows : r.seq # replay[p].next}
               \cup {[seq |-> replay[p].next, version |-> replay[p].version]}
  /\ IF replay[p].next + 1 < lengthOf[replay[p].version]
     THEN replay' = [replay EXCEPT ![p].next = @ + 1, ![p].at = "select"]
     ELSE GoOn(p, "done")
  /\ UNCHANGED lengthOf

(* INSERT and COMMIT, which the database makes one step for the others. *)
InsertRow(p) ==
  /\ replay[p].at = "insert"
  /\ IF Present(replay[p].next)
     THEN Refused(p)
     ELSE /\ rows' = rows \cup {[seq |-> replay[p].next, version |-> replay[p].version]}
          /\ IF replay[p].next + 1 < lengthOf[replay[p].version]
             THEN replay' = [replay EXCEPT ![p].next = @ + 1, ![p].at = "select"]
             ELSE GoOn(p, "done")
  /\ UNCHANGED lengthOf

(* The process dies, or its statement waits too long for the write lock    *)
(* ("database is locked" is not caught): the open transaction is rolled    *)
(* back, the rows of the earlier events stay.                              *)
StopReplay(p) ==
  /\ replay[p].at \in {"select", "insert"}
  /\ GoOn(p, "idle")
  /\ UNCHANGED <<lengthOf, rows>>

StoreStep(p) ==
  \/ \E v \in Versions : StartReplay(p, v)
  \/ SelectMax(p)
  \/ InsertRow(p)
  \/ StopReplay(p)

StoreNext == \E p \in Replays : StoreStep(p)

StoreSpec == StoreInit /\ [][StoreNext]_storeVars

-----------------------------------------------------------------------------
FirstRows(v, n) == {[seq |-> i, version |-> v] : i \in 0..(n - 1)}

(* The rows are always the first events of a single version: replays of    *)
(* different versions, or of one version by several processes, never mix   *)
(* in the store, although each append checks only sequence numbers and     *)
(* other rows may be committed between its check and its insert.           *)
StoreHoldsOneFile ==
  \E v \in Versions : \E n \in 0..lengthOf[v] : rows = FirstRows(v, n)

(* A replay is refused at its first event or not at all: whoever stored    *)
(* the first event can be stopped only from outside, so an error in the    *)
(* middle of a replay never leaves the store with a part of a trajectory.  *)
RefusedAtFirstEvent ==
  \A p \in Replays : replay[p].at = "raised" => replay[p].next = 0
=============================================================================
