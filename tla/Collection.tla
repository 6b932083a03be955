----------------------------- MODULE Collection -----------------------------
(***************************************************************************)
(* From a preserved log to stored events: a reader normalizes one log, the *)
(* validator accepts it or not (Reader.read), the accepted trajectory is   *)
(* written to a canonical file (write_canonical_jsonl) and that file is    *)
(* replayed into the event store, by several processes and next to a file  *)
(* that an earlier collection of the same log has written.  An OpenHands   *)
(* archive holds many logs: it is read up to the task that is followed.    *)
(***************************************************************************)
EXTENDS SwebenchLog, SokobanLog, OpenHandsLog, OpenHandsArchive, EventStore

CONSTANTS
  Sources,   (* the readers: among {"swebench", "sokoban", "openhands"} *)
  Written    (* the version that this collection writes                    *)

ASSUME CollectionAssumption ==
  /\ Sources \subseteq {"swebench", "sokoban", "openhands"}
  /\ Written \in Versions

VARIABLE source   (* whose log is read *)

readerVars == <<swebenchVars, sokobanVars, openHandsVars, archiveVars>>

vars == <<source, logVars, trajectoryVars, readerVars, storeVars>>

Init ==
  /\ source \in Sources
  /\ LogInit
  /\ SwebenchInit
  /\ SokobanInit
  /\ OpenHandsInit
  /\ ArchiveInit
  /\ source # "openhands" => limit = NoRun
  /\ StoreInit
  /\ \A v \in Versions : lengthOf[v] = CHOOSE n \in Lengths : TRUE

ReadSwebench ==
  /\ source = "swebench"
  /\ SwebenchStep
  /\ UNCHANGED <<source, sokobanVars, openHandsVars, archiveVars, storeVars>>

ReadSokoban ==
  /\ source = "sokoban"
  /\ SokobanStep
  /\ UNCHANGED <<source, swebenchVars, openHandsVars, archiveVars, storeVars>>

ReadArchive ==
  /\ source = "openhands"
  /\ task = NoTask
  /\ reading = "reading"
  /\ ArchiveNext
  /\ UNCHANGED <<source, logVars, trajectoryVars, swebenchVars, sokobanVars,
                 openHandsVars, storeVars>>

(* The trajectory the archive yields next is followed, and the rest of the *)
(* archive is dropped.                                                     *)
FollowTask(t) ==
  /\ source = "openhands"
  /\ task = NoTask
  /\ reading = "reading"
  /\ YieldsNext(t)
  /\ LET calls == Cardinality(evidence.prepared[t]) IN
       /\ 1..calls \subseteq CallIds
       /\ task' = [calls |-> calls, logged |-> evidence.logs[t] # 0]
  /\ limit' = NoRun
  /\ members' = << >>
  /\ at' = "limited"
  /\ evidence' = Nothing(NoRun)
  /\ todo' = {}
  /\ yielded' = << >>
  /\ UNCHANGED <<source, logVars, trajectoryVars, swebenchVars, sokobanVars,
                 responses, storeVars>>

ReadOpenHands ==
  /\ source = "openhands"
  /\ task # NoTask
  /\ OpenHandsStep
  /\ UNCHANGED <<source, swebenchVars, sokobanVars, archiveVars, storeVars>>

ValidateEvent ==
  /\ Validate
  /\ UNCHANGED <<source, readerVars, storeVars>>

(* The file is complete before a replay can read it; only its length and   *)
(* its version matter from here on, so the reader's tables are dropped.    *)
WriteFile ==
  /\ reading = "accepted"
  /\ Len(events) \in Lengths
  /\ lengthOf' \in [Versions -> Lengths]
  /\ lengthOf'[Written] = Len(events)
  /\ reading' = "dropped"
  /\ events' = << >>
  /\ checked' = 0
  /\ pending' = << >> /\ seenTools' = {} /\ usages' = << >> /\ callCount' = 0
  /\ turnCount' = 0 /\ summedInput' = 0 /\ summedOutput' = 0
  /\ task' = NoTask /\ responses' = << >>
  /\ phase' = "new" /\ requests' = << >> /\ active' = None
  /\ starts' = [c \in CallIds |-> {}]
  /\ terminals' = [c \in CallIds |-> << >>]
  /\ UNCHANGED <<source, checkpoints, archiveVars, rows, replay>>

Replay ==
  /\ reading = "dropped"
  /\ StoreNext
  /\ UNCHANGED <<source, logVars, trajectoryVars, readerVars>>

Next ==
  \/ ReadSwebench \/ ReadSokoban \/ ReadArchive \/ ReadOpenHands
  \/ \E t \in Tasks : FollowTask(t)
  \/ ValidateEvent \/ WriteFile \/ Replay

Spec == Init /\ [][Next]_vars

-----------------------------------------------------------------------------
Accepted == reading = "accepted"

(* The aggregate label of a task, which is read from its final event, is   *)
(* the sum of the call ledgers that the labels at its first request are    *)
(* made from: the reader's own bookkeeping of usage and the ledger's are   *)
(* two computations over the same log.  (A SWE-bench log also hides one    *)
(* when it hides the other; a rollout states its aggregate itself.)        *)
AggregateIsLedgerSum ==
  Accepted /\ requests # << >> =>
    /\ IsObserved(TaskRemaining(1)) => TaskAggregate(TaskUsage) = TaskRemaining(1)
    /\ source = "swebench" => TaskAggregate(TaskUsage) = TaskRemaining(1)

(* The validator refuses what a reader produced only when a tool result    *)
(* comes after a later call's request (docs/data-contract.md: an older     *)
(* call cannot emit a late tool event); in every other respect the reader  *)
(* that accepts a log writes events in an order the grammar allows.        *)
OnlyLateToolsAreRefused ==
  phase = "refused" =>
    LET e == events[checked + 1]
    IN IsToolResult(e) /\ Requested(e.call) /\ e.call # active

(* In a SWE-bench trajectory that is accepted every tool call a reply      *)
(* announced ends exactly once, also when it is the exit message that      *)
(* answers it.  An archive may lack results (requests that repeat or reset *)
(* the messages, a history that stops short), but no response's tool call  *)
(* ends twice or under another call.                                       *)
EveryToolEndsOnce ==
  /\ Accepted /\ source = "swebench" =>
       \A tool \in seenTools : Cardinality(ToolResults(tool)) = 1
  /\ Accepted /\ source = "openhands" =>
       \A tool \in ToolIds, c \in CallIds :
         LET ended == {i \in ToolResults(tool) : events[i].call = c}
         IN Cardinality(ended) <= IF c \in DOMAIN responses /\ tool \in responses[c].tools
                                  THEN 1 ELSE 0

(* docs/data-contract.md, Token ledger: missing usage is unknown, never    *)
(* zero.  If a call's ledger is unknown, the task's total is.              *)
MissingIsNeverZero ==
  Accepted /\ requests # << >> /\ IsObserved(TaskAggregate(TaskUsage)) =>
    IsObserved(TaskRemaining(1))
=============================================================================
