--------------------------- MODULE OpenHandsArchive ---------------------------
(***************************************************************************)
(* The reader of OpenHands archives (collection/openhands_trajectory.py    *)
(* OpenHandsArchiveReader.iter_archive, _finalize_run): one forward pass   *)
(* over the members of a tar file that holds the files of several runs.    *)
(* The evidence of one run is collected until a member of another run      *)
(* comes; then the run's task trajectories are yielded, its evidence is    *)
(* dropped and the new run begins.                                         *)
(*                                                                         *)
(* A member is its run, its kind and the tasks it speaks of; it is known   *)
(* by its position among the relevant members.  What a member says of a    *)
(* task is OpenHandsLog's; here a member is as it should be or is rejected *)
(* (RaiseArchiveError), and so is a run id that two directories claim.     *)
(***************************************************************************)
EXTENDS Integers, Sequences

CONSTANTS
  Runs,        (* run ids                                           *)
  Tasks,       (* task ids, in their sorted order                   *)
  NoRun,       (* no run, no task, no limit                          *)
  Limits,      (* values of max_trajectories, NoRun for none         *)
  MaxMembers   (* bound: relevant members in the archive            *)

ASSUME ArchiveAssumption ==
  /\ Tasks \subseteq Nat
  /\ NoRun \notin Runs \cup Tasks
  /\ \A n \in Limits : n = NoRun \/ n \in Nat \ {0}

VARIABLES
  limit,      (* max_trajectories                                     *)
  members,    (* the relevant members read so far                     *)
  at,         (* what the generator does next                         *)
  evidence,   (* of the active run                                    *)
  todo,       (* the tasks of the active run still to be yielded      *)
  yielded     (* the trajectories, each with the members it rests on  *)

archiveVars == <<limit, members, at, evidence, todo, yielded>>

(* _relevant_member_kind: a completion and an evaluator report are of one  *)
(* task, the task log has a line for each of its tasks, the aggregate      *)
(* report names the tasks that were submitted.                             *)
Members ==
  [ run : Runs, kind : {"completion", "report"}, tasks : {{t} : t \in Tasks} ]
  \cup [ run : Runs, kind : {"task_log"}, tasks : SUBSET Tasks \ {{}} ]
  \cup [ run : Runs, kind : {"aggregate_report"}, tasks : SUBSET Tasks ]

(* The member in hand is the last one read. *)
Position == Len(members)
Member == members[Position]

(* By task, the positions of its completions, its report and its log line  *)
(* (0 for none); and the task set of the aggregate report, if there is one.*)
Nothing(r) ==
  [ run       |-> r,
    prepared  |-> [t \in Tasks |-> {}],
    reports   |-> [t \in Tasks |-> 0],
    logs      |-> [t \in Tasks |-> 0],
    aggregate |-> {},
    current   |-> NoRun,
    snapshots |-> {} ]

Prepared(e) == {t \in Tasks : e.prepared[t] # {}}
Reported(e) == {t \in Tasks : e.reports[t] # 0}
Logged(e)   == {t \in Tasks : e.logs[t] # 0}

ArchiveInit ==
  /\ limit \in Limits
  /\ members = << >>
  /\ at = "reading"
  /\ evidence = Nothing(NoRun)
  /\ todo = {}
  /\ yielded = << >>

-----------------------------------------------------------------------------
(* close_completion_group: the completions of a task come together. *)
Closable(e) == e.current # NoRun => e.prepared[e.current] = {}

Closed(e) ==
  IF e.current = NoRun THEN e
  ELSE [e EXCEPT !.prepared[e.current] = e.snapshots,
                 !.current = NoRun, !.snapshots = {}]

(* _finalize_run: the task ids, and what the rest must agree with. *)
TaskIds(e) == IF Logged(e) # {} THEN Logged(e) ELSE Prepared(e)

Consistent(e) ==
  /\ Prepared(e) \cup Reported(e) \subseteq TaskIds(e)
  /\ \A submitted \in e.aggregate : submitted = TaskIds(e)
  /\ Prepared(e) # {}

ReadMember(m) ==
  /\ at = "reading"
  /\ Position < MaxMembers
  /\ members' = Append(members, m)
  /\ at' = "handling"
  /\ UNCHANGED <<limit, evidence, todo, yielded>>

(* reset_run_state, before the first run and between two. *)
EnterRun ==
  /\ at = "handling"
  /\ evidence.run = NoRun
  /\ evidence' = Nothing(Member.run)
  /\ UNCHANGED <<limit, members, at, todo, yielded>>

Finalize(next) ==
  /\ Closable(evidence)
  /\ Consistent(Closed(evidence))
  /\ evidence' = Closed(evidence)
  /\ todo' = TaskIds(Closed(evidence))
  /\ at' = next
  /\ UNCHANGED <<limit, members, yielded>>

(* Mutant: the aggregate report is taken for the last member of its run. *)
LeaveRunAtAggregate ==
  /\ at = "handling"
  /\ evidence.run # NoRun
  /\ Member.run # evidence.run \/ evidence.aggregate # {}
  /\ Finalize("yielding")

LeaveRun ==
  /\ at = "handling"
  /\ evidence.run \notin {NoRun, Member.run}
  /\ Finalize("yielding")

LeaveLastRun ==
  /\ at = "reading"
  /\ evidence.run # NoRun
  /\ Finalize("yielding_last")

(* Tasks in sorted order; the reader may be asked for no more than limit.  *)
YieldsNext(t) ==
  /\ at \in {"yielding", "yielding_last"}
  /\ t \in todo
  /\ \A u \in todo : t <= u

YieldTask(t) ==
  /\ YieldsNext(t)
  /\ yielded' = Append(yielded,
       [ run |-> evidence.run, task |-> t, calls |-> evidence.prepared[t],
         report |-> evidence.reports[t], log |-> evidence.logs[t] ])
  /\ todo' = todo \ {t}
  /\ at' = IF Len(yielded') = limit THEN "limited" ELSE at
  /\ UNCHANGED <<limit, members, evidence>>

(* Mutant: only the completions are dropped between two runs. *)
SwitchRunKeepingReports ==
  /\ at = "yielding"
  /\ todo = {}
  /\ evidence' = [Nothing(Member.run) EXCEPT !.reports = evidence.reports]
  /\ at' = "handling"
  /\ UNCHANGED <<limit, members, todo, yielded>>

SwitchRun ==
  /\ at = "yielding"
  /\ todo = {}
  /\ evidence' = Nothing(Member.run)
  /\ at' = "handling"
  /\ UNCHANGED <<limit, members, todo, yielded>>

(* Something was yielded, so there was evidence. *)
EndArchive ==
  /\ at = "yielding_last"
  /\ todo = {}
  /\ at' = "ended"
  /\ UNCHANGED <<limit, members, evidence, todo, yielded>>

-----------------------------------------------------------------------------
(* The member in hand is of the active run. *)
Takes(kind) ==
  /\ at = "handling"
  /\ Member.run = evidence.run
  /\ Member.kind = kind
  /\ at' = "reading"
  /\ UNCHANGED <<limit, members, todo, yielded>>

(* A report does not end a group of completions. *)
TakeReport(t) ==
  /\ Takes("report")
  /\ Member.tasks = {t}
  /\ evidence.reports[t] = 0
  /\ evidence' = [evidence EXCEPT !.reports[t] = Position]

TakeAggregateReport ==
  /\ Takes("aggregate_report")
  /\ Closable(evidence)
  /\ evidence.aggregate = {}
  /\ evidence' = [Closed(evidence) EXCEPT !.aggregate = {Member.tasks}]

TakeTaskLog ==
  /\ Takes("task_log")
  /\ Closable(evidence)
  /\ Logged(evidence) = {}
  /\ evidence' = [Closed(evidence) EXCEPT
       !.logs = [t \in Tasks |-> IF t \in Member.tasks THEN Position ELSE 0]]

TakeCompletion(t) ==
  LET e == IF evidence.current \in {NoRun, t} THEN evidence ELSE Closed(evidence)
  IN /\ Takes("completion")
     /\ Member.tasks = {t}
     /\ evidence.current \notin {NoRun, t} => Closable(evidence)
     /\ e.prepared[t] = {}
     /\ evidence' = [e EXCEPT !.current = t, !.snapshots = @ \cup {Position}]

(* OpenHandsArchiveError: a check above fails, a member or a task is not   *)
(* as it should be, or the archive ends without evidence.  What was        *)
(* yielded before stays with the caller.                                   *)
RaiseArchiveError ==
  /\ at \in {"reading", "handling", "yielding", "yielding_last"}
  /\ at' = "raised"
  /\ UNCHANGED <<limit, members, evidence, todo, yielded>>

ArchiveNext ==
  \/ \E m \in Members : ReadMember(m)
  \/ EnterRun \/ LeaveRun \/ LeaveLastRun \/ SwitchRun \/ EndArchive
  \/ \E t \in Tasks : YieldTask(t) \/ TakeReport(t) \/ TakeCompletion(t)
  \/ TakeAggregateReport \/ TakeTaskLog
  \/ RaiseArchiveError

ArchiveSpec == ArchiveInit /\ [][ArchiveNext]_archiveVars

-----------------------------------------------------------------------------
Evidence ==
  [ run : Runs \cup {NoRun}, prepared : [Tasks -> SUBSET Nat],
    reports : [Tasks -> Nat], logs : [Tasks -> Nat],
    aggregate : SUBSET SUBSET Tasks,
    current : Tasks \cup {NoRun}, snapshots : SUBSET Nat ]

ArchiveTypeOK ==
  /\ limit \in Limits
  /\ members \in Seq(Members)
  /\ at \in {"reading", "handling", "yielding", "yielding_last", "ended", "limited",
             "raised"}
  /\ evidence \in Evidence
  /\ todo \subseteq Tasks
  /\ yielded \in Seq([ run : Runs, task : Tasks, calls : SUBSET Nat,
                       report : Nat, log : Nat ])

RestsOn(y) == y.calls \cup ({y.report, y.log} \ {0})

(* Member n, as far as it speaks of task t, went into trajectory i. *)
WentInto(n, t, i) ==
  /\ yielded[i].run = members[n].run
  /\ yielded[i].task = t
  /\ n \in RestsOn(yielded[i])

(* Completions, reports and log lines stay with their run and task however *)
(* the members of an archive are ordered: a trajectory rests on members of *)
(* its own run that speak of its task, no two trajectories rest on the     *)
(* same line, and when an archive was read to its end every completion,    *)
(* report and log line is in a trajectory.                                 *)
EvidenceStaysWithItsTask ==
  /\ \A i \in DOMAIN yielded : \A n \in RestsOn(yielded[i]) :
       /\ n \in DOMAIN members
       /\ members[n].run = yielded[i].run
       /\ yielded[i].task \in members[n].tasks
  /\ \A i, j \in DOMAIN yielded :
       i # j /\ yielded[i].task = yielded[j].task =>
         RestsOn(yielded[i]) \cap RestsOn(yielded[j]) = {}
  /\ at = "ended" =>
       \A n \in DOMAIN members : members[n].kind # "aggregate_report" =>
         \A t \in members[n].tasks : \E i \in DOMAIN yielded : WentInto(n, t, i)

(* The members of run r do not come in one piece. *)
Split(r) ==
  \E i, j, k \in DOMAIN members :
    i < j /\ j < k /\ members[i].run = r /\ members[j].run # r /\ members[k].run = r

(* "completion members for one run/task are not contiguous" is an error    *)
(* (iter_archive, close_completion_group): a run's task is one trajectory  *)
(* of the archive.                                                         *)
TasksAreYieldedOnce ==
  \A i, j \in DOMAIN yielded :
    i # j => <<yielded[i].run, yielded[i].task>> # <<yielded[j].run, yielded[j].task>>

(* A task of a run is yielded twice only if members of another run lie     *)
(* between the run's own: "completion members for one run/task are not     *)
(* contiguous" (iter_archive) is checked within a stretch of the archive,  *)
(* because the tables are dropped at its end.                              *)
OnlySplitRunsRepeat ==
  \A i, j \in DOMAIN yielded :
    i # j /\ yielded[i].run = yielded[j].run /\ yielded[i].task = yielded[j].task =>
      Split(yielded[i].run)
=============================================================================
