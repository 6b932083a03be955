----------------------------- MODULE SokobanLog -----------------------------
(***************************************************************************)
(* The reader of BAGEN dialogue files (collection/bagen_sokoban.py         *)
(* _normalize_rollout): one rollout, turn by turn.  A turn is a call, its  *)
(* interactions are the attempts of the call in order, its actions are     *)
(* tool events.  The rollout states its own aggregate usage, which must    *)
(* equal what the interactions add up to.                                  *)
(***************************************************************************)
EXTENDS CollectedLog

CONSTANTS
  MaxTurns,          (* bound: turns of the rollout         *)
  MaxInteractions,   (* bound: api_interactions of one turn *)
  MaxActions         (* bound: actions of one turn          *)

ASSUME SokobanAssumption ==
  /\ 1..MaxTurns \subseteq CallIds
  /\ 1..MaxInteractions \subseteq AttemptIds

VARIABLES
  turnCount,    (* the turns read so far                     *)
  summedInput,  (* summed_input: of interactions with usage  *)
  summedOutput  (* summed_output                             *)

sokobanVars == <<turnCount, summedInput, summedOutput>>

Interaction == [usage : Usages, success : BOOLEAN]

SokobanInit ==
  /\ turnCount = 0
  /\ summedInput = 0
  /\ summedOutput = 0

(* _usage_mapping: half a usage is none; a contradicting total raises. *)
MappedUsage(usage) ==
  IF IsComplete(usage)
  THEN [usage EXCEPT !.reported_total_tokens = AccountedTotal(usage)]
  ELSE NoUsage

Contradicted(interactions) ==
  \E i \in DOMAIN interactions : TotalMismatch(interactions[i].usage)

(* Only interactions with usage are added up. *)
Known(interactions, field) ==
  LET known == {i \in DOMAIN interactions : IsComplete(interactions[i].usage)}
  IN SumFunction([i \in known |-> interactions[i].usage[field]])

(* An attempt and its terminal for each interaction, in order.             *)
AttemptEvents(c, interactions) ==
  [ e \in 1..2 * Len(interactions) |->
      LET i == (e + 1) \div 2 IN
      IF e = 2 * i THEN TerminalEvent(c, i, interactions[i].success,
                                      MappedUsage(interactions[i].usage))
                   ELSE AttemptEvent(c, i) ]

ActionEvents(c, actions) ==
  [i \in 1..actions |-> ToolResultEvent(c, None, FALSE)]

(* A turn's own totals, where given, equal its known sums (a turn may omit *)
(* only totals of zero).                                                   *)
ReadTurn(interactions, actions) ==
  LET c == turnCount + 1 IN
  /\ reading = "reading"
  /\ c <= MaxTurns
  /\ ~Contradicted(interactions)
  /\ Emit(<< RequestEvent(c) >> \o AttemptEvents(c, interactions)
          \o ActionEvents(c, actions))
  /\ turnCount' = c
  /\ summedInput' = summedInput + Known(interactions, "input_tokens")
  /\ summedOutput' = summedOutput + Known(interactions, "output_tokens")
  /\ UNCHANGED <<reading, checked, trajectoryVars>>

(* _rollout_usage, and its comparison with the sums. *)
AggregateAgrees(usage) ==
  /\ IsComplete(usage)
  /\ ~TotalMismatch(usage)
  /\ usage.input_tokens = summedInput
  /\ usage.output_tokens = summedOutput

(* The rollout ends: every rollout that is read counts as finished. *)
FinishRollout(usage) ==
  /\ reading = "reading"
  /\ turnCount > 0
  /\ AggregateAgrees(usage)
  /\ Emit(<< EndEvent("task_finished", usage) >>)
  /\ reading' = "validating"
  /\ UNCHANGED <<checked, trajectoryVars, sokobanVars>>

RejectSokoban ==
  /\ reading = "reading"
  /\ RaiseSchemaError
  /\ turnCount' = 0
  /\ summedInput' = 0
  /\ summedOutput' = 0

(* What a rollout may state of itself, up to the largest sum the bounds    *)
(* allow.                                                                  *)
StatedUsages ==
  LET largest == Max({0} \cup {u.input_tokens : u \in {v \in Usages : IsComplete(v)}}
                         \cup {u.output_tokens : u \in {v \in Usages : IsComplete(v)}})
                 * MaxInteractions * MaxTurns
  IN { [ input_tokens |-> i, output_tokens |-> o, reported_total_tokens |-> i + o ]
       : i, o \in 0..largest }

SokobanStep ==
  \/ \E n \in 1..MaxInteractions, actions \in 0..MaxActions :
       \E interactions \in [1..n -> Interaction] : ReadTurn(interactions, actions)
  \/ \E usage \in StatedUsages : FinishRollout(usage)
  \/ RejectSokoban
=============================================================================
