------------------------- MODULE MCLifecycleSession -------------------------
EXTENDS LifecycleSession

Round(missing, spent, offset) == [missing |-> missing, spent |-> spent, offset |-> offset]

MCTaskPre == [missing |-> 0, input |-> 0, output |-> 0, offset |-> 1]

(* Progress, progress hidden by a missing report, an unknown offset, a     *)
(* step that brings the forecast below zero, and no change at all.         *)
MCRounds == { Round(0, 1, 1), Round(1, 1, 0), Round(0, 1, None), Round(0, 4, 0),
              Round(0, 0, 1) }

MCResiduals == {-3, 0, 2}
=============================================================================
