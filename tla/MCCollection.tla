---------------------------- MODULE MCCollection ----------------------------
EXTENDS Collection, TLC

Usage(input, output, reported) ==
  [ input_tokens |-> input, output_tokens |-> output,
    reported_total_tokens |-> reported ]

(* Complete without a total, with one that contradicts it, half missing. *)
MCUsages == { Usage(1, 2, None), Usage(2, 0, 5), Usage(None, 1, None) }

MCSources == {"swebench", "sokoban", "openhands"}

MCSokoban == {"sokoban"}

MCOpenHands == {"openhands"}

MCNoCounts == {None}

MCLengths == 2..6

MCLimits == {NoRun, 2}

Symmetry == Permutations(ToolIds) \cup Permutations(Replays) \cup Permutations(Runs)
=============================================================================
