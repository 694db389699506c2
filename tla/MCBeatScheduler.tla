-------------------------- MODULE MCBeatScheduler --------------------------
(* BeatScheduler for TLC: a periodic task of the settings that has a start *)
(* time, and a one-off task that has none.                                 *)
EXTENDS BeatScheduler, TLC

CONSTANTS b1, b2

Periodic == [once |-> FALSE, started |-> TRUE, configured |-> TRUE]
OneOff == [once |-> TRUE, started |-> FALSE, configured |-> FALSE]
TasksOfBothKinds == {Periodic, OneOff}
OnePeriodic == {Periodic}

Symmetry == Permutations(Beats)

=============================================================================
