---------------------- MODULE MCCheckpointCoordinator ----------------------
(* Small instances of CheckpointCoordinator.                               *)
EXTENDS CheckpointCoordinator, TLC

CONSTANTS s1, s2, c1, c2

\* Two independent branches: one source and one sink each.
TwoBranches == (s1 :> {c1}) @@ (s2 :> {c2})

\* One source whose stream goes to two sinks.
FanOut == (s1 :> {c1}) @@ (s2 :> {c1})

\* A single source and a single sink.
OneBranch == s1 :> {c1}
=============================================================================
