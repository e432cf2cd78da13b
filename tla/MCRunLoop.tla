----------------------------- MODULE MCRunLoop -----------------------------
(* A small instance of RunLoop: a plugin sink and an engine sink, in a job   *)
(* that was told to exit fast, a pipeline with a plugin source, whose plugin *)
(* sink is partitioned, and a plain one.                                     *)
EXTENDS RunLoop

CONSTANTS p1, p2, b1

OnePlugin == <<p1>>
TwoPlugins == <<p1, p2>>

Config(job, policy, opaque, awaits) ==
    [budget |-> 3, job |-> job, policy |-> policy, opaque |-> opaque, awaits |-> awaits]
ThreeConfigs == {Config(TRUE, "fast", FALSE, FALSE), Config(FALSE, "auto", TRUE, TRUE),
                 Config(FALSE, "auto", FALSE, FALSE)}

=============================================================================
