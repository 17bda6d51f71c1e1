------------------------------ MODULE MCFusion ------------------------------
(* One /fuse command: a panel of two in parallel, a judge, a synthesizer.  *)
EXTENDS ReasoningRuns

CONSTANTS s1, e1, m1, f1, f2

MCSessions == {s1}
MCExcluded == {}
MCExecutionIds == {e1}
MCClientMsgIds == {m1}
MCFingerprints == {f1, f2}
MCStages == <<{"panel-1", "panel-2"}, {"judge"}, {"synthesize"}>>
MCNextStages == <<{2, 4}, {3, 4}, {4}>>
MCAttemptIds == MCExecutionIds \X {"panel-1", "panel-2", "judge", "synthesize"}
MCExecutionReasons == {"completed", "failed", "stopped", "startup_failed", "server_restart"}
MCAttemptReasons == {"completed", "ambiguous"}
=============================================================================
