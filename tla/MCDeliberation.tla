--------------------------- MODULE MCDeliberation ---------------------------
(* Successive /deliberate commands of one session, each a proposal and, if *)
(* the budget allows, a challenge (which exhausts it) and a conclusion.    *)
EXTENDS ReasoningRuns, TLC

CONSTANTS s1, e1, e2, m1, m2, f1

MCSessions == {s1}
MCExcluded == {}
MCExecutionIds == {e1, e2}
MCClientMsgIds == {m1, m2}
MCFingerprints == {f1}
MCStages == <<{"propose"}, {"challenge"}, {"converge"}>>
MCNextStages == <<{2, 4}, {3}, {4}>>
MCAttemptIds == MCExecutionIds \X {"propose", "challenge", "converge"}
MCExecutionReasons == {"completed", "failed", "stopped", "startup_failed", "server_restart"}
MCAttemptReasons == {"completed", "ambiguous"}
MCSymmetry == Permutations(MCExecutionIds) \cup Permutations(MCClientMsgIds)
=============================================================================
