------------------------- MODULE MCExecutionLedger -------------------------
(* A small instance of ExecutionLedger for TLC.                            *)
EXTENDS ExecutionLedger, TLC

CONSTANTS s1, e1, e2, m1, f1, f2, a1, a2

MCSessions == {s1}
MCExcluded == {}
MCExecutionIds == {e1, e2}
MCClientMsgIds == {m1}
MCFingerprints == {f1, f2}
MCAttemptIds == {a1, a2}
MCExecutionReasons == {"failed", "server_restart"}
MCSymmetry == Permutations(MCExecutionIds) \cup Permutations(MCFingerprints)
                  \cup Permutations(MCAttemptIds)
MCAttemptReasons == {"completed", "ambiguous"}
=============================================================================
