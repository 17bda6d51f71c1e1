--------------------------- MODULE MCSendDelivery --------------------------
(***************************************************************************)
(* Two messages composed in one draft.                                     *)
(***************************************************************************)
EXTENDS SendDelivery

TwoMsgs == {1, 2}
None == {}
First == {1}
Second == {2}
OneDraft == [m \in TwoMsgs |-> 1]
=============================================================================
