------------------------- MODULE ExecutionLifecycle -------------------------
(***************************************************************************)
(* What the execution ledger promises a reader of a session, without       *)
(* tokens, tables, logs, crashes or recovery: a session is a sequence of   *)
(* runs, at most the last one is live, a finished run keeps its outcome    *)
(* for ever, and a run finishes only when none of its provider calls is    *)
(* open.  Each call id is used once in the life of a session.              *)
(***************************************************************************)
EXTENDS Integers, Sequences

CONSTANTS Sessions, Calls, Outcomes, NULL

VARIABLES
    runs,  \* per session, the outcome of each of its runs, NULL while live
    open,  \* per session, the provider calls in progress
    used   \* per session, every provider call ever started

lifecycle == <<runs, open, used>>

LiveRun(s) == Len(runs[s]) > 0 /\ runs[s][Len(runs[s])] = NULL

Init ==
    /\ runs = [s \in Sessions |-> <<>>]
    /\ open = [s \in Sessions |-> {}]
    /\ used = [s \in Sessions |-> {}]

Start(s) ==
    /\ ~LiveRun(s)
    /\ runs' = [runs EXCEPT ![s] = Append(@, NULL)]
    /\ UNCHANGED <<open, used>>

Open(s, c) ==
    /\ LiveRun(s)
    /\ c \notin used[s]
    /\ open' = [open EXCEPT ![s] = @ \cup {c}]
    /\ used' = [used EXCEPT ![s] = @ \cup {c}]
    /\ UNCHANGED runs

Close(s, c) ==
    /\ c \in open[s]
    /\ open' = [open EXCEPT ![s] = @ \ {c}]
    /\ UNCHANGED <<runs, used>>

Finish(s, outcome) ==
    /\ LiveRun(s)
    /\ open[s] = {}
    /\ runs' = [runs EXCEPT ![s][Len(runs[s])] = outcome]
    /\ UNCHANGED <<open, used>>

Next ==
    \E s \in Sessions :
        \/ Start(s)
        \/ \E c \in Calls : Open(s, c) \/ Close(s, c)
        \/ \E outcome \in Outcomes : Finish(s, outcome)

Spec == Init /\ [][Next]_lifecycle
=============================================================================
