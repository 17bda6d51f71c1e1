--------------------------- MODULE ReasoningRuns ---------------------------
(***************************************************************************)
(* /deliberate and /fuse: server/deliberate-admission.ts and               *)
(* server/fusion-admission.ts (line for line the same admission, the       *)
(* phases differ), driving the orchestrators of packages/harness/src/      *)
(* reasoning over the ExecutionLedger.                                     *)
(*                                                                         *)
(* A command is admitted durably, then an asynchronous run makes provider  *)
(* calls stage by stage; every call is bracketed by a durable attempt.     *)
(* The calls, a user's stop, retries of the command and new commands       *)
(* interleave at every await.  A stretch of code without an await is a     *)
(* turn: only a crash can come between the transactions of a turn.         *)
(***************************************************************************)
EXTENDS ExecutionLedger

CONSTANTS
    Stages,        \* sequence of sets of phases; the phases of a stage run in parallel
    NextStages,    \* what may follow a stage (the budget may be exhausted)
    MaxFailures    \* bound: failing writes of the store

PhaseNames == UNION {Stages[i] : i \in DOMAIN Stages}
LastStage == Len(Stages) + 1

ASSUME StageAssumption ==
    /\ Stages \in Seq(SUBSET PhaseNames)
    /\ \A i \in DOMAIN Stages : NextStages[i] \subseteq (i + 1)..LastStage
    /\ AttemptIds = ExecutionIds \X PhaseNames
ASSUME ReasoningReasonAssumption ==
    /\ {"startup_failed", "failed", "completed", "stopped", "server_restart"}
           \subseteq ExecutionReasons
    /\ {"completed", "ambiguous"} \subseteq AttemptReasons
ASSUME FailuresAssumption == MaxFailures \in Nat

VARIABLES
    runs,        \* per session and generation, the run of this process, or NULL
    active,      \* per session, the token a stop would cancel, or NULL
    turn,        \* the synchronous stretch in progress, or NULL
    failures,    \* failed writes so far
    \* What happened in the world, for the properties.
    dispatched,  \* per session, message and phase, calls sent to a provider
    lost,        \* per session, generations with a call whose result nobody recorded
    confirmed,   \* per session, generations started with confirmAmbiguous
    told         \* per session and message, the outcomes callers were given

process == <<runs, active, turn, failures>>
world == <<dispatched, lost, confirmed, told>>
reasoningVars == <<vars, process, world>>

-----------------------------------------------------------------------------
(* Types.                                                                  *)

CallStates == {"todo", "inflight", "ok", "bad"}
Run == [clientMsgId : ClientMsgIds, token : Token, stage : 0..LastStage,
        call : [PhaseNames -> CallStates], aborted : BOOLEAN]
Turn == [kind : {"admit", "cancel"}, token : Token]
Statuses == {"running", "completed", "failed", "cancelled", "ambiguous"}
ASSUME AbsentAssumption == NULL \notin Run /\ NULL \notin Turn /\ NULL \notin Token

ReasoningTypeOK ==
    /\ runs \in [Sessions -> [1..MaxGeneration -> Run \cup {NULL}]]
    /\ active \in [Sessions -> Token \cup {NULL}]
    /\ turn \in Turn \cup {NULL}
    /\ failures \in 0..MaxFailures
    /\ dispatched \in [Sessions -> [ClientMsgIds \X PhaseNames -> Nat]]
    /\ lost \in [Sessions -> SUBSET (1..MaxGeneration)]
    /\ confirmed \in [Sessions -> SUBSET (1..MaxGeneration)]
    /\ told \in [Sessions -> [ClientMsgIds -> SUBSET Statuses]]

-----------------------------------------------------------------------------
(* Reads.                                                                  *)

RunOf(t) == runs[t.session][t.generation]

\* Fault: an attempt without a result does not make the run ambiguous.
OutcomeByReason(t) ==
    CASE TerminalReason(t) = NULL -> "running"
      [] TerminalReason(t) = "completed" -> "completed"
      [] TerminalReason(t) = "stopped" -> "cancelled"
      [] OTHER -> "failed"

\* outcome(store, token): what the durable record says of an execution.
Outcome(t) ==
    IF \E r \in AttemptsOf(t) : r.reason \in {"ambiguous", "server_restart"}
    THEN "ambiguous"
    ELSE CASE TerminalReason(t) = NULL -> "running"
           [] TerminalReason(t) = "completed" -> "completed"
           [] TerminalReason(t) = "stopped" -> "cancelled"
           [] TerminalReason(t) = "server_restart" /\ AttemptsOf(t) # {} -> "ambiguous"
           [] OTHER -> "failed"

\* The previous execution of the session may have performed provider work.
Uncertain(s) == session[s].generation > 0 /\ Outcome(TokenOf(s)) = "ambiguous"

Tell(s, m, status) == told' = [told EXCEPT ![s][m] = @ \cup {status}]

\* The calls of a run a provider is still working on.
InFlight(run) == {p \in PhaseNames : run.call[p] = "inflight"}

Serving == server = "up" /\ turn = NULL
SameProcess == UNCHANGED <<server, orphans, crashes>>

-----------------------------------------------------------------------------
(* Admission: startDeliberation, startFusion.                              *)

\* A new command after an uncertain one needs explicit confirmation.
MayStart(s, confirm) == Uncertain(s) => confirm

StartRun(s, m, f, confirm) ==
    /\ Serving
    /\ session[s].generation < MaxGeneration
    /\ MayStart(s, confirm)
    /\ BeginExecution(s, NULL, m, f)
    /\ turn' = [kind |-> "admit", token |-> TokenOf(s)']
    /\ confirmed' = IF confirm
                    THEN [confirmed EXCEPT ![s] = @ \cup {session'[s].generation}]
                    ELSE confirmed
    /\ runs' = [runs EXCEPT ![s][session'[s].generation] =
                   [clientMsgId |-> m, token |-> TokenOf(s)', stage |-> 0,
                    call |-> [p \in PhaseNames |-> "todo"], aborted |-> FALSE]]
    /\ UNCHANGED <<active, failures, dispatched, lost, told>>
    /\ SameProcess

\* onAdmitted returned: the run is registered and starts.
LaunchRun ==
    /\ turn # NULL
    /\ turn.kind = "admit"
    /\ turn' = NULL
    /\ active' = [active EXCEPT ![turn.token.session] = turn.token]
    /\ runs' = [runs EXCEPT ![turn.token.session][turn.token.generation].stage = 1]
    /\ UNCHANGED <<ledgerTables, failures, world>>
    /\ SameProcess

\* onAdmitted threw: nothing was dispatched, the execution ends at once.
AbandonAdmission ==
    /\ turn # NULL
    /\ turn.kind = "admit"
    /\ TransitionExecution(turn.token, "TERMINAL", "startup_failed")
    /\ turn' = NULL
    /\ runs' = [runs EXCEPT ![turn.token.session][turn.token.generation] = NULL]
    /\ UNCHANGED <<active, failures, world>>
    /\ SameProcess

\* An exact retry only inspects the durable record.
RetryRun(s, m, f) ==
    /\ Serving
    /\ \E r \in admissions[s] :
         /\ r.clientMsgId = m
         /\ r.fingerprint = f
         /\ Tell(s, m, Outcome(r.token))
    /\ UNCHANGED <<ledgerTables, process, dispatched, lost, confirmed>>
    /\ SameProcess

-----------------------------------------------------------------------------
(* Provider calls: the call wrapper both admissions give the orchestrator. *)

SetCall(run, p, state) ==
    runs' = [runs EXCEPT ![run.token.session][run.token.generation].call[p] = state]

\* The attempt is durable before the provider is called.
DispatchCall(run, p) ==
    /\ run.stage \in DOMAIN Stages
    /\ p \in Stages[run.stage]
    /\ run.call[p] = "todo"
    /\ ~run.aborted
    /\ BeginProviderAttempt(run.token, <<run.token.executionId, p>>,
                            Cardinality(Stages[run.stage]) > 1)
    /\ SetCall(run, p, "inflight")
    /\ dispatched' = [dispatched EXCEPT ![run.token.session][<<run.clientMsgId, p>>] = @ + 1]
    /\ UNCHANGED <<active, turn, failures, lost, confirmed, told>>

\* Refused before dispatch: the run was aborted or the provider route changed.
RefuseCall(run, p) ==
    /\ run.stage \in DOMAIN Stages
    /\ p \in Stages[run.stage]
    /\ run.call[p] = "todo"
    /\ SetCall(run, p, "bad")
    /\ UNCHANGED <<ledgerTables, active, turn, failures, world>>

\* The still running attempt of a call, if any: a stop may have ended it.
AttemptOfCall(run, p) ==
    {r \in RunningAttempts(run.token) : r.providerAttemptId = <<run.token.executionId, p>>}

\* A result counts only if the run was not stopped meanwhile.
Usable(run, answered) == answered /\ ~run.aborted

SettleCall(run, p, answered) ==
    LET reason == IF Usable(run, answered) THEN "completed" ELSE "ambiguous"
        s == run.token.session
    IN /\ run.call[p] = "inflight"
       /\ \/ \E row \in AttemptOfCall(run, p) :
               /\ TransitionProviderAttempt(run.token, row, reason)
               /\ SetCall(run, p, IF reason = "completed" THEN "ok" ELSE "bad")
          \/ /\ AttemptOfCall(run, p) = {}
             /\ SetCall(run, p, "bad")
             /\ UNCHANGED ledgerTables
       /\ lost' = IF answered THEN lost
                  ELSE [lost EXCEPT ![s] = @ \cup {run.token.generation}]
       /\ UNCHANGED <<active, turn, failures, dispatched, confirmed, told>>

\* The terminal write of the attempt fails: its receipt stays RUNNING.
SettleUnrecorded(run, p) ==
    /\ run.call[p] = "inflight"
    /\ failures < MaxFailures
    /\ failures' = failures + 1
    /\ SetCall(run, p, "bad")
    /\ lost' = [lost EXCEPT ![run.token.session] = @ \cup {run.token.generation}]
    /\ UNCHANGED <<ledgerTables, active, turn, dispatched, confirmed, told>>

-----------------------------------------------------------------------------
(* Progress of a run.                                                      *)

StageSettled(run) ==
    /\ run.stage \in DOMAIN Stages
    /\ \A p \in Stages[run.stage] : run.call[p] \in {"ok", "bad"}

\* Fault: a panel with one answer is good enough.
StageFailedWholly(run) == \A p \in Stages[run.stage] : run.call[p] = "bad"

StageFailed(run) == \E p \in Stages[run.stage] : run.call[p] = "bad"

\* Fault: the run counts on from the chosen stage.
AdvanceBeyond(run) ==
    /\ StageSettled(run)
    /\ ~StageFailed(run) /\ ~run.aborted
    /\ \E next \in NextStages[run.stage] :
          runs' = [runs EXCEPT ![run.token.session][run.token.generation].stage = next + 1]
    /\ UNCHANGED <<ledgerTables, active, turn, failures, world>>

AdvanceStage(run) ==
    /\ StageSettled(run)
    /\ ~StageFailed(run) /\ ~run.aborted
    /\ \E next \in NextStages[run.stage] :
          runs' = [runs EXCEPT ![run.token.session][run.token.generation].stage = next]
    /\ UNCHANGED <<ledgerTables, active, turn, failures, world>>

\* Fault: a finishing run removes whatever run is registered.
UnregisterAny(t) == active' = [active EXCEPT ![t.session] = NULL]

\* The finally block: only the run's own registration is removed.
Unregister(t) ==
    active' = IF active[t.session] = t THEN [active EXCEPT ![t.session] = NULL] ELSE active

EndRun(run, status) ==
    /\ runs' = [runs EXCEPT ![run.token.session][run.token.generation] = NULL]
    /\ Unregister(run.token)
    /\ Tell(run.token.session, run.clientMsgId, status)
    /\ UNCHANGED <<turn, dispatched, lost, confirmed>>

\* Fault: the outcome is written without the token-guarded transition.
CompleteUnguarded(run) ==
    /\ run.stage = LastStage
    /\ session' = [session EXCEPT ![run.token.session].phase = "TERMINAL",
                                  ![run.token.session].reason = "completed"]
    /\ Record(run.token.session, ExecutionEventOf(run.token, "TERMINAL", "completed"))
    /\ EndRun(run, "completed")
    /\ UNCHANGED <<admissions, attempts, replies, failures>>

CompleteRun(run) ==
    /\ run.stage = LastStage /\ ~run.aborted
    /\ TransitionExecution(run.token, "TERMINAL", "completed")
    /\ EndRun(run, "completed")
    /\ UNCHANGED failures

\* The catch block of a run nobody stopped: a call failed, or every call was
\* answered and the write of 'completed' (or the last event) threw, once.
FailRun(run) ==
    /\ ~run.aborted
    /\ \/ StageSettled(run) /\ StageFailed(run) /\ UNCHANGED failures
       \/ run.stage = LastStage /\ failures < MaxFailures /\ failures' = failures + 1
    /\ TransitionExecution(run.token, "TERMINAL",
           IF AttemptsOf(run.token) = {} THEN "startup_failed" ELSE "failed")
    /\ EndRun(run, Outcome(run.token)')

\* The catch block of a stopped run: the stop already wrote everything.
CancelledRunEnds(run) ==
    /\ run.aborted
    /\ run.stage = LastStage \/ StageSettled(run)
    /\ EndRun(run, "cancelled")
    /\ UNCHANGED <<ledgerTables, failures>>

\* The terminal write throws, because the store fails or because an attempt is
\* still RUNNING: the promise rejects and the receipt is left to recovery.
RunThrows(run) ==
    /\ run.stage = LastStage \/ (StageSettled(run) /\ StageFailed(run))
    /\ ~run.aborted
    /\ IF RunningAttempts(run.token) # {}
       THEN UNCHANGED failures
       ELSE failures < MaxFailures /\ failures' = failures + 1
    /\ runs' = [runs EXCEPT ![run.token.session][run.token.generation] = NULL]
    /\ Unregister(run.token)
    /\ UNCHANGED <<ledgerTables, turn, world>>

-----------------------------------------------------------------------------
(* Stop: cancelDeliberation, cancelFusion.                                 *)

\* The execution is STOPPING and the run's signal aborted ...
StopRun(s) ==
    /\ Serving
    /\ active[s] # NULL
    /\ LET t == active[s]
       IN /\ \/ TransitionExecution(t, "STOPPING", NULL)
             \/ /\ session[s].phase = "STOPPING"    \* an earlier stop threw
                /\ UNCHANGED ledgerTables
          /\ turn' = [kind |-> "cancel", token |-> t]
          /\ runs' = [runs EXCEPT ![s][t.generation].aborted = TRUE]
    /\ UNCHANGED <<active, failures, world>>
    /\ SameProcess

\* ... every call in flight becomes uncertain ...
StopAttempt ==
    /\ turn # NULL
    /\ turn.kind = "cancel"
    /\ \E row \in RunningAttempts(turn.token) :
          TransitionProviderAttempt(turn.token, row, "ambiguous")
    /\ lost' = [lost EXCEPT ![turn.token.session] = @ \cup {turn.token.generation}]
    /\ UNCHANGED <<process, dispatched, confirmed, told>>
    /\ SameProcess

\* ... and the execution ends as stopped.
StopEnds ==
    /\ turn # NULL
    /\ turn.kind = "cancel"
    /\ TransitionExecution(turn.token, "TERMINAL", "stopped")
    /\ active' = [active EXCEPT ![turn.token.session] = NULL]
    /\ turn' = NULL
    /\ UNCHANGED <<runs, failures, world>>
    /\ SameProcess

\* A write of a turn throws: an admission that was to be abandoned stays RUNNING
\* without a run, a stop is left half done and may be repeated.
TurnThrows ==
    /\ turn # NULL
    /\ failures < MaxFailures
    /\ failures' = failures + 1
    /\ turn' = NULL
    /\ runs' = IF turn.kind = "admit"
               THEN [runs EXCEPT ![turn.token.session][turn.token.generation] = NULL]
               ELSE runs
    /\ UNCHANGED <<ledgerTables, active, world>>
    /\ SameProcess

-----------------------------------------------------------------------------
(* Crash and recovery.                                                     *)

\* A crash forgets every run; the calls in flight are lost.
CrashRuns ==
    /\ Crash
    /\ lost' = [s \in Sessions |-> lost[s] \cup
                   {g \in 1..MaxGeneration : runs[s][g] # NULL /\ InFlight(runs[s][g]) # {}}]
    /\ runs' = [s \in Sessions |-> [g \in 1..MaxGeneration |-> NULL]]
    /\ active' = [s \in Sessions |-> NULL]
    /\ turn' = NULL
    /\ UNCHANGED <<failures, dispatched, confirmed, told>>

RecoverRuns == Recover /\ UNCHANGED <<process, world>>

-----------------------------------------------------------------------------
(* The specification.                                                      *)

ReasoningInit ==
    /\ Init
    /\ runs = [s \in Sessions |-> [g \in 1..MaxGeneration |-> NULL]]
    /\ active = [s \in Sessions |-> NULL]
    /\ turn = NULL
    /\ failures = 0
    /\ dispatched = [s \in Sessions |-> [c \in ClientMsgIds \X PhaseNames |-> 0]]
    /\ lost = [s \in Sessions |-> {}]
    /\ confirmed = [s \in Sessions |-> {}]
    /\ told = [s \in Sessions |-> [m \in ClientMsgIds |-> {}]]

\* One step of the run of a session's generation.
RunStep(s, g) ==
    /\ Serving
    /\ runs[s][g] # NULL
    /\ \E run \in {runs[s][g]} :
          \/ \E p \in PhaseNames :
               \/ DispatchCall(run, p) \/ RefuseCall(run, p)
               \/ \E answered \in BOOLEAN : SettleCall(run, p, answered)
               \/ SettleUnrecorded(run, p)
          \/ AdvanceStage(run) \/ CompleteRun(run) \/ FailRun(run)
          \/ CancelledRunEnds(run) \/ RunThrows(run)
    /\ SameProcess

TurnStep == LaunchRun \/ AbandonAdmission \/ StopAttempt \/ StopEnds \/ TurnThrows

Command(s) ==
    \E m \in ClientMsgIds, f \in Fingerprints :
        \/ \E confirm \in BOOLEAN : StartRun(s, m, f, confirm)
        \/ RetryRun(s, m, f)

ReasoningNext ==
    \/ \E s \in Sessions :
         Command(s) \/ StopRun(s) \/ \E g \in 1..MaxGeneration : RunStep(s, g)
    \/ TurnStep
    \/ CrashRuns
    \/ RecoverRuns

\* A turn runs to its end, recovery completes, and every run is resumed by the
\* event loop; providers are assumed to answer or fail in the end.
ReasoningSpec ==
    /\ ReasoningInit /\ [][ReasoningNext]_reasoningVars
    /\ WF_reasoningVars(TurnStep)
    /\ WF_reasoningVars(RecoverRuns)
    /\ \A s \in Sessions : \A g \in 1..MaxGeneration : WF_reasoningVars(RunStep(s, g))

-----------------------------------------------------------------------------
(* Properties.                                                             *)

\* "Exact retries only inspect the original receipt; they never restart
\* orchestration" (docs/design/deliberate-admission.md): whatever is retried,
\* stopped, crashed or recovered, one command sends each phase to a provider at
\* most once.
DispatchedAtMostOnce ==
    \A s \in Sessions : \A c \in ClientMsgIds \X PhaseNames : dispatched[s][c] <= 1

\* If a call of one execution was lost (in flight at a crash or a stop, failed,
\* or its result not recorded), the next execution of the session was started
\* with explicit confirmation.
UncertainWorkConfirmed ==
    \A s \in Sessions : \A g \in lost[s] :
        g < session[s].generation => g + 1 \in confirmed[s]

\* Callers never disagree about success: if one caller of a command was told it
\* completed, no other caller was told it failed, was cancelled or is uncertain,
\* and the durable record agrees for ever.
CompletionAgreed ==
    \A s \in Sessions : \A m \in ClientMsgIds :
        "completed" \in told[s][m] =>
            /\ told[s][m] \subseteq {"running", "completed"}
            /\ \E r \in admissions[s] : r.clientMsgId = m /\ Outcome(r.token) = "completed"

\* While no turn is in progress, a registered run is the live execution of its
\* session and still runs in this process, and a live execution whose run was not
\* abandoned by a throwing write is registered, so that a stop reaches it.
StopReachesLiveRun ==
    Serving =>
        \A s \in Sessions :
            /\ active[s] # NULL =>
                 IsCurrent(active[s]) /\ Live(s) /\ RunOf(active[s]) # NULL
            /\ (Live(s) /\ RunOf(TokenOf(s)) # NULL) => active[s] = TokenOf(s)

\* A stop fences its execution: from the first write of the stop on, no further
\* call of that execution is dispatched and it never completes.
StopFences ==
    [][\A s \in Sessions : \A t \in {TokenOf(s)} :
            (session[s].phase = "STOPPING" \/ TerminalReason(t) = "stopped") =>
               /\ \A id \in {r.providerAttemptId : r \in AttemptsOf(t)'} :
                     id \in {r.providerAttemptId : r \in AttemptsOf(t)}
               /\ TerminalReason(t)' # "completed"
               /\ Outcome(t)' # "completed"]_reasoningVars

\* Every execution ends, unless a write of the store failed: no interleaving of
\* calls, stop and crash leaves a command running for ever.
RunsSettle ==
    \A s \in Sessions : Live(s) ~> (~Live(s) \/ failures > 0)

=============================================================================
