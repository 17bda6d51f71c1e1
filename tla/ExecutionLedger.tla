-------------------------- MODULE ExecutionLedger --------------------------
(***************************************************************************)
(* The durable execution ledger of packages/protocol/src/                  *)
(* execution-ledger.ts: one row per session with its current execution,    *)
(* the admissions that bind a client message to an execution, the provider *)
(* attempts of every execution, and the session's part of the append-only  *)
(* event log.                                                              *)
(*                                                                         *)
(* Each operation is one immediate SQLite transaction, so it is one action *)
(* here.  Callers are not restricted: any token the ledger ever issued may *)
(* be presented at any time, in any order, by any number of holders, also  *)
(* after a newer execution replaced it.  Refused calls change nothing and  *)
(* are not actions.                                                        *)
(*                                                                         *)
(* The process may crash between two transactions.  A restarted process    *)
(* runs recoverOrphanedExecutions, itself a loop of transactions, before   *)
(* it serves any caller.                                                   *)
(***************************************************************************)
EXTENDS Integers, Sequences, FiniteSets

CONSTANTS
    Sessions,          \* registered conversations
    Excluded,          \* Symposium sessions skipped by recovery (excludeSymposium)
    ExecutionIds,      \* caller-chosen ids and the values of randomUUID()
    ClientMsgIds,      \* identities of client commands
    Fingerprints,      \* request fingerprints
    AttemptIds,        \* provider attempt ids
    ExecutionReasons,  \* terminal reasons of executions
    AttemptReasons,    \* terminal reasons of provider attempts
    NULL,              \* an absent value (SQL NULL, an omitted argument)
    MaxGeneration,     \* bound: executions per session
    MaxEvents,         \* bound: events of a session after which callers stop
    MaxCrashes         \* bound: crashes of the process

ASSUME ExcludedAssumption == Excluded \subseteq Sessions
ASSUME ReasonAssumption ==
    /\ "server_restart" \in ExecutionReasons
    /\ "ambiguous" \in AttemptReasons
ASSUME NullAssumption ==
    NULL \notin ExecutionIds \cup ClientMsgIds \cup ExecutionReasons \cup AttemptReasons
ASSUME BoundAssumption ==
    MaxGeneration \in Nat /\ MaxEvents \in Nat /\ MaxCrashes \in Nat

VARIABLES
    session,     \* session row: its current execution
    admissions,  \* per session, rows of execution_admissions
    attempts,    \* per session, rows of provider_attempts
    events,      \* per session, its execution and attempt events in seq order
    replies,     \* per session, what beginExecution answered for a client message
    server,      \* "up", "starting" or "recovering"
    orphans,     \* tokens the running recovery still has to terminalize
    crashes      \* crashes so far

ledgerTables == <<session, admissions, attempts, events, replies>>
vars == <<session, admissions, attempts, events, replies, server, orphans, crashes>>

-----------------------------------------------------------------------------
(* Types.                                                                  *)

ActivePhases == {"RUNNING", "REQUIRES_ACTION", "STOPPING"}
Phases == ActivePhases \cup {"TERMINAL"}

\* "NONE" is the SQL NULL of a session that never ran anything.
SessionRow == [executionId : ExecutionIds \cup {NULL}, generation : Nat,
               phase : Phases \cup {"NONE"}, reason : ExecutionReasons \cup {NULL}]
Token == [session : Sessions, executionId : ExecutionIds, generation : Nat]
AdmissionRow == [clientMsgId : ClientMsgIds, fingerprint : Fingerprints, token : Token]
AttemptRow == [executionId : ExecutionIds, generation : Nat, attempt : Nat,
               providerAttemptId : AttemptIds, phase : {"RUNNING", "TERMINAL"},
               reason : AttemptReasons \cup {NULL}]
ExecutionEvent == [type : {"execution_state_changed"}, executionId : ExecutionIds,
                   generation : Nat, phase : Phases, reason : ExecutionReasons \cup {NULL}]
AttemptEvent == [type : {"provider_attempt_state_changed"}, row : AttemptRow]
Event == ExecutionEvent \cup AttemptEvent

TypeOK ==
    /\ session \in [Sessions -> SessionRow]
    /\ admissions \in [Sessions -> SUBSET AdmissionRow]
    /\ attempts \in [Sessions -> SUBSET AttemptRow]
    /\ events \in [Sessions -> Seq(Event)]
    /\ replies \in [Sessions -> SUBSET AdmissionRow]
    /\ server \in {"up", "starting", "recovering"}
    /\ orphans \in SUBSET Token
    /\ crashes \in Nat

-----------------------------------------------------------------------------
(* Reads.                                                                  *)

TokenOf(s) == [session |-> s, executionId |-> session[s].executionId,
               generation |-> session[s].generation]

\* Fault: the generation is not compared.
IsCurrentById(t) == session[t.session].executionId = t.executionId

\* The execution a token names is the session's current one.
IsCurrent(t) ==
    /\ session[t.session].executionId = t.executionId
    /\ session[t.session].generation = t.generation

Live(s) == session[s].phase \in ActivePhases

AttemptsOf(t) ==
    {r \in attempts[t.session] :
        r.executionId = t.executionId /\ r.generation = t.generation}

RunningAttempts(t) == {r \in AttemptsOf(t) : r.phase = "RUNNING"}

Admitted(s, m) == \E r \in admissions[s] : r.clientMsgId = m

\* Every token the ledger ever handed out for session s.
Issued(s) ==
    {[session |-> s, executionId |-> events[s][i].executionId,
      generation |-> events[s][i].generation] :
        i \in {j \in DOMAIN events[s] : events[s][j].type = "execution_state_changed"}}

\* Positions of the events that end the execution of token t.
TerminalEvents(t) ==
    {i \in DOMAIN events[t.session] :
        /\ events[t.session][i].type = "execution_state_changed"
        /\ events[t.session][i].executionId = t.executionId
        /\ events[t.session][i].generation = t.generation
        /\ events[t.session][i].phase = "TERMINAL"}

\* getExecutionTerminalReason: the last such event, also of superseded executions.
TerminalReason(t) ==
    IF TerminalEvents(t) = {} THEN NULL
    ELSE LET last == CHOOSE i \in TerminalEvents(t) : \A j \in TerminalEvents(t) : j <= i
         IN events[t.session][last].reason

\* Where the next provider attempt of t is numbered.
NextAttempt(t) ==
    IF AttemptsOf(t) = {} THEN 1
    ELSE 1 + (CHOOSE n \in {r.attempt : r \in AttemptsOf(t)} :
                  \A r \in AttemptsOf(t) : r.attempt <= n)

-----------------------------------------------------------------------------
(* Writes shared by the operations.                                        *)

Record(s, event) == events' = [events EXCEPT ![s] = Append(@, event)]

\* Fault: the event loses the terminal reason.
ExecutionEventWithoutReason(t, phase, reason) ==
    [type |-> "execution_state_changed", executionId |-> t.executionId,
     generation |-> t.generation, phase |-> phase, reason |-> NULL]

ExecutionEventOf(t, phase, reason) ==
    [type |-> "execution_state_changed", executionId |-> t.executionId,
     generation |-> t.generation, phase |-> phase, reason |-> reason]

AttemptEventOf(row) == [type |-> "provider_attempt_state_changed", row |-> row]

Reply(s, m, f, t) ==
    replies' = [replies EXCEPT ![s] =
                   @ \cup {[clientMsgId |-> m, fingerprint |-> f, token |-> t]}]

-----------------------------------------------------------------------------
(* beginExecution.                                                         *)

\* Fault: a stopping execution counts as finished.
MayBeginWhileStopping(s) == session[s].phase \in {"NONE", "STOPPING", "TERMINAL"}

\* A new execution replaces nothing that is still live.
MayBegin(s) == session[s].phase \in {"NONE", "TERMINAL"}

\* Fault: an omitted id is stored as it is.
RequestedIds(requested) == {requested}

\* The accepted id: the caller's, or a UUID nobody used.
AcceptedIds(requested) ==
    IF requested # NULL THEN {requested}
    ELSE {e \in ExecutionIds :
             \A s \in Sessions : \A t \in Issued(s) : t.executionId # e}

\* Fault: the answer is given but no admission row is written.
AdmitWithoutRow(s, m, f, t) ==
    /\ UNCHANGED admissions
    /\ IF m = NULL THEN UNCHANGED replies ELSE Reply(s, m, f, t)

\* m = NULL is a call without a client message: it leaves no admission.
Admit(s, m, f, t) ==
    IF m = NULL THEN UNCHANGED <<admissions, replies>>
    ELSE /\ admissions' = [admissions EXCEPT ![s] =
                @ \cup {[clientMsgId |-> m, fingerprint |-> f, token |-> t]}]
         /\ Reply(s, m, f, t)

BeginExecution(s, requested, m, f) ==
    /\ m # NULL => ~Admitted(s, m)
    /\ MayBegin(s)
    /\ \E e \in AcceptedIds(requested) :
         LET t == [session |-> s, executionId |-> e,
                   generation |-> session[s].generation + 1]
         IN /\ session' = [session EXCEPT ![s] =
                   [executionId |-> e, generation |-> t.generation,
                    phase |-> "RUNNING", reason |-> NULL]]
            /\ Record(s, ExecutionEventOf(t, "RUNNING", NULL))
            /\ Admit(s, m, f, t)
    /\ UNCHANGED attempts

\* An exact retry is answered from the admission; a different fingerprint or
\* execution id is refused.
RetryExecution(s, requested, m, f) ==
    /\ \E r \in admissions[s] :
         /\ r.clientMsgId = m
         /\ r.fingerprint = f
         /\ requested \in {NULL, r.token.executionId}
         /\ Reply(s, m, f, r.token)
    /\ UNCHANGED <<session, admissions, attempts, events>>

-----------------------------------------------------------------------------
(* Provider attempts.                                                      *)

\* An attempt id that is already known is answered (or refused) without a change.
BeginProviderAttempt(t, id, allowParallel) ==
    /\ \A r \in attempts[t.session] : r.providerAttemptId # id
    /\ IsCurrent(t)
    /\ session[t.session].phase = "RUNNING"
    /\ RunningAttempts(t) = {} \/ allowParallel
    /\ LET row == [executionId |-> t.executionId, generation |-> t.generation,
                   attempt |-> NextAttempt(t), providerAttemptId |-> id,
                   phase |-> "RUNNING", reason |-> NULL]
       IN /\ attempts' = [attempts EXCEPT ![t.session] = @ \cup {row}]
          /\ Record(t.session, AttemptEventOf(row))
    /\ UNCHANGED <<session, admissions, replies>>

\* A call that ends an attempt needs the attempt's execution to be current and
\* not TERMINAL.
MayEndAttempt(t) == IsCurrent(t) /\ session[t.session].phase # "TERMINAL"

TransitionProviderAttempt(t, row, reason) ==
    /\ row \in AttemptsOf(t)
    /\ row.phase = "RUNNING"
    /\ MayEndAttempt(t)
    /\ LET ended == [row EXCEPT !.phase = "TERMINAL", !.reason = reason]
       IN /\ attempts' = [attempts EXCEPT ![t.session] = (@ \ {row}) \cup {ended}]
          /\ Record(t.session, AttemptEventOf(ended))
    /\ UNCHANGED <<session, admissions, replies>>

-----------------------------------------------------------------------------
(* Execution transitions.                                                  *)

Transitions ==
    [phase \in Phases \cup {"NONE"} |->
        CASE phase = "RUNNING" -> {"REQUIRES_ACTION", "STOPPING", "TERMINAL"}
          [] phase = "REQUIRES_ACTION" -> {"RUNNING", "STOPPING", "TERMINAL"}
          [] phase = "STOPPING" -> {"TERMINAL"}
          [] OTHER -> {}]

\* Fault: an execution may end over a running attempt.
MayTransitionOverAttempts(t, phase) ==
    /\ IsCurrent(t)
    /\ phase \in Transitions[session[t.session].phase]

\* Terminating throws while an attempt of the execution is still running.
MayTransition(t, phase) ==
    /\ IsCurrent(t)
    /\ phase \in Transitions[session[t.session].phase]
    /\ phase = "TERMINAL" => RunningAttempts(t) = {}

TransitionExecution(t, phase, reason) ==
    /\ MayTransition(t, phase)
    /\ session' = [session EXCEPT ![t.session].phase = phase,
                                  ![t.session].reason = reason]
    /\ Record(t.session, ExecutionEventOf(t, phase, reason))
    /\ UNCHANGED <<admissions, attempts, replies>>

-----------------------------------------------------------------------------
(* Crash and recovery.                                                     *)

Crash ==
    /\ crashes < MaxCrashes
    /\ crashes' = crashes + 1
    /\ server' = "starting"
    /\ orphans' = {}
    /\ UNCHANGED ledgerTables

\* Fault: recovery overlooks an execution that was being stopped.
OrphanedUnlessStopping(s) ==
    s \notin Excluded /\ session[s].phase \in {"RUNNING", "REQUIRES_ACTION"}

Orphaned(s) == s \notin Excluded /\ session[s].phase \in ActivePhases

\* recoverOrphanedExecutions reads the live executions once ...
ScanOrphans ==
    /\ server = "starting"
    /\ server' = "recovering"
    /\ orphans' = {TokenOf(s) : s \in {x \in Sessions : Orphaned(x)}}
    /\ UNCHANGED <<ledgerTables, crashes>>

\* ... and, row by row, first ends every running attempt as ambiguous ...
RecoverAttempt(t, row) ==
    /\ t \in orphans
    /\ TransitionProviderAttempt(t, row, "ambiguous")
    /\ UNCHANGED <<server, orphans, crashes>>

\* ... then the execution itself.
RecoverExecution(t) ==
    /\ t \in orphans
    /\ TransitionExecution(t, "TERMINAL", "server_restart")
    /\ orphans' = orphans \ {t}
    /\ UNCHANGED <<server, crashes>>

FinishRecovery ==
    /\ server = "recovering"
    /\ orphans = {}
    /\ server' = "up"
    /\ UNCHANGED <<ledgerTables, orphans, crashes>>

Recover ==
    \/ ScanOrphans
    \/ \E t \in orphans :
         RecoverExecution(t) \/ \E row \in RunningAttempts(t) : RecoverAttempt(t, row)
    \/ FinishRecovery

-----------------------------------------------------------------------------
(* The specification: callers of a process that is up, crashes, recovery.  *)

Init ==
    /\ session = [s \in Sessions |-> [executionId |-> NULL, generation |-> 0,
                                      phase |-> "NONE", reason |-> NULL]]
    /\ admissions = [s \in Sessions |-> {}]
    /\ attempts = [s \in Sessions |-> {}]
    /\ events = [s \in Sessions |-> <<>>]
    /\ replies = [s \in Sessions |-> {}]
    /\ server = "up"
    /\ orphans = {}
    /\ crashes = 0

Up == server = "up" /\ UNCHANGED <<server, orphans, crashes>>

CallBegin(s) ==
    /\ Up
    /\ \E requested \in ExecutionIds \cup {NULL}, f \in Fingerprints,
          m \in ClientMsgIds \cup {NULL} :
          \/ /\ session[s].generation < MaxGeneration
             /\ BeginExecution(s, requested, m, f)
          \/ RetryExecution(s, requested, m, f)

CallAttempt(t) ==
    /\ Up
    /\ Len(events[t.session]) < MaxEvents
    /\ \/ \E id \in AttemptIds, allowParallel \in BOOLEAN :
             BeginProviderAttempt(t, id, allowParallel)
       \/ \E row \in AttemptsOf(t), reason \in AttemptReasons :
             TransitionProviderAttempt(t, row, reason)

CallTransition(t) ==
    /\ Up
    /\ Len(events[t.session]) < MaxEvents
    /\ \/ \E reason \in ExecutionReasons : TransitionExecution(t, "TERMINAL", reason)
       \/ \E phase \in ActivePhases : TransitionExecution(t, phase, NULL)

Next ==
    \/ \E s \in Sessions :
         \/ CallBegin(s)
         \/ \E t \in Issued(s) : CallAttempt(t) \/ CallTransition(t)
    \/ Crash
    \/ Recover

\* Recovery is a synchronous loop at the start of the process: once started it
\* runs on unless the process crashes again.  Callers owe nothing.
Spec == Init /\ [][Next]_vars /\ WF_vars(Recover)

-----------------------------------------------------------------------------
(* Properties.                                                             *)

\* A running provider attempt always belongs to the session's current, live
\* execution: no order of late callers, replacements, crashes and recoveries
\* leaves work running under a finished or superseded execution.
NoOrphanedAttempt ==
    \A s \in Sessions : \A r \in attempts[s] :
        r.phase = "RUNNING" =>
            /\ session[s].executionId = r.executionId
            /\ session[s].generation = r.generation
            /\ Live(s)

\* All the answers ever given for one client message name one token and one
\* fingerprint: a retry, also after a restart and after later executions,
\* never starts or adopts a second execution.
OneExecutionPerMessage ==
    \A s \in Sessions : \A r1, r2 \in replies[s] :
        r1.clientMsgId = r2.clientMsgId => r1 = r2

\* The event log alone rebuilds the tables: the last execution event of a
\* session is its row, and the last event of each attempt is its row.
LastExecutionEvent(s) ==
    LET I == {i \in DOMAIN events[s] : events[s][i].type = "execution_state_changed"}
    IN IF I = {} THEN NULL ELSE events[s][CHOOSE i \in I : \A j \in I : j <= i]

LastAttemptEvents(s) ==
    LET I == {i \in DOMAIN events[s] : events[s][i].type = "provider_attempt_state_changed"}
    IN {events[s][i].row : i \in {k \in I : \A j \in I :
            events[s][j].row.providerAttemptId = events[s][k].row.providerAttemptId => j <= k}}

LogRebuildsTables ==
    \A s \in Sessions :
        /\ attempts[s] = LastAttemptEvents(s)
        /\ session[s].phase # "NONE" =>
             LET last == LastExecutionEvent(s)
             IN session[s] = [executionId |-> last.executionId, generation |-> last.generation,
                              phase |-> last.phase, reason |-> last.reason]

\* The outcome read back for an execution (getExecutionTerminalReason), current
\* or superseded, never changes once it is set: "later generations cannot turn
\* an old failure into apparent success" (docs/design/deliberate-admission.md).
OutcomeIsFinal ==
    [][\A s \in Sessions : \A t \in Issued(s) :
           TerminalReason(t) # NULL => TerminalReason(t)' = TerminalReason(t)]_vars

\* After a crash the process eventually serves callers again, and then no
\* execution a dead process left behind is still live.
RecoveryCompletes ==
    server = "starting" ~> (server = "up" /\ \A s \in Sessions \ Excluded : ~Live(s))

\* The ledger implements the lifecycle a reader relies on.  The outcome of a
\* run is read from the log, by generation.
RunsOf(s) ==
    [g \in 1..session[s].generation |->
        LET t == CHOOSE t \in Issued(s) : t.generation = g IN TerminalReason(t)]

Lifecycle == INSTANCE ExecutionLifecycle WITH
    Calls <- AttemptIds,
    Outcomes <- ExecutionReasons,
    runs <- [s \in Sessions |-> RunsOf(s)],
    open <- [s \in Sessions |->
                {r.providerAttemptId : r \in {x \in attempts[s] : x.phase = "RUNNING"}}],
    used <- [s \in Sessions |-> {r.providerAttemptId : r \in attempts[s]}]

ImplementsLifecycle == Lifecycle!Spec

=============================================================================
