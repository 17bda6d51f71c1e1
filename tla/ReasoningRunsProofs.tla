------------------------ MODULE ReasoningRunsProofs ------------------------
(***************************************************************************)
(* Proofs about ReasoningRuns, for all values of its constants: types,     *)
(* calls dispatched at most once, uncertain work confirmed, a stop that    *)
(* reaches the live run and fences it, agreement on completion.            *)
(*                                                                         *)
(* The ledger's own invariant (Tables) is kept by whoever calls its        *)
(* operations; what is added relates the runs of this process, and what    *)
(* the world has seen of them, to the rows of the ledger.                  *)
(***************************************************************************)
EXTENDS ReasoningRuns, ExecutionLedgerProofs

-----------------------------------------------------------------------------
(* The inductive invariant.                                                *)

Base == Tables /\ ProcessTyped /\ ReasoningTypeOK

IsRun(s, g) == runs[s][g] # NULL

\* Executions are numbered from 1 up to the bound.
ExecutionsNumbered ==
    \A s \in Sessions :
        /\ session[s].generation \in 0 .. MaxGeneration
        /\ session[s].phase # "NONE" => session[s].generation > 0

\* An attempt belongs to an execution of its session and carries its id.
AttemptsNamed ==
    \A s \in Sessions : \A r \in attempts[s] :
        /\ r.generation > 0
        /\ r.generation <= session[s].generation
        /\ r.generation = session[s].generation => r.executionId = session[s].executionId
        /\ \E p \in PhaseNames : r.providerAttemptId = <<r.executionId, p>>
        /\ r.phase = "RUNNING" => r.reason = NULL
        /\ r.reason \in {NULL, "completed", "ambiguous"}

\* A run is filed under its token, which its command was admitted with.
RunsNamed ==
    \A s \in Sessions, g \in 1 .. MaxGeneration : IsRun(s, g) =>
        LET run == runs[s][g]
        IN /\ run.token.session = s /\ run.token.generation = g
           /\ g <= session[s].generation
           /\ g = session[s].generation => run.token.executionId = session[s].executionId
           /\ \E r \in admissions[s] : r.clientMsgId = run.clientMsgId /\ r.token = run.token

\* Whatever was dispatched for a command is an attempt of the execution it was
\* admitted with.
DispatchesRecorded ==
    \A s \in Sessions, m \in ClientMsgIds, p \in PhaseNames :
        \/ dispatched[s][<<m, p>>] = 0
        \/ /\ dispatched[s][<<m, p>>] = 1
           /\ \E r \in admissions[s] :
                 /\ r.clientMsgId = m
                 /\ \E a \in attempts[s] : a.providerAttemptId = <<r.token.executionId, p>>

\* A process that is not up, or still recovers, runs nothing.
IdleWhenDown ==
    /\ server # "recovering" => orphans = {}
    /\ server # "up" =>
          /\ turn = NULL
          /\ \A s \in Sessions : active[s] = NULL /\ \A g \in 1 .. MaxGeneration : ~IsRun(s, g)

\* What is registered is the live execution, and a live execution with a run is
\* registered or about to be.
Registered ==
    \A s \in Sessions :
        /\ active[s] # NULL => /\ active[s] = TokenOf(s) /\ Live(s)
                               /\ session[s].generation \in 1 .. MaxGeneration
                               /\ IsRun(s, session[s].generation)
        /\ (/\ Live(s) /\ session[s].generation \in 1 .. MaxGeneration
            /\ IsRun(s, session[s].generation))
              => \/ active[s] = TokenOf(s)
                 \/ turn # NULL /\ turn = [kind |-> "admit", token |-> TokenOf(s)]

\* A turn is about the current execution.
TurnCurrent ==
    turn # NULL =>
        LET s == turn.token.session
            g == turn.token.generation
        IN /\ turn.token = TokenOf(s)
           /\ g \in 1 .. MaxGeneration /\ IsRun(s, g)
           /\ turn.kind = "admit" =>
                 /\ active[s] = NULL /\ session[s].phase = "RUNNING"
                 /\ runs[s][g].stage = 0 /\ ~runs[s][g].aborted
           /\ turn.kind = "cancel" =>
                 /\ active[s] = turn.token /\ session[s].phase = "STOPPING"
                 /\ runs[s][g].aborted

\* A run that nobody stopped is the current, running execution; a stopped one is
\* being stopped or has an outcome that is not completion.
StopMarked ==
    \A s \in Sessions, g \in 1 .. MaxGeneration : IsRun(s, g) =>
        IF runs[s][g].aborted
        THEN \/ g = session[s].generation /\ session[s].phase = "STOPPING"
             \/ TerminalReason(runs[s][g].token) \notin {NULL, "completed"}
        ELSE g = session[s].generation /\ session[s].phase = "RUNNING"

\* A call in flight has its attempt, which only a stop may have ended.
InFlightKept ==
    \A s \in Sessions, g \in 1 .. MaxGeneration, p \in PhaseNames :
        (IsRun(s, g) /\ runs[s][g].call[p] = "inflight") =>
            \E r \in attempts[s] :
                /\ r.generation = g
                /\ r.providerAttemptId = <<runs[s][g].token.executionId, p>>
                /\ r.phase = "RUNNING" \/ r.reason = "ambiguous"

\* An uncertain attempt of a run nobody stopped is a failed call, and a call that
\* failed or is in flight is of the run's present stage.
FailuresSeen ==
    \A s \in Sessions, g \in 1 .. MaxGeneration : IsRun(s, g) =>
        LET run == runs[s][g]
        IN /\ ~run.aborted => \A r \in attempts[s] :
                 (r.generation = g /\ r.reason = "ambiguous") =>
                     \E p \in PhaseNames : /\ r.providerAttemptId = <<r.executionId, p>>
                                           /\ run.call[p] = "bad"
           /\ \A p \in PhaseNames : run.call[p] \in {"inflight", "bad"} =>
                 run.stage \in DOMAIN Stages /\ p \in Stages[run.stage]

\* A lost call has left an uncertain attempt, or a running one that no call in
\* flight will end.
LostMarked ==
    \A s \in Sessions : \A g \in lost[s] : \E r \in attempts[s] :
        /\ r.generation = g
        /\ \/ r.reason = "ambiguous"
           \/ /\ r.phase = "RUNNING"
              /\ (g \in 1 .. MaxGeneration /\ IsRun(s, g)) => \A p \in PhaseNames :
                    r.providerAttemptId = <<r.executionId, p>> =>
                        runs[s][g].call[p] \in {"ok", "bad"}

\* Uncertain work was followed by a confirmation.
AmbiguityConfirmed ==
    \A s \in Sessions : \A r \in attempts[s] :
        (r.reason = "ambiguous" /\ r.generation < session[s].generation) =>
            r.generation + 1 \in confirmed[s]

\* What callers were told of a command is what its execution came to, or
\* excludes that it completes.
Doomed(t) ==
    \/ TerminalReason(t) \notin {NULL, "completed"}
    \/ \E r \in AttemptsOf(t) : r.reason = "ambiguous"
    \/ IsCurrent(t) /\ session[t.session].phase = "STOPPING"

TellingsHold ==
    \A s \in Sessions, m \in ClientMsgIds :
        /\ "completed" \in told[s][m] =>
              \E r \in admissions[s] : r.clientMsgId = m /\ Outcome(r.token) = "completed"
        /\ ~(told[s][m] \subseteq {"running", "completed"}) =>
              \E r \in admissions[s] : r.clientMsgId = m /\ Doomed(r.token)

RInv ==
    /\ Base
    /\ ExecutionsNumbered
    /\ AttemptsNamed
    /\ RunsNamed
    /\ DispatchesRecorded
    /\ IdleWhenDown
    /\ Registered
    /\ TurnCurrent
    /\ StopMarked
    /\ InFlightKept
    /\ FailuresSeen
    /\ LostMarked
    /\ AmbiguityConfirmed
    /\ TellingsHold
-----------------------------------------------------------------------------
(* What the ledger's operations do to what the runs rely on.               *)

\* The executions, the admissions and the ids of the attempts stay, and an
\* attempt that is running or uncertain stays so, or becomes uncertain.
ExecutionsKept ==
    \A s \in Sessions : /\ session'[s].generation = session[s].generation
                        /\ session'[s].executionId = session[s].executionId
AdmissionsGrow == \A s \in Sessions : admissions[s] \subseteq admissions'[s]
IdsKept == \A s \in Sessions : \A r \in attempts[s] :
    \E q \in attempts'[s] : q.providerAttemptId = r.providerAttemptId
OpenKept == \A s \in Sessions : \A r \in attempts[s] :
    (r.phase = "RUNNING" \/ r.reason = "ambiguous") => \E q \in attempts'[s] :
          /\ q.generation = r.generation /\ q.executionId = r.executionId
          /\ q.providerAttemptId = r.providerAttemptId
          /\ q.reason = "ambiguous" \/ (r.phase = "RUNNING" /\ q.phase = "RUNNING")

\* No attempt becomes uncertain.
NoNewDoubt == \A s \in Sessions : \A q \in attempts'[s] : q.reason = "ambiguous" => q \in attempts[s]

\* No outcome is written; whatever is completed or cannot complete stays so.
NoOutcome == \A t \in Token : TerminalReason(t)' = TerminalReason(t)
VerdictsKept ==
    \A t \in Token : /\ Outcome(t) = "completed" => Outcome(t)' = "completed"
                     /\ Doomed(t) => Doomed(t)'

\* A stopped execution, and one being stopped, gets no attempts and never completes.
Fenced(t) ==
    \/ TerminalReason(t) = "stopped"
    \/ IsCurrent(t) /\ session[t.session].phase = "STOPPING"
FencesKept ==
    \A t \in Token : Fenced(t) =>
        /\ TerminalReason(t)' # "completed"
        /\ \A r \in AttemptsOf(t)' : \E q \in AttemptsOf(t) :
               q.providerAttemptId = r.providerAttemptId

\* A live execution has no outcome.
LEMMA LiveWithoutOutcome ==
    ASSUME Base, NEW t \in Token, IsCurrent(t), session[t.session].phase # "TERMINAL"
    PROVE  TerminalReason(t) = NULL
<1>1. TerminalEvents(t) = {}
  BY DEF TerminalEvents, Base, Tables, LogNotAhead, IsExecutionEvent, IsCurrent, Token
<1> QED BY <1>1 DEF TerminalReason

\* A fenced execution did not complete, and is not running.
LEMMA FencedStopped ==
    ASSUME Base, NEW t \in Token, Fenced(t)
    PROVE  /\ TerminalReason(t) # "completed"
           /\ IsCurrent(t) => session[t.session].phase \in {"STOPPING", "TERMINAL"}
<1>1. NULL # "completed" /\ NULL # "stopped"
  BY NullAssumption, ReasoningReasonAssumption
<1> QED BY <1>1, LiveWithoutOutcome DEF Fenced

\* A step that ends no execution and gives no execution an attempt keeps the fences.
LEMMA FencesStay ==
    ASSUME Base, NoOutcome,
           \A t \in Token : Fenced(t) => \A r \in AttemptsOf(t)' : \E q \in AttemptsOf(t) :
               q.providerAttemptId = r.providerAttemptId
    PROVE  FencesKept
BY FencedStopped DEF FencesKept, NoOutcome

\* Every outcome is one that callers know.
LEMMA OutcomeRead ==
    ASSUME NEW t
    PROVE  /\ Outcome(t) \in Statuses /\ Outcome(t)' \in Statuses
           /\ Outcome(t) = "completed" <=>
                 /\ TerminalReason(t) = "completed"
                 /\ \A r \in AttemptsOf(t) : r.reason \notin {"ambiguous", "server_restart"}
           /\ Outcome(t)' = "completed" <=>
                 /\ TerminalReason(t)' = "completed"
                 /\ \A r \in AttemptsOf(t)' : r.reason \notin {"ambiguous", "server_restart"}
<1>1. Outcome(t) \in Statuses
  BY DEF Outcome, Statuses
<1>2. Outcome(t)' \in Statuses
  BY DEF Outcome, Statuses
<1>3. Outcome(t) = "completed" <=>
         /\ TerminalReason(t) = "completed"
         /\ \A r \in AttemptsOf(t) : r.reason \notin {"ambiguous", "server_restart"}
  BY NullAssumption, ReasoningReasonAssumption DEF Outcome
<1>4. Outcome(t)' = "completed" <=>
         /\ TerminalReason(t)' = "completed"
         /\ \A r \in AttemptsOf(t)' : r.reason \notin {"ambiguous", "server_restart"}
  BY NullAssumption, ReasoningReasonAssumption DEF Outcome
<1> QED BY <1>1, <1>2, <1>3, <1>4

LEMMA QuietEffects ==
    ASSUME Base, AttemptsNamed, UNCHANGED ledgerTables
    PROVE  /\ ExecutionsKept /\ AdmissionsGrow /\ IdsKept /\ OpenKept /\ NoNewDoubt
           /\ NoOutcome /\ VerdictsKept /\ FencesKept
           /\ Tables' /\ AttemptsNamed' /\ UNCHANGED <<session, admissions, attempts>>
<1>1. ExecutionsKept /\ AdmissionsGrow /\ IdsKept /\ OpenKept /\ NoNewDoubt
  BY DEF ledgerTables, ExecutionsKept, AdmissionsGrow, IdsKept, OpenKept, NoNewDoubt
<1>2. NoOutcome
  BY SameLogSameOutcome DEF ledgerTables, NoOutcome
<1>3. ASSUME NEW t \in Token
      PROVE  /\ Outcome(t) = "completed" => Outcome(t)' = "completed"
             /\ Doomed(t) => Doomed(t)'
  <2>1. TerminalReason(t)' = TerminalReason(t)
    BY <1>2 DEF NoOutcome
  <2>2. AttemptsOf(t)' = AttemptsOf(t)
    BY DEF ledgerTables, AttemptsOf
  <2> QED BY <2>1, <2>2, OutcomeRead DEF Doomed, ledgerTables, IsCurrent
<1>4. FencesKept
  <2>1. \A t \in Token : AttemptsOf(t)' = AttemptsOf(t)
    BY DEF ledgerTables, AttemptsOf
  <2> QED BY <1>2, <2>1, FencesStay
<1>5. Tables' /\ AttemptsNamed' /\ UNCHANGED <<session, admissions, attempts>>
  <2>1. Tables'
    BY UnchangedTables DEF Base
  <2> QED BY <2>1 DEF AttemptsNamed, ledgerTables
<1> QED BY <1>1, <1>2, <1>3, <1>4, <1>5 DEF VerdictsKept

LEMMA BeginEffects ==
    ASSUME Base, NEW s \in Sessions, NEW m \in ClientMsgIds, NEW f \in Fingerprints,
           BeginExecution(s, NULL, m, f)
    PROVE  /\ AdmissionsGrow /\ IdsKept /\ OpenKept /\ NoNewDoubt /\ NoOutcome /\ VerdictsKept
           /\ FencesKept /\ Tables' /\ UNCHANGED attempts
           /\ \A x \in Sessions \ {s} : session'[x] = session[x]
           /\ session[s].generation \in Nat
           /\ session'[s].generation = session[s].generation + 1
           /\ session'[s].phase = "RUNNING"
           /\ session[s].phase \in {"NONE", "TERMINAL"}
           /\ TokenOf(s)' \in Token
           /\ [clientMsgId |-> m, fingerprint |-> f, token |-> TokenOf(s)'] \in admissions'[s]
           /\ ~Admitted(s, m)
           /\ TerminalReason(TokenOf(s)') = NULL
<1> USE DEF Base
<1>1. NULL \in ExecutionIds \cup {NULL} /\ m \in ClientMsgIds \cup {NULL} /\ m # NULL
  BY NullAssumption
<1>2. Tables'
  BY <1>1, BeginKeepsTables
<1>3. PICK e \in AcceptedIds(NULL) :
         LET t == [session |-> s, executionId |-> e,
                   generation |-> session[s].generation + 1]
         IN /\ session' = [session EXCEPT ![s] =
                   [executionId |-> e, generation |-> t.generation,
                    phase |-> "RUNNING", reason |-> NULL]]
            /\ Record(s, ExecutionEventOf(t, "RUNNING", NULL))
            /\ Admit(s, m, f, t)
  BY DEF BeginExecution
<1>4. PICK t : t = [session |-> s, executionId |-> e,
                    generation |-> session[s].generation + 1]
  OBVIOUS
<1>5. /\ session \in [Sessions -> SessionRow] /\ admissions \in [Sessions -> SUBSET AdmissionRow]
      /\ session[s] \in SessionRow /\ e \in ExecutionIds
  BY <1>3 DEF Tables, TablesTyped, AcceptedIds
<1>6. /\ session' = [session EXCEPT ![s] =
             [executionId |-> t.executionId, generation |-> t.generation,
              phase |-> "RUNNING", reason |-> NULL]]
      /\ Record(s, ExecutionEventOf(t, "RUNNING", NULL))
      /\ Admit(s, m, f, t)
  BY <1>3, <1>4
<1>7. session[s].generation \in Nat /\ t \in Token /\ t.session = s
      /\ t.generation = session[s].generation + 1
  BY <1>4, <1>5 DEF SessionRow, Token
<1>8. /\ session'[s] = [executionId |-> t.executionId, generation |-> t.generation,
                        phase |-> "RUNNING", reason |-> NULL]
      /\ \A x \in Sessions \ {s} : session'[x] = session[x]
  BY <1>5, <1>6
<1>9. TokenOf(s)' = t
  BY <1>7, <1>8 DEF TokenOf, Token
<1>10. admissions' = [admissions EXCEPT ![s] =
                @ \cup {[clientMsgId |-> m, fingerprint |-> f, token |-> t]}]
  BY <1>1, <1>6 DEF Admit
<1>11. /\ AdmissionsGrow
       /\ [clientMsgId |-> m, fingerprint |-> f, token |-> t] \in admissions'[s]
  BY <1>5, <1>10 DEF AdmissionsGrow
<1>12. /\ UNCHANGED attempts /\ ~Admitted(s, m) /\ session[s].phase \in {"NONE", "TERMINAL"}
  BY <1>1 DEF BeginExecution, MayBegin
<1>13. PICK event : event = ExecutionEventOf(t, "RUNNING", NULL)
  OBVIOUS
<1>14. event \in Event /\ Record(s, event) /\ event.phase = "RUNNING"
  BY <1>6, <1>7, <1>13 DEF ExecutionEventOf, ExecutionEvent, Event, Phases, ActivePhases, Token
<1>15. NoOutcome
  BY <1>14, OtherEventsKeepOutcome DEF NoOutcome, EndsExecution, Tables
<1>16. IdsKept /\ OpenKept /\ NoNewDoubt
  BY <1>12 DEF IdsKept, OpenKept, NoNewDoubt
<1>17. ASSUME NEW x \in Token
       PROVE  /\ Outcome(x) = "completed" => Outcome(x)' = "completed"
              /\ Doomed(x) => Doomed(x)'
  <2>1. TerminalReason(x)' = TerminalReason(x) /\ AttemptsOf(x)' = AttemptsOf(x)
    BY <1>12, <1>15 DEF NoOutcome, AttemptsOf
  <2>2. (IsCurrent(x) /\ session[x.session].phase = "STOPPING") =>
            (IsCurrent(x)' /\ session'[x.session].phase = "STOPPING")
    BY <1>8, <1>12 DEF IsCurrent, Token
  <2> QED BY <2>1, <2>2, OutcomeRead DEF Doomed
<1>18. TerminalReason(t) = NULL
  <2>1. TerminalEvents(t) = {}
    BY <1>7 DEF TerminalEvents, Tables, LogNotAhead, IsExecutionEvent
  <2> QED BY <2>1 DEF TerminalReason
<1>19. VerdictsKept
  BY <1>17 DEF VerdictsKept
<1>20. FencesKept
  <2>1. \A x \in Token : AttemptsOf(x)' = AttemptsOf(x)
    BY <1>12 DEF AttemptsOf
  <2> QED BY <1>15, <2>1, FencesStay
<1> QED BY <1>2, <1>7, <1>8, <1>9, <1>11, <1>12, <1>15, <1>16, <1>18, <1>19, <1>20

LEMMA AttemptEffects ==
    ASSUME Base, AttemptsNamed, NEW t \in Token, NEW p \in PhaseNames, NEW parallel \in BOOLEAN,
           t.generation > 0, BeginProviderAttempt(t, <<t.executionId, p>>, parallel)
    PROVE  /\ ExecutionsKept /\ AdmissionsGrow /\ IdsKept /\ OpenKept /\ NoNewDoubt
           /\ NoOutcome /\ VerdictsKept /\ FencesKept
           /\ Tables' /\ AttemptsNamed' /\ UNCHANGED <<session, admissions>>
           /\ IsCurrent(t) /\ session[t.session].phase = "RUNNING"
           /\ \A r \in attempts[t.session] : r.providerAttemptId # <<t.executionId, p>>
           /\ \E row : /\ row.generation = t.generation /\ row.executionId = t.executionId
                       /\ row.providerAttemptId = <<t.executionId, p>>
                       /\ row.phase = "RUNNING" /\ row.reason = NULL
                       /\ row \in attempts'[t.session]
<1> USE DEF Base
<1> DEFINE s == t.session
           id == <<t.executionId, p>>
<1>1. id \in AttemptIds /\ s \in Sessions /\ t.executionId \in ExecutionIds /\ t.generation \in Nat
  BY StageAssumption DEF Token
<1>2. Tables'
  BY <1>1, BeginAttemptKeepsTables
<1>3. NextAttempt(t) \in Nat
  BY NextAttemptBound DEF Tables
<1>4. PICK row : row = [executionId |-> t.executionId, generation |-> t.generation,
                        attempt |-> NextAttempt(t), providerAttemptId |-> id,
                        phase |-> "RUNNING", reason |-> NULL]
  OBVIOUS
<1>5. /\ row \in AttemptRow /\ row.generation = t.generation
      /\ row.executionId = t.executionId /\ row.providerAttemptId = id
      /\ row.phase = "RUNNING" /\ row.reason = NULL
  BY <1>1, <1>3, <1>4 DEF AttemptRow
<1>6. /\ attempts' = [attempts EXCEPT ![s] = @ \cup {row}]
      /\ Record(s, AttemptEventOf(row)) /\ UNCHANGED <<session, admissions>>
      /\ IsCurrent(t) /\ session[s].phase = "RUNNING"
      /\ \A r \in attempts[s] : r.providerAttemptId # id
  BY <1>4 DEF BeginProviderAttempt
<1>7. /\ attempts \in [Sessions -> SUBSET AttemptRow] /\ session[s] \in SessionRow
      /\ \A x \in Sessions \ {s} : attempts'[x] = attempts[x]
      /\ attempts'[s] = attempts[s] \cup {row}
  BY <1>1, <1>6 DEF Tables, TablesTyped
<1>8. ExecutionsKept /\ AdmissionsGrow /\ IdsKept
  BY <1>6, <1>7 DEF ExecutionsKept, AdmissionsGrow, IdsKept
<1>9. OpenKept
  BY <1>7 DEF OpenKept
<1>10. NoNewDoubt
  BY <1>5, <1>7, NullAssumption, ReasoningReasonAssumption DEF NoNewDoubt
<1>11. PICK event : event = AttemptEventOf(row)
  OBVIOUS
<1>12. event \in Event /\ Record(s, event) /\ event.type # "execution_state_changed"
  BY <1>5, <1>6, <1>11 DEF AttemptEventOf, AttemptEvent, Event
<1>13. NoOutcome
  BY <1>1, <1>12, OtherEventsKeepOutcome DEF NoOutcome, EndsExecution, Tables
<1>14. ASSUME NEW x \in Token
       PROVE  /\ Outcome(x) = "completed" => Outcome(x)' = "completed"
              /\ Doomed(x) => Doomed(x)'
  <2>1. TerminalReason(x)' = TerminalReason(x)
    BY <1>13 DEF NoOutcome
  <2>2. AttemptsOf(x) \subseteq AttemptsOf(x)'
    BY <1>7 DEF AttemptsOf, Token
  <2>3. \A r \in AttemptsOf(x)' : r \in AttemptsOf(x) \/ r.reason = NULL
    BY <1>5, <1>7 DEF AttemptsOf, Token
  <2>4. NULL \notin {"ambiguous", "server_restart"}
    BY NullAssumption, ReasoningReasonAssumption
  <2>5. IsCurrent(x)' = IsCurrent(x) /\ session'[x.session] = session[x.session]
    BY <1>6 DEF IsCurrent
  <2> QED BY <1>6, <2>1, <2>2, <2>3, <2>4, <2>5, OutcomeRead DEF Doomed
<1>15. VerdictsKept
  BY <1>14 DEF VerdictsKept
<1>16. AttemptsNamed'
  <2>1. session[s].generation = t.generation /\ session[s].executionId = t.executionId
    BY <1>6 DEF IsCurrent
  <2> QED BY <1>1, <1>5, <1>6, <1>7, <2>1 DEF AttemptsNamed
<1>17. FencesKept
  <2>1. ~Fenced(t)
    BY <1>6, FencedStopped
  <2>2. \A x \in Token \ {t} : AttemptsOf(x)' = AttemptsOf(x)
    BY <1>5, <1>7 DEF AttemptsOf, Token
  <2> QED BY <1>13, <2>1, <2>2, FencesStay
<1> QED BY <1>1, <1>2, <1>5, <1>6, <1>7, <1>8, <1>9, <1>10, <1>13, <1>15, <1>16, <1>17

\* The row of an attempt is replaced by its ended row.
AttemptReplaced(t, row, reason) ==
    \E ended : /\ ended.generation = t.generation /\ ended.executionId = t.executionId
               /\ ended.providerAttemptId = row.providerAttemptId
               /\ ended.phase = "TERMINAL" /\ ended.reason = reason
               /\ ended \in attempts'[t.session]
               /\ \A r \in attempts'[t.session] : r = ended \/ r \in attempts[t.session]
               /\ \A r \in attempts[t.session] : r = row \/ r \in attempts'[t.session]

LEMMA EndEffects ==
    ASSUME Base, AttemptsNamed, NEW t \in Token, NEW row,
           NEW reason \in {"completed", "ambiguous"},
           TransitionProviderAttempt(t, row, reason)
    PROVE  /\ ExecutionsKept /\ AdmissionsGrow /\ IdsKept /\ NoOutcome /\ VerdictsKept
           /\ FencesKept
           /\ reason = "ambiguous" => OpenKept
           /\ reason = "completed" => NoNewDoubt
           /\ Tables' /\ AttemptsNamed' /\ UNCHANGED <<session, admissions>>
           /\ IsCurrent(t) /\ session[t.session].phase # "TERMINAL"
           /\ row \in attempts[t.session] /\ row.generation = t.generation
           /\ row.executionId = t.executionId /\ row.phase = "RUNNING"
           /\ AttemptReplaced(t, row, reason)
           /\ \A x \in Sessions \ {t.session} : attempts'[x] = attempts[x]
<1> USE DEF Base
<1> DEFINE s == t.session
<1>1. s \in Sessions /\ reason \in AttemptReasons
  BY ReasoningReasonAssumption DEF Token
<1>2. Tables'
  BY <1>1, EndAttemptKeepsTables
<1>3. PICK ended : ended = [row EXCEPT !.phase = "TERMINAL", !.reason = reason]
  OBVIOUS
<1>4. /\ row \in attempts[s] /\ row \in AttemptRow /\ row.phase = "RUNNING"
      /\ row.generation = t.generation /\ row.executionId = t.executionId
  BY <1>1 DEF TransitionProviderAttempt, AttemptsOf, Tables, TablesTyped
<1>5. /\ ended \in AttemptRow /\ ended.generation = t.generation
      /\ ended.executionId = t.executionId
      /\ ended.providerAttemptId = row.providerAttemptId
      /\ ended.phase = "TERMINAL" /\ ended.reason = reason
  BY <1>1, <1>3, <1>4 DEF AttemptRow
<1>6. /\ attempts' = [attempts EXCEPT ![s] = (@ \ {row}) \cup {ended}]
      /\ Record(s, AttemptEventOf(ended)) /\ UNCHANGED <<session, admissions>>
      /\ IsCurrent(t) /\ session[s].phase # "TERMINAL"
  BY <1>3 DEF TransitionProviderAttempt, MayEndAttempt
<1>7. /\ attempts \in [Sessions -> SUBSET AttemptRow]
      /\ \A x \in Sessions \ {s} : attempts'[x] = attempts[x]
      /\ attempts'[s] = (attempts[s] \ {row}) \cup {ended}
  BY <1>1, <1>6 DEF Tables, TablesTyped
<1>8. ExecutionsKept /\ AdmissionsGrow
  BY <1>6 DEF ExecutionsKept, AdmissionsGrow
<1>9. IdsKept
  BY <1>5, <1>7 DEF IdsKept
<1>10. ASSUME reason = "ambiguous" PROVE OpenKept
  BY <1>4, <1>5, <1>7, <1>10 DEF OpenKept
<1>11. ASSUME reason = "completed" PROVE NoNewDoubt
  BY <1>5, <1>7, <1>11 DEF NoNewDoubt
<1>12. PICK event : event = AttemptEventOf(ended)
  OBVIOUS
<1>13. event \in Event /\ Record(s, event) /\ event.type # "execution_state_changed"
  BY <1>5, <1>6, <1>12 DEF AttemptEventOf, AttemptEvent, Event
<1>14. NoOutcome
  BY <1>1, <1>13, OtherEventsKeepOutcome DEF NoOutcome, EndsExecution, Tables
<1>15. ASSUME NEW x \in Token
       PROVE  /\ Outcome(x) = "completed" => Outcome(x)' = "completed"
              /\ Doomed(x) => Doomed(x)'
  <2>1. TerminalReason(x)' = TerminalReason(x)
    BY <1>14 DEF NoOutcome
  <2>2. IsCurrent(x)' = IsCurrent(x) /\ session'[x.session] = session[x.session]
    BY <1>6 DEF IsCurrent
  <2>3. CASE x # t
    <3>1. ~(x.session = s /\ x.executionId = t.executionId /\ x.generation = t.generation)
      BY <2>3 DEF Token
    <3>2. AttemptsOf(x)' = AttemptsOf(x)
      BY <1>4, <1>5, <1>7, <3>1 DEF AttemptsOf, Token
    <3> QED BY <2>1, <2>2, <3>2, OutcomeRead, <1>6 DEF Doomed
  <2>4. CASE x = t
    <3>1. TerminalReason(t) = NULL
      <4>1. TerminalEvents(t) = {}
        BY <1>1, <1>6 DEF TerminalEvents, Tables, LogNotAhead, IsExecutionEvent, IsCurrent
      <4> QED BY <4>1 DEF TerminalReason
    <3>2. Outcome(t) # "completed"
      BY <3>1, OutcomeRead, NullAssumption, ReasoningReasonAssumption
    <3>3. row.reason # "ambiguous"
      BY <1>1, <1>4, NullAssumption, ReasoningReasonAssumption DEF AttemptsNamed
    <3>4. \A r \in AttemptsOf(t) : r.reason = "ambiguous" => r \in AttemptsOf(t)'
      BY <1>1, <1>7, <3>3 DEF AttemptsOf
    <3> QED BY <1>6, <2>1, <2>2, <2>4, <3>2, <3>4 DEF Doomed
  <2> QED BY <2>3, <2>4
<1>16. VerdictsKept
  BY <1>15 DEF VerdictsKept
<1>17. AttemptsNamed'
  <2>1. \A r \in attempts'[s] : r = ended \/ r \in attempts[s]
    BY <1>7
  <2>2. /\ ended.generation > 0
        /\ ended.generation <= session[s].generation
        /\ ended.generation = session[s].generation => ended.executionId = session[s].executionId
        /\ \E p \in PhaseNames : ended.providerAttemptId = <<ended.executionId, p>>
        /\ ended.phase # "RUNNING" /\ ended.reason \in {NULL, "completed", "ambiguous"}
    BY <1>1, <1>4, <1>5 DEF AttemptsNamed
  <2> QED BY <1>1, <1>6, <1>7, <2>1, <2>2 DEF AttemptsNamed
<1>18. AttemptReplaced(t, row, reason)
  BY <1>5, <1>7 DEF AttemptReplaced
<1>19. FencesKept
  <2>1. \A x \in Token : \A r \in AttemptsOf(x)' : \E q \in AttemptsOf(x) :
           q.providerAttemptId = r.providerAttemptId
    BY <1>4, <1>5, <1>7 DEF AttemptsOf, Token
  <2> QED BY <1>14, <2>1, FencesStay
<1> QED BY <1>2, <1>4, <1>5, <1>6, <1>7, <1>8, <1>9, <1>10, <1>11, <1>14, <1>16, <1>17, <1>18,
           <1>19

LEMMA TransitionEffects ==
    ASSUME Base, AttemptsNamed, NEW t \in Token, NEW phase \in {"STOPPING", "TERMINAL"},
           NEW reason \in ExecutionReasons \cup {NULL},
           phase = "TERMINAL" => reason \in ExecutionReasons,
           (session[t.session].phase = "STOPPING" \/ Doomed(t)) => reason # "completed",
           TransitionExecution(t, phase, reason)
    PROVE  /\ ExecutionsKept /\ AdmissionsGrow /\ IdsKept /\ OpenKept /\ NoNewDoubt
           /\ VerdictsKept /\ FencesKept /\ Tables' /\ AttemptsNamed'
           /\ UNCHANGED <<admissions, attempts>>
           /\ IsCurrent(t) /\ Live(t.session)
           /\ phase = "STOPPING" => session[t.session].phase # "STOPPING"
           /\ phase = "TERMINAL" => /\ TerminalReason(t)' = reason
                                    /\ \A x \in Token \ {t} : TerminalReason(x)' = TerminalReason(x)
           /\ phase # "TERMINAL" => NoOutcome
           /\ \A x \in Sessions \ {t.session} : session'[x] = session[x]
           /\ session'[t.session].phase = phase
<1> USE DEF Base
<1> DEFINE s == t.session
<1>1. s \in Sessions /\ phase \in Phases /\ t.generation \in Nat /\ t.executionId \in ExecutionIds
  BY DEF Token, Phases, ActivePhases
<1>2. Tables'
  BY <1>1, TransitionKeepsTables
<1>3. /\ session' = [session EXCEPT ![s].phase = phase, ![s].reason = reason]
      /\ UNCHANGED <<admissions, attempts>>
      /\ IsCurrent(t) /\ phase \in Transitions[session[s].phase]
  BY DEF TransitionExecution, MayTransition
<1>4. session \in [Sessions -> SessionRow] /\ session[s] \in SessionRow
  BY <1>1 DEF Tables, TablesTyped
<1>5. session[s].phase \in ActivePhases
      /\ (phase = "STOPPING" => session[s].phase # "STOPPING")
  BY <1>3, <1>4 DEF Transitions, SessionRow, Phases, ActivePhases
<1>6. /\ \A x \in Sessions \ {s} : session'[x] = session[x]
      /\ session'[s].phase = phase /\ session'[s].generation = session[s].generation
      /\ session'[s].executionId = session[s].executionId
  BY <1>1, <1>3, <1>4 DEF SessionRow
<1>7. ExecutionsKept
  BY <1>6 DEF ExecutionsKept
<1>8. AdmissionsGrow /\ IdsKept /\ OpenKept /\ NoNewDoubt
  BY <1>3 DEF AdmissionsGrow, IdsKept, OpenKept, NoNewDoubt
<1>9. AttemptsNamed'
  BY <1>3, <1>7 DEF AttemptsNamed, ExecutionsKept
<1>10. PICK event : event = ExecutionEventOf(t, phase, reason)
  OBVIOUS
<1>11. event \in Event /\ Record(s, event)
  BY <1>1, <1>10 DEF ExecutionEventOf, ExecutionEvent, Event, TransitionExecution
<1>12. \A x \in Token : (phase # "TERMINAL" \/ x # t) => ~(x.session = s /\ EndsExecution(x, event))
  BY <1>1, <1>10 DEF EndsExecution, ExecutionEventOf, Token
<1>13. \A x \in Token : (phase # "TERMINAL" \/ x # t) => TerminalReason(x)' = TerminalReason(x)
  BY <1>1, <1>11, <1>12, OtherEventsKeepOutcome DEF Tables
<1>14. phase = "TERMINAL" => TerminalReason(t)' = reason
  BY EndSetsOutcome
<1>15. TerminalReason(t) = NULL
  <2>1. TerminalEvents(t) = {}
    BY <1>1, <1>3, <1>5 DEF TerminalEvents, Tables, LogNotAhead, IsExecutionEvent, IsCurrent,
                            ActivePhases
  <2> QED BY <2>1 DEF TerminalReason
<1>16. ASSUME NEW x \in Token
       PROVE  /\ Outcome(x) = "completed" => Outcome(x)' = "completed"
              /\ Doomed(x) => Doomed(x)'
  <2>1. AttemptsOf(x)' = AttemptsOf(x)
    BY <1>3 DEF AttemptsOf
  <2>2. CASE x = t
    <3>1. Outcome(x) # "completed"
      BY <1>15, <2>2, OutcomeRead, NullAssumption, ReasoningReasonAssumption
    <3>2. CASE phase = "TERMINAL"
      <4>1. Doomed(t) => TerminalReason(t)' \notin {NULL, "completed"}
        BY <1>14, <3>2, NullAssumption
      <4> QED BY <2>2, <3>1, <4>1 DEF Doomed
    <3>3. CASE phase = "STOPPING"
      <4>1. IsCurrent(t)' /\ session'[s].phase = "STOPPING"
        BY <1>3, <1>6, <3>3 DEF IsCurrent
      <4> QED BY <2>2, <3>1, <4>1 DEF Doomed
    <3> QED BY <3>2, <3>3
  <2>3. CASE x # t
    <3>1. TerminalReason(x)' = TerminalReason(x)
      BY <1>13, <2>3
    <3>2. IsCurrent(x) => x.session # s
      BY <1>3, <2>3 DEF IsCurrent, Token
    <3>3. (IsCurrent(x) /\ session[x.session].phase = "STOPPING") =>
              (IsCurrent(x)' /\ session'[x.session].phase = "STOPPING")
      BY <1>6, <3>2 DEF IsCurrent, Token
    <3> QED BY <2>1, <3>1, <3>3, OutcomeRead DEF Doomed
  <2> QED BY <2>2, <2>3
<1>17. VerdictsKept
  BY <1>16 DEF VerdictsKept
<1>18. phase # "TERMINAL" => NoOutcome
  BY <1>13 DEF NoOutcome
<1>19. FencesKept
  <2>1. \A x \in Token : AttemptsOf(x)' = AttemptsOf(x)
    BY <1>3 DEF AttemptsOf
  <2>2. ASSUME phase = "TERMINAL", Fenced(t)
        PROVE  reason # "completed"
    <3>1. TerminalReason(t) # "stopped"
      BY <1>15, NullAssumption, ReasoningReasonAssumption
    <3> QED BY <2>2, <3>1 DEF Fenced
  <2>3. \A x \in Token : Fenced(x) => TerminalReason(x)' # "completed"
    <3>1. ASSUME NEW x \in Token, Fenced(x), phase # "TERMINAL" \/ x # t
          PROVE  TerminalReason(x)' # "completed"
      BY <1>13, <3>1, FencedStopped
    <3>2. ASSUME phase = "TERMINAL", Fenced(t)
          PROVE  TerminalReason(t)' # "completed"
      BY <1>14, <2>2, <3>2
    <3> QED BY <3>1, <3>2
  <2> QED BY <2>1, <2>3 DEF FencesKept
<1> QED BY <1>2, <1>3, <1>5, <1>6, <1>7, <1>8, <1>9, <1>13, <1>14, <1>17, <1>18, <1>19 DEF Live

-----------------------------------------------------------------------------
(* What a step that starts no run may do to the runs of the process.       *)

\* No run appears; one that stays is of the same command and execution.
RunsNarrowed ==
    \A s \in Sessions, g \in 1 .. MaxGeneration : IsRun(s, g)' =>
        /\ IsRun(s, g)
        /\ runs'[s][g].token = runs[s][g].token
        /\ runs'[s][g].clientMsgId = runs[s][g].clientMsgId

NoCallDispatched ==
    \A s \in Sessions, g \in 1 .. MaxGeneration, p \in PhaseNames :
        (IsRun(s, g)' /\ runs'[s][g].call[p] = "inflight") => runs[s][g].call[p] = "inflight"

\* A call that comes to be in flight has its attempt.
CallsRecorded ==
    \A s \in Sessions, g \in 1 .. MaxGeneration, p \in PhaseNames :
        (IsRun(s, g)' /\ runs'[s][g].call[p] = "inflight") =>
            \/ runs[s][g].call[p] = "inflight"
            \/ \E r \in attempts'[s] :
                  /\ r.generation = g /\ r.phase = "RUNNING"
                  /\ r.providerAttemptId = <<runs'[s][g].token.executionId, p>>

SettledStay ==
    \A s \in Sessions, g \in 1 .. MaxGeneration, p \in PhaseNames :
        (IsRun(s, g)' /\ runs[s][g].call[p] \in {"ok", "bad"}) =>
            runs'[s][g].call[p] \in {"ok", "bad"}

\* A lost call stays marked.
LostKept ==
    \A s \in Sessions : \A g \in lost[s] : \E r \in attempts'[s] :
        /\ r.generation = g
        /\ \/ r.reason = "ambiguous"
           \/ /\ r.phase = "RUNNING"
              /\ (g \in 1 .. MaxGeneration /\ IsRun(s, g)') => \A p \in PhaseNames :
                    r.providerAttemptId = <<r.executionId, p>> =>
                        runs'[s][g].call[p] \in {"ok", "bad"}

\* The stage of a run that stays, its stop, its failed calls and those in flight:
\* none appears outside the stage.
ProgressKept ==
    \A s \in Sessions, g \in 1 .. MaxGeneration : IsRun(s, g)' =>
        /\ runs'[s][g].stage = runs[s][g].stage
        /\ runs[s][g].aborted => runs'[s][g].aborted
        /\ \A p \in PhaseNames :
              /\ runs[s][g].call[p] = "bad" => runs'[s][g].call[p] = "bad"
              /\ runs'[s][g].call[p] \in {"inflight", "bad"} =>
                    \/ runs[s][g].call[p] \in {"inflight", "bad"}
                    \/ runs[s][g].stage \in DOMAIN Stages /\ p \in Stages[runs[s][g].stage]

\* An attempt that becomes uncertain is a failed call of its run, if nobody stopped it.
DoubtFailed ==
    \A s \in Sessions, g \in 1 .. MaxGeneration : (IsRun(s, g)' /\ ~runs'[s][g].aborted) =>
        \A r \in attempts'[s] : (r.generation = g /\ r.reason = "ambiguous") =>
            \/ r \in attempts[s]
            \/ \E p \in PhaseNames : /\ r.providerAttemptId = <<r.executionId, p>>
                                      /\ runs'[s][g].call[p] = "bad"

StopsKept ==
    \A s \in Sessions, g \in 1 .. MaxGeneration :
        IsRun(s, g)' => runs'[s][g].aborted = runs[s][g].aborted

\* An attempt that becomes uncertain is of the current execution.
DoubtCurrent ==
    \A s \in Sessions : \A q \in attempts'[s] :
        q.reason = "ambiguous" => q \in attempts[s] \/ q.generation = session[s].generation

LEMMA RunTyped ==
    ASSUME Base, RunsNamed, NEW s \in Sessions, NEW g \in 1 .. MaxGeneration, IsRun(s, g)
    PROVE  /\ runs[s][g] \in Run /\ runs[s][g].token \in Token
           /\ runs[s][g].token.session = s /\ runs[s][g].token.generation = g
           /\ session[s].generation \in Nat /\ g \in Nat
           /\ IsCurrent(runs[s][g].token) <=> g = session[s].generation
           /\ IsCurrent(runs[s][g].token) => runs[s][g].token = TokenOf(s)
<1>1. runs[s][g] \in Run /\ session[s].generation \in Nat /\ g \in Nat
  BY BoundAssumption DEF Base, ReasoningTypeOK, IsRun, Tables, TablesTyped, SessionRow
<1>2. runs[s][g].token \in Token
  BY <1>1 DEF Run
<1>3. /\ runs[s][g].token.session = s /\ runs[s][g].token.generation = g
      /\ g = session[s].generation => runs[s][g].token.executionId = session[s].executionId
  BY DEF RunsNamed
<1> QED BY <1>1, <1>2, <1>3 DEF IsCurrent, TokenOf, Token

LEMMA RunsNamedKept ==
    ASSUME RunsNamed, ExecutionsKept, AdmissionsGrow, RunsNarrowed
    PROVE  RunsNamed'
BY DEF RunsNamed, ExecutionsKept, AdmissionsGrow, RunsNarrowed, IsRun

LEMMA DispatchesKept ==
    ASSUME DispatchesRecorded, AdmissionsGrow, IdsKept, UNCHANGED dispatched
    PROVE  DispatchesRecorded'
<1>1. ASSUME NEW s \in Sessions, NEW m \in ClientMsgIds, NEW p \in PhaseNames,
             dispatched[s][<<m, p>>] # 0
      PROVE  /\ dispatched[s][<<m, p>>] = 1
             /\ \E r \in admissions'[s] :
                   /\ r.clientMsgId = m
                   /\ \E a \in attempts'[s] : a.providerAttemptId = <<r.token.executionId, p>>
  <2>1. PICK r \in admissions[s] :
           /\ r.clientMsgId = m
           /\ \E a \in attempts[s] : a.providerAttemptId = <<r.token.executionId, p>>
    BY <1>1 DEF DispatchesRecorded
  <2>2. \E a \in attempts'[s] : a.providerAttemptId = <<r.token.executionId, p>>
    BY <2>1 DEF IdsKept
  <2> QED BY <1>1, <2>1, <2>2 DEF DispatchesRecorded, AdmissionsGrow
<1>2. ASSUME NEW s \in Sessions, NEW m \in ClientMsgIds, NEW p \in PhaseNames
      PROVE  \/ dispatched'[s][<<m, p>>] = 0
             \/ /\ dispatched'[s][<<m, p>>] = 1
                /\ \E r \in admissions'[s] :
                      /\ r.clientMsgId = m
                      /\ \E a \in attempts'[s] :
                            a.providerAttemptId = <<r.token.executionId, p>>
  <2>1. CASE dispatched[s][<<m, p>>] = 0
    BY <2>1
  <2>2. CASE dispatched[s][<<m, p>>] # 0
    BY <1>1, <2>2
  <2> QED BY <2>1, <2>2
<1> QED BY <1>2 DEF DispatchesRecorded

LEMMA NoneRecorded ==
    ASSUME NoCallDispatched
    PROVE  CallsRecorded
BY DEF NoCallDispatched, CallsRecorded

LEMMA InFlightStays ==
    ASSUME InFlightKept, OpenKept, RunsNarrowed, CallsRecorded
    PROVE  InFlightKept'
<1> SUFFICES ASSUME NEW s \in Sessions, NEW g \in 1 .. MaxGeneration, NEW p \in PhaseNames,
                    IsRun(s, g)', runs'[s][g].call[p] = "inflight"
             PROVE  \E r \in attempts'[s] :
                       /\ r.generation = g
                       /\ r.providerAttemptId = <<runs'[s][g].token.executionId, p>>
                       /\ r.phase = "RUNNING" \/ r.reason = "ambiguous"
  BY DEF InFlightKept
<1>1. IsRun(s, g) /\ runs'[s][g].token = runs[s][g].token
  BY DEF RunsNarrowed
<1>2. CASE runs[s][g].call[p] = "inflight"
  <2>1. PICK r \in attempts[s] :
           /\ r.generation = g
           /\ r.providerAttemptId = <<runs[s][g].token.executionId, p>>
           /\ r.phase = "RUNNING" \/ r.reason = "ambiguous"
    BY <1>1, <1>2 DEF InFlightKept
  <2> QED BY <1>1, <2>1 DEF OpenKept
<1>3. CASE runs[s][g].call[p] # "inflight"
  BY <1>3 DEF CallsRecorded
<1> QED BY <1>2, <1>3

LEMMA LostStays ==
    ASSUME AttemptsNamed, LostMarked, OpenKept, RunsNarrowed, SettledStay
    PROVE  LostKept
<1> SUFFICES ASSUME NEW s \in Sessions, NEW g \in lost[s]
             PROVE  \E r \in attempts'[s] :
                        /\ r.generation = g
                        /\ \/ r.reason = "ambiguous"
                           \/ /\ r.phase = "RUNNING"
                              /\ (g \in 1 .. MaxGeneration /\ IsRun(s, g)') =>
                                    \A p \in PhaseNames :
                                       r.providerAttemptId = <<r.executionId, p>> =>
                                          runs'[s][g].call[p] \in {"ok", "bad"}
  BY DEF LostKept
<1>1. PICK r \in attempts[s] :
         /\ r.generation = g
         /\ \/ r.reason = "ambiguous"
            \/ /\ r.phase = "RUNNING"
               /\ (g \in 1 .. MaxGeneration /\ IsRun(s, g)) => \A p \in PhaseNames :
                     r.providerAttemptId = <<r.executionId, p>> =>
                         runs[s][g].call[p] \in {"ok", "bad"}
  BY DEF LostMarked
<1>2. PICK q \in attempts'[s] :
         /\ q.generation = r.generation /\ q.executionId = r.executionId
         /\ q.providerAttemptId = r.providerAttemptId
         /\ q.reason = "ambiguous" \/ (r.phase = "RUNNING" /\ q.phase = "RUNNING")
  BY <1>1 DEF OpenKept
<1>3. CASE q.reason = "ambiguous"
  BY <1>1, <1>2, <1>3
<1>4. CASE r.reason = "ambiguous" /\ q.reason # "ambiguous"
  BY <1>2, <1>4, NullAssumption, ReasoningReasonAssumption DEF AttemptsNamed
<1>5. CASE r.reason # "ambiguous" /\ q.reason # "ambiguous"
  BY <1>1, <1>2, <1>5 DEF RunsNarrowed, SettledStay, IsRun
<1> QED BY <1>3, <1>4, <1>5

LEMMA LostSame ==
    ASSUME LostKept, UNCHANGED lost
    PROVE  LostMarked'
BY DEF LostKept, LostMarked

LEMMA LostGrows ==
    ASSUME LostKept, lost \in [Sessions -> SUBSET (1 .. MaxGeneration)],
           NEW x \in Sessions, NEW h \in 1 .. MaxGeneration,
           lost' = [lost EXCEPT ![x] = @ \cup {h}],
           \E r \in attempts'[x] :
               /\ r.generation = h
               /\ \/ r.reason = "ambiguous"
                  \/ /\ r.phase = "RUNNING"
                     /\ IsRun(x, h)' => \A p \in PhaseNames :
                           r.providerAttemptId = <<r.executionId, p>> =>
                               runs'[x][h].call[p] \in {"ok", "bad"}
    PROVE  LostMarked'
<1>1. \A s \in Sessions : \A g \in lost'[s] : g \in lost[s] \/ (s = x /\ g = h)
  OBVIOUS
<1> QED BY <1>1 DEF LostKept, LostMarked

LEMMA ConfirmedStays ==
    ASSUME AmbiguityConfirmed, ExecutionsKept, DoubtCurrent, UNCHANGED confirmed,
           \A s \in Sessions : session[s].generation \in Nat
    PROVE  AmbiguityConfirmed'
BY DEF AmbiguityConfirmed, ExecutionsKept, DoubtCurrent

LEMMA TellingsStay ==
    ASSUME Base, TellingsHold, VerdictsKept, AdmissionsGrow, UNCHANGED told
    PROVE  TellingsHold'
<1>1. \A s \in Sessions : \A r \in admissions[s] : r.token \in Token /\ r \in admissions'[s]
  BY DEF Base, Tables, TablesTyped, AdmissionRow, AdmissionsGrow
<1> SUFFICES ASSUME NEW s \in Sessions, NEW m \in ClientMsgIds
             PROVE  /\ "completed" \in told[s][m] =>
                          \E r \in admissions'[s] : r.clientMsgId = m /\ Outcome(r.token)' = "completed"
                    /\ ~(told[s][m] \subseteq {"running", "completed"}) =>
                          \E r \in admissions'[s] : r.clientMsgId = m /\ Doomed(r.token)'
  BY DEF TellingsHold
<1>2. ASSUME "completed" \in told[s][m]
      PROVE  \E r \in admissions'[s] : r.clientMsgId = m /\ Outcome(r.token)' = "completed"
  <2>1. PICK r \in admissions[s] : r.clientMsgId = m /\ Outcome(r.token) = "completed"
    BY <1>2 DEF TellingsHold
  <2>2. Outcome(r.token)' = "completed"
    BY <1>1, <2>1 DEF VerdictsKept
  <2> QED BY <1>1, <2>1, <2>2
<1>3. ASSUME ~(told[s][m] \subseteq {"running", "completed"})
      PROVE  \E r \in admissions'[s] : r.clientMsgId = m /\ Doomed(r.token)'
  <2>1. PICK r \in admissions[s] : r.clientMsgId = m /\ Doomed(r.token)
    BY <1>3 DEF TellingsHold
  <2>2. Doomed(r.token)'
    BY <1>1, <2>1 DEF VerdictsKept
  <2> QED BY <1>1, <2>1, <2>2
<1> QED BY <1>2, <1>3

LEMMA FailuresStay ==
    ASSUME FailuresSeen, RunsNarrowed, ProgressKept, NoNewDoubt \/ DoubtFailed
    PROVE  FailuresSeen'
<1> SUFFICES ASSUME NEW s \in Sessions, NEW g \in 1 .. MaxGeneration, IsRun(s, g)'
             PROVE  /\ ~runs'[s][g].aborted => \A r \in attempts'[s] :
                          (r.generation = g /\ r.reason = "ambiguous") =>
                              \E p \in PhaseNames :
                                 /\ r.providerAttemptId = <<r.executionId, p>>
                                 /\ runs'[s][g].call[p] = "bad"
                    /\ \A p \in PhaseNames : runs'[s][g].call[p] \in {"inflight", "bad"} =>
                          runs'[s][g].stage \in DOMAIN Stages /\ p \in Stages[runs'[s][g].stage]
  BY DEF FailuresSeen
<1>1. IsRun(s, g)
  BY DEF RunsNarrowed
<1>2. ASSUME ~runs'[s][g].aborted, NEW r \in attempts'[s], r.generation = g,
             r.reason = "ambiguous"
      PROVE  \E p \in PhaseNames : /\ r.providerAttemptId = <<r.executionId, p>>
                                   /\ runs'[s][g].call[p] = "bad"
  <2>1. CASE r \in attempts[s]
    <3>1. ~runs[s][g].aborted
      BY <1>2 DEF ProgressKept
    <3> QED BY <1>1, <1>2, <2>1, <3>1 DEF FailuresSeen, ProgressKept
  <2>2. CASE r \notin attempts[s]
    BY <1>2, <2>2 DEF DoubtFailed, NoNewDoubt
  <2> QED BY <2>1, <2>2
<1>3. ASSUME NEW p \in PhaseNames, runs'[s][g].call[p] \in {"inflight", "bad"}
      PROVE  runs'[s][g].stage \in DOMAIN Stages /\ p \in Stages[runs'[s][g].stage]
  BY <1>1, <1>3 DEF FailuresSeen, ProgressKept
<1> QED BY <1>2, <1>3

LEMMA StopsStay ==
    ASSUME Base, RunsNamed, StopMarked, NoOutcome, UNCHANGED session, RunsNarrowed, StopsKept
    PROVE  StopMarked'
<1> SUFFICES ASSUME NEW s \in Sessions, NEW g \in 1 .. MaxGeneration, IsRun(s, g)'
             PROVE  IF runs'[s][g].aborted
                    THEN \/ g = session[s].generation /\ session[s].phase = "STOPPING"
                         \/ TerminalReason(runs[s][g].token)' \notin {NULL, "completed"}
                    ELSE g = session[s].generation /\ session[s].phase = "RUNNING"
  BY DEF StopMarked, RunsNarrowed
<1>1. IsRun(s, g) /\ runs'[s][g].token = runs[s][g].token
      /\ runs'[s][g].aborted = runs[s][g].aborted
  BY DEF RunsNarrowed, StopsKept
<1>2. PICK t \in Token : t = runs[s][g].token
  BY <1>1, RunTyped
<1>3. TerminalReason(t)' = TerminalReason(t)
  BY DEF NoOutcome
<1> QED BY <1>1, <1>2, <1>3 DEF StopMarked

-----------------------------------------------------------------------------
(* One run changes.                                                        *)

OtherRunsSame(s, g) ==
    \A x \in Sessions, h \in 1 .. MaxGeneration :
        (x # s \/ h # g) => runs'[x][h] = runs[x][h]
RunsTyped == runs \in [Sessions -> [1 .. MaxGeneration -> Run \cup {NULL}]]

\* The run goes on: its command, its execution and its stop remain.
RunGoesOn(s, g) ==
    /\ RunsTyped' /\ OtherRunsSame(s, g) /\ IsRun(s, g)'
    /\ runs'[s][g].token = runs[s][g].token
    /\ runs'[s][g].clientMsgId = runs[s][g].clientMsgId
    /\ runs'[s][g].aborted = runs[s][g].aborted

\* The run ends.
RunEnds(s, g) == RunsTyped' /\ OtherRunsSame(s, g) /\ runs'[s][g] = NULL

\* The process is serving and goes on doing so.
ProcessSame == server = "up" /\ server' = "up" /\ UNCHANGED <<orphans, crashes>>

LEMMA RunReplaced ==
    ASSUME Base, NEW s \in Sessions, NEW g \in 1 .. MaxGeneration, NEW v \in Run \cup {NULL},
           runs' = [runs EXCEPT ![s][g] = v]
    PROVE  RunsTyped' /\ OtherRunsSame(s, g) /\ runs'[s][g] = v
<1>1. runs \in [Sessions -> [1 .. MaxGeneration -> Run \cup {NULL}]]
  BY DEF Base, ReasoningTypeOK
<1>2. runs' \in [Sessions -> [1 .. MaxGeneration -> Run \cup {NULL}]]
  BY <1>1
<1> QED BY <1>1, <1>2 DEF RunsTyped, OtherRunsSame

LEMMA CallSet ==
    ASSUME Base, RunsNamed, NEW s \in Sessions, NEW g \in 1 .. MaxGeneration, IsRun(s, g),
           NEW p \in PhaseNames, NEW state \in CallStates, SetCall(runs[s][g], p, state)
    PROVE  /\ RunGoesOn(s, g)
           /\ runs'[s][g].stage = runs[s][g].stage
           /\ runs'[s][g].call[p] = state
           /\ \A q \in PhaseNames \ {p} : runs'[s][g].call[q] = runs[s][g].call[q]
<1>1. PICK run \in Run : run = runs[s][g]
  BY RunTyped
<1>2. PICK v : v = [run EXCEPT !.call[p] = state]
  OBVIOUS
<1>3. /\ v \in Run /\ v.token = run.token /\ v.clientMsgId = run.clientMsgId
      /\ v.stage = run.stage /\ v.aborted = run.aborted
      /\ v.call = [run.call EXCEPT ![p] = state]
  BY <1>1, <1>2 DEF Run
<1>4. v.call[p] = state /\ \A q \in PhaseNames \ {p} : v.call[q] = run.call[q]
  BY <1>1, <1>3 DEF Run
<1>5. run.token.session = s /\ run.token.generation = g
  BY <1>1, RunTyped
<1>6. runs \in [Sessions -> [1 .. MaxGeneration -> Run \cup {NULL}]]
  BY DEF Base, ReasoningTypeOK
<1>7. runs' = [runs EXCEPT ![s][g] = v]
  BY <1>1, <1>2, <1>5, <1>6 DEF SetCall
<1>8. RunsTyped' /\ OtherRunsSame(s, g) /\ runs'[s][g] = v
  <2>1. v \in Run \cup {NULL}
    BY <1>3
  <2> QED BY <1>7, <2>1, RunReplaced
<1>9. v # NULL
  BY <1>3, AbsentAssumption
<1> QED BY <1>1, <1>3, <1>4, <1>8, <1>9 DEF RunGoesOn, IsRun

\* What a step of a run that goes on leaves as it was.
LEMMA GoingOn ==
    ASSUME RInv, ProcessSame, turn = NULL, UNCHANGED <<session, active, turn>>,
           NEW s \in Sessions, NEW g \in 1 .. MaxGeneration, IsRun(s, g), RunGoesOn(s, g),
           NoOutcome, AdmissionsGrow
    PROVE  /\ RunsNarrowed /\ StopsKept
           /\ ExecutionsNumbered' /\ RunsNamed' /\ IdleWhenDown' /\ Registered' /\ TurnCurrent'
           /\ StopMarked'
<1> USE DEF RInv
<1>1. \A x \in Sessions, h \in 1 .. MaxGeneration : IsRun(x, h)' <=> IsRun(x, h)
  BY DEF RunGoesOn, OtherRunsSame, IsRun
<1>2. RunsNarrowed /\ StopsKept
  BY <1>1 DEF RunGoesOn, OtherRunsSame, RunsNarrowed, StopsKept
<1>3. ExecutionsKept
  BY DEF ExecutionsKept
<1>4. ExecutionsNumbered'
  BY DEF ExecutionsNumbered
<1>5. RunsNamed'
  BY <1>2, <1>3, RunsNamedKept
<1>6. IdleWhenDown'
  BY DEF IdleWhenDown, ProcessSame
<1>7. Registered'
  <2>1. \A x \in Sessions : TokenOf(x)' = TokenOf(x) /\ Live(x)' = Live(x)
    BY DEF TokenOf, Live
  <2> QED BY <1>1, <2>1 DEF Registered
<1>8. TurnCurrent'
  BY DEF TurnCurrent
<1>9. StopMarked'
  BY <1>2, StopsStay
<1> QED BY <1>2, <1>4, <1>5, <1>6, <1>7, <1>8, <1>9

\* A run that ends, with its execution or without, takes its registration along.
LEMMA Ending ==
    ASSUME RInv, ProcessSame, turn' = NULL,
           NEW s \in Sessions, NEW g \in 1 .. MaxGeneration, IsRun(s, g), RunEnds(s, g),
           turn # NULL => turn.token = runs[s][g].token,
           Unregister(runs[s][g].token),
           ExecutionsKept, AdmissionsGrow,
           \A x \in Sessions \ {s} : session'[x] = session[x],
           Live(s)' => Live(s), session'[s].phase # "NONE" => session[s].phase # "NONE",
           \/ NoOutcome /\ UNCHANGED session
           \/ /\ g = session[s].generation /\ session[s].phase = "RUNNING"
              /\ \A t \in Token \ {runs[s][g].token} : TerminalReason(t)' = TerminalReason(t)
    PROVE  /\ RunsNarrowed /\ ProgressKept /\ NoCallDispatched /\ SettledStay
           /\ ExecutionsNumbered' /\ RunsNamed' /\ IdleWhenDown' /\ Registered' /\ TurnCurrent'
           /\ StopMarked' /\ active' \in [Sessions -> Token \cup {NULL}]
<1> USE DEF RInv
<1>1. \A x \in Sessions, h \in 1 .. MaxGeneration :
          IsRun(x, h)' <=> IsRun(x, h) /\ (x # s \/ h # g)
  BY DEF RunEnds, OtherRunsSame, IsRun
<1>2. \A x \in Sessions, h \in 1 .. MaxGeneration : IsRun(x, h)' => runs'[x][h] = runs[x][h]
  BY <1>1 DEF RunEnds, OtherRunsSame
<1>3. RunsNarrowed /\ ProgressKept /\ NoCallDispatched /\ SettledStay
  BY <1>1, <1>2 DEF RunsNarrowed, ProgressKept, NoCallDispatched, SettledStay
<1>4. ExecutionsNumbered'
  BY DEF ExecutionsNumbered, ExecutionsKept
<1>5. RunsNamed'
  BY <1>3, RunsNamedKept
<1>6. IdleWhenDown'
  BY DEF IdleWhenDown, ProcessSame
<1>7. PICK t \in Token : /\ t = runs[s][g].token /\ t.session = s /\ t.generation = g
                         /\ g = session[s].generation => t = TokenOf(s)
  BY RunTyped
<1>8. active' = IF active[s] = t THEN [active EXCEPT ![s] = NULL] ELSE active
  BY <1>7 DEF Unregister
<1>9. active \in [Sessions -> Token \cup {NULL}]
  BY DEF Base, ReasoningTypeOK
<1>10. active' \in [Sessions -> Token \cup {NULL}]
  BY <1>8, <1>9
<1>11. /\ \A x \in Sessions \ {s} : active'[x] = active[x]
       /\ active'[s] = IF active[s] = t THEN NULL ELSE active[s]
  BY <1>8, <1>9
<1>12. \A x \in Sessions : TokenOf(x)' = TokenOf(x)
  BY DEF TokenOf, ExecutionsKept
<1>13. TurnCurrent'
  BY DEF TurnCurrent
<1>14. Registered'
  <2>1. ASSUME NEW x \in Sessions, active'[x] # NULL
        PROVE  /\ active'[x] = TokenOf(x)' /\ Live(x)'
               /\ session'[x].generation \in 1 .. MaxGeneration
               /\ IsRun(x, session[x].generation)'
    <3>1. active'[x] = active[x] /\ (x = s => active[s] # t)
      BY <1>11, <2>1
    <3>2. /\ active[x] = TokenOf(x) /\ Live(x)
          /\ session[x].generation \in 1 .. MaxGeneration
          /\ IsRun(x, session[x].generation)
      BY <2>1, <3>1 DEF Registered
    <3>3. x = s => session[s].generation # g
      BY <1>7, <3>1, <3>2
    <3>4. Live(x)'
      BY <3>2, <3>3 DEF Live
    <3>5. IsRun(x, session[x].generation)'
      BY <1>1, <3>2, <3>3
    <3> QED BY <1>12, <3>1, <3>2, <3>4, <3>5 DEF ExecutionsKept
  <2>2. ASSUME NEW x \in Sessions, Live(x)', session'[x].generation \in 1 .. MaxGeneration,
               IsRun(x, session[x].generation)'
        PROVE  active'[x] = TokenOf(x)'
    <3>1. Live(x) /\ session[x].generation \in 1 .. MaxGeneration
      BY <2>2 DEF ExecutionsKept, Live
    <3>2. IsRun(x, session[x].generation) /\ (x = s => session[x].generation # g)
      BY <1>1, <2>2, <3>1 DEF ExecutionsKept, IsRun
    <3>3. active[x] = TokenOf(x)
      <4>1. TokenOf(x).session = x /\ TokenOf(x).generation = session[x].generation
        BY DEF TokenOf
      <4>2. t # TokenOf(x)
        BY <1>7, <3>2, <4>1
      <4>3. turn # NULL => turn # [kind |-> "admit", token |-> TokenOf(x)]
        BY <1>7, <4>2
      <4> QED BY <3>1, <3>2, <4>3 DEF Registered
    <3>4. x = s => active[s] # t
      BY <1>7, <3>2, <3>3 DEF TokenOf
    <3> QED BY <1>11, <1>12, <3>3, <3>4
  <2>3. \A x \in Sessions : session'[x].generation = session[x].generation
    BY DEF ExecutionsKept
  <2> QED BY <2>1, <2>2, <2>3 DEF Registered
<1>15. StopMarked'
  <2>1. CASE NoOutcome /\ UNCHANGED session
    <3>1. StopsKept
      BY <1>2 DEF StopsKept
    <3> QED BY <1>3, <2>1, <3>1, StopsStay
  <2>2. CASE /\ g = session[s].generation /\ session[s].phase = "RUNNING"
             /\ \A u \in Token \ {t} : TerminalReason(u)' = TerminalReason(u)
    <3> SUFFICES ASSUME NEW x \in Sessions, NEW h \in 1 .. MaxGeneration, IsRun(x, h)'
                 PROVE  IF runs[x][h].aborted
                        THEN \/ h = session'[x].generation /\ session'[x].phase = "STOPPING"
                             \/ TerminalReason(runs[x][h].token)' \notin {NULL, "completed"}
                        ELSE h = session'[x].generation /\ session'[x].phase = "RUNNING"
      BY <1>2 DEF StopMarked
    <3>1. IsRun(x, h) /\ (x # s \/ h # g)
      BY <1>1
    <3>2. PICK u \in Token : u = runs[x][h].token /\ u.session = x /\ u.generation = h
      BY <3>1, RunTyped
    <3>3. TerminalReason(runs[x][h].token)' = TerminalReason(u)
      BY <1>2, <1>7, <2>2, <3>1, <3>2
    <3>4. IF runs[x][h].aborted
          THEN \/ h = session[x].generation /\ session[x].phase = "STOPPING"
               \/ TerminalReason(u) \notin {NULL, "completed"}
          ELSE h = session[x].generation /\ session[x].phase = "RUNNING"
      BY <3>1, <3>2 DEF StopMarked
    <3>5. CASE x # s
      BY <3>2, <3>3, <3>4, <3>5
    <3>6. CASE x = s
      BY <2>2, <3>1, <3>2, <3>3, <3>4, <3>6
    <3> QED BY <3>5, <3>6
  <2> QED BY <1>7, <2>1, <2>2
<1> QED BY <1>3, <1>4, <1>5, <1>6, <1>10, <1>13, <1>14, <1>15

\* What one call of a run that goes on becomes.
CallBecomes(s, g, p, state) ==
    /\ RunGoesOn(s, g)
    /\ runs'[s][g].stage = runs[s][g].stage
    /\ runs'[s][g].call[p] = state
    /\ \A q \in PhaseNames \ {p} : runs'[s][g].call[q] = runs[s][g].call[q]

LEMMA CallProgress ==
    ASSUME RInv, NEW s \in Sessions, NEW g \in 1 .. MaxGeneration, IsRun(s, g),
           NEW p \in PhaseNames, NEW state \in CallStates, CallBecomes(s, g, p, state),
           \/ runs[s][g].call[p] = "todo" /\ state \in {"inflight", "bad"}
              /\ runs[s][g].stage \in DOMAIN Stages /\ p \in Stages[runs[s][g].stage]
           \/ runs[s][g].call[p] = "inflight" /\ state \in {"ok", "bad"}
    PROVE  /\ ProgressKept /\ SettledStay
           /\ state # "inflight" => NoCallDispatched
<1>1. \A x \in Sessions, h \in 1 .. MaxGeneration :
          (x # s \/ h # g) => runs'[x][h] = runs[x][h]
  BY DEF CallBecomes, RunGoesOn, OtherRunsSame
<1>2. ProgressKept
  <2> SUFFICES ASSUME NEW x \in Sessions, NEW h \in 1 .. MaxGeneration, IsRun(x, h)',
                      NEW q \in PhaseNames
               PROVE  /\ runs'[x][h].stage = runs[x][h].stage
                      /\ runs[x][h].aborted => runs'[x][h].aborted
                      /\ runs[x][h].call[q] = "bad" => runs'[x][h].call[q] = "bad"
                      /\ runs'[x][h].call[q] \in {"inflight", "bad"} =>
                            \/ runs[x][h].call[q] \in {"inflight", "bad"}
                            \/ /\ runs[x][h].stage \in DOMAIN Stages
                               /\ q \in Stages[runs[x][h].stage]
    <3>1. \A x \in Sessions, h \in 1 .. MaxGeneration : IsRun(x, h)' =>
              /\ runs'[x][h].stage = runs[x][h].stage
              /\ runs[x][h].aborted => runs'[x][h].aborted
      BY <1>1 DEF CallBecomes, RunGoesOn
    <3> QED BY <3>1 DEF ProgressKept
  <2>1. CASE x # s \/ h # g
    BY <1>1, <2>1
  <2>2. CASE x = s /\ h = g /\ q # p
    BY <2>2 DEF CallBecomes, RunGoesOn
  <2>3. CASE x = s /\ h = g /\ q = p
    BY <2>3 DEF CallBecomes, RunGoesOn
  <2> QED BY <2>1, <2>2, <2>3
<1>3. SettledStay
  <2> SUFFICES ASSUME NEW x \in Sessions, NEW h \in 1 .. MaxGeneration, NEW q \in PhaseNames,
                      runs[x][h].call[q] \in {"ok", "bad"}
               PROVE  runs'[x][h].call[q] \in {"ok", "bad"}
    BY DEF SettledStay
  <2> QED BY <1>1 DEF CallBecomes
<1>4. ASSUME state # "inflight"
      PROVE  NoCallDispatched
  <2> SUFFICES ASSUME NEW x \in Sessions, NEW h \in 1 .. MaxGeneration, NEW q \in PhaseNames,
                      runs'[x][h].call[q] = "inflight"
               PROVE  runs[x][h].call[q] = "inflight"
    BY DEF NoCallDispatched
  <2> QED BY <1>1, <1>4 DEF CallBecomes
<1> QED BY <1>2, <1>3, <1>4

-----------------------------------------------------------------------------
(* Calls.                                                                  *)

LEMMA RefuseKeeps ==
    ASSUME RInv, Serving, SameProcess, NEW s \in Sessions, NEW g \in 1 .. MaxGeneration,
           IsRun(s, g), NEW p \in PhaseNames, RefuseCall(runs[s][g], p)
    PROVE  RInv' /\ FencesKept
<1> USE DEF RInv
<1>1. ProcessSame /\ turn = NULL
  BY DEF Serving, SameProcess, ProcessSame
<1>2. CallBecomes(s, g, p, "bad")
  <2>1. "bad" \in CallStates /\ SetCall(runs[s][g], p, "bad")
    BY DEF CallStates, RefuseCall
  <2> QED BY <2>1, CallSet DEF CallBecomes
<1>3. UNCHANGED <<ledgerTables, active, turn, failures, world>>
  BY DEF RefuseCall
<1>4. /\ ExecutionsKept /\ AdmissionsGrow /\ IdsKept /\ OpenKept /\ NoNewDoubt
      /\ NoOutcome /\ VerdictsKept /\ FencesKept
      /\ Tables' /\ AttemptsNamed' /\ UNCHANGED <<session, admissions, attempts>>
  BY <1>3, QuietEffects
<1>5. /\ RunsNarrowed /\ StopsKept
      /\ ExecutionsNumbered' /\ RunsNamed' /\ IdleWhenDown' /\ Registered' /\ TurnCurrent'
      /\ StopMarked'
  BY <1>1, <1>2, <1>3, <1>4, GoingOn DEF CallBecomes
<1>6. ProgressKept /\ SettledStay /\ NoCallDispatched
  BY <1>2, CallProgress DEF RefuseCall, CallStates
<1>7. UNCHANGED <<dispatched, lost, confirmed, told>>
  BY <1>3 DEF world
<1>8. Base'
  BY <1>1, <1>2, <1>3, <1>4, <1>7
  DEF Base, ReasoningTypeOK, RunsTyped, ProcessTyped, ProcessSame, CallBecomes, RunGoesOn
<1>9. DoubtCurrent /\ \A x \in Sessions : session[x].generation \in Nat
  BY <1>4, BoundAssumption DEF DoubtCurrent, NoNewDoubt, ExecutionsNumbered
<1>10. DispatchesRecorded'
  BY <1>4, <1>7, DispatchesKept
<1>11. InFlightKept'
  BY <1>4, <1>5, <1>6, NoneRecorded, InFlightStays
<1>12. FailuresSeen'
  BY <1>4, <1>5, <1>6, FailuresStay
<1>13. LostMarked'
  BY <1>4, <1>5, <1>6, <1>7, LostStays, LostSame
<1>14. AmbiguityConfirmed'
  BY <1>4, <1>7, <1>9, ConfirmedStays
<1>15. TellingsHold'
  BY <1>4, <1>7, TellingsStay
<1> QED BY <1>4, <1>5, <1>8, <1>10, <1>11, <1>12, <1>13, <1>14, <1>15

LEMMA DispatchKeeps ==
    ASSUME RInv, Serving, SameProcess, NEW s \in Sessions, NEW g \in 1 .. MaxGeneration,
           IsRun(s, g), NEW p \in PhaseNames, DispatchCall(runs[s][g], p)
    PROVE  RInv' /\ FencesKept
<1> USE DEF RInv
<1>1. ProcessSame /\ turn = NULL
  BY DEF Serving, SameProcess, ProcessSame
<1>2. CallBecomes(s, g, p, "inflight")
  <2>1. "inflight" \in CallStates /\ SetCall(runs[s][g], p, "inflight")
    BY DEF CallStates, DispatchCall
  <2> QED BY <2>1, CallSet DEF CallBecomes
<1>3. PICK t \in Token : t = runs[s][g].token
  BY RunTyped
<1>4. PICK m \in ClientMsgIds : m = runs[s][g].clientMsgId
  BY RunTyped DEF Run
<1>5. t.session = s /\ t.generation = g /\ t.generation > 0
  BY <1>3, BoundAssumption, RunTyped
<1>6. BeginProviderAttempt(t, <<t.executionId, p>>, TRUE)
  BY <1>3 DEF DispatchCall, BeginProviderAttempt
<1>7. /\ ExecutionsKept /\ AdmissionsGrow /\ IdsKept /\ OpenKept /\ NoNewDoubt
      /\ NoOutcome /\ VerdictsKept /\ FencesKept
      /\ Tables' /\ AttemptsNamed' /\ UNCHANGED <<session, admissions>>
      /\ \A r \in attempts[s] : r.providerAttemptId # <<t.executionId, p>>
      /\ \E row : /\ row.generation = g /\ row.executionId = t.executionId
                  /\ row.providerAttemptId = <<t.executionId, p>>
                  /\ row.phase = "RUNNING" /\ row.reason = NULL
                  /\ row \in attempts'[s]
  BY <1>5, <1>6, AttemptEffects
<1>8. /\ dispatched' = [dispatched EXCEPT ![s][<<m, p>>] = @ + 1]
      /\ UNCHANGED <<active, turn, failures, lost, confirmed, told>>
  BY <1>3, <1>4, <1>5 DEF DispatchCall
<1>9. /\ RunsNarrowed /\ StopsKept
      /\ ExecutionsNumbered' /\ RunsNamed' /\ IdleWhenDown' /\ Registered' /\ TurnCurrent'
      /\ StopMarked'
  BY <1>1, <1>2, <1>7, <1>8, GoingOn DEF CallBecomes
<1>10. ProgressKept /\ SettledStay
  BY <1>2, CallProgress DEF DispatchCall, CallStates
<1>11. dispatched \in [Sessions -> [ClientMsgIds \X PhaseNames -> Nat]]
  BY DEF Base, ReasoningTypeOK
<1>12. /\ dispatched' \in [Sessions -> [ClientMsgIds \X PhaseNames -> Nat]]
       /\ \A x \in Sessions, c \in ClientMsgIds \X PhaseNames :
             (x # s \/ c # <<m, p>>) => dispatched'[x][c] = dispatched[x][c]
       /\ dispatched'[s][<<m, p>>] = dispatched[s][<<m, p>>] + 1
  <2>1. <<m, p>> \in ClientMsgIds \X PhaseNames
    OBVIOUS
  <2>2. dispatched[s][<<m, p>>] + 1 \in Nat
    BY <1>11, <2>1
  <2> QED BY <1>8, <1>11, <2>1, <2>2
<1>13. Base'
  BY <1>1, <1>2, <1>7, <1>8, <1>12
  DEF Base, ReasoningTypeOK, RunsTyped, ProcessTyped, ProcessSame, CallBecomes, RunGoesOn
<1>14. PICK own \in admissions[s] : own.clientMsgId = m /\ own.token = t
  BY <1>3, <1>4 DEF RunsNamed
<1>15. dispatched[s][<<m, p>>] = 0
  <2> SUFFICES ASSUME dispatched[s][<<m, p>>] # 0
               PROVE  FALSE
    OBVIOUS
  <2>1. PICK r \in admissions[s] :
           /\ r.clientMsgId = m
           /\ \E a \in attempts[s] : a.providerAttemptId = <<r.token.executionId, p>>
    BY DEF DispatchesRecorded
  <2>2. r = own
    BY <1>14, <2>1 DEF Base, Tables, RepliesAdmitted
  <2> QED BY <1>7, <1>14, <2>1, <2>2
<1>16. DispatchesRecorded'
  <2> SUFFICES ASSUME NEW x \in Sessions, NEW n \in ClientMsgIds, NEW q \in PhaseNames
               PROVE  \/ dispatched'[x][<<n, q>>] = 0
                      \/ /\ dispatched'[x][<<n, q>>] = 1
                         /\ \E r \in admissions'[x] :
                               /\ r.clientMsgId = n
                               /\ \E a \in attempts'[x] :
                                     a.providerAttemptId = <<r.token.executionId, q>>
    BY DEF DispatchesRecorded
  <2>1. CASE x = s /\ n = m /\ q = p
    <3>1. dispatched'[s][<<m, p>>] = 1
      BY <1>12, <1>15
    <3>2. own \in admissions'[s]
      BY <1>7, <1>14
    <3>3. \E a \in attempts'[s] : a.providerAttemptId = <<own.token.executionId, p>>
      BY <1>7, <1>14
    <3> QED BY <1>14, <2>1, <3>1, <3>2, <3>3
  <2>2. CASE ~(x = s /\ n = m /\ q = p)
    <3>1. dispatched'[x][<<n, q>>] = dispatched[x][<<n, q>>]
      BY <1>12, <2>2
    <3>2. CASE dispatched[x][<<n, q>>] = 0
      BY <3>1, <3>2
    <3>3. CASE dispatched[x][<<n, q>>] # 0
      <4>1. PICK r \in admissions[x] :
               /\ r.clientMsgId = n
               /\ \E a \in attempts[x] : a.providerAttemptId = <<r.token.executionId, q>>
        BY <3>3 DEF DispatchesRecorded
      <4>2. \E a \in attempts'[x] : a.providerAttemptId = <<r.token.executionId, q>>
        BY <1>7, <4>1 DEF IdsKept
      <4>3. dispatched[x][<<n, q>>] = 1
        BY <3>3 DEF DispatchesRecorded
      <4> QED BY <1>7, <3>1, <4>1, <4>2, <4>3
    <3> QED BY <3>2, <3>3
  <2> QED BY <2>1, <2>2
<1>17. InFlightKept'
  <2>1. ASSUME NEW x \in Sessions, NEW h \in 1 .. MaxGeneration, NEW q \in PhaseNames,
               runs'[x][h].call[q] = "inflight", runs[x][h].call[q] # "inflight"
        PROVE  x = s /\ h = g /\ q = p
    BY <1>2, <2>1 DEF CallBecomes, RunGoesOn, OtherRunsSame
  <2>2. runs'[s][g].token = t
    BY <1>2, <1>3 DEF CallBecomes, RunGoesOn
  <2>3. CallsRecorded
    BY <1>7, <2>1, <2>2 DEF CallsRecorded
  <2> QED BY <1>7, <1>9, <2>3, InFlightStays
<1>18. FailuresSeen'
  BY <1>7, <1>9, <1>10, FailuresStay
<1>19. LostMarked'
  BY <1>7, <1>8, <1>9, <1>10, LostStays, LostSame
<1>20. AmbiguityConfirmed'
  <2>1. DoubtCurrent /\ \A x \in Sessions : session[x].generation \in Nat
    BY <1>7, BoundAssumption DEF DoubtCurrent, NoNewDoubt, ExecutionsNumbered
  <2> QED BY <1>7, <1>8, <2>1, ConfirmedStays
<1>21. TellingsHold'
  BY <1>7, <1>8, TellingsStay
<1> QED BY <1>7, <1>9, <1>13, <1>16, <1>17, <1>18, <1>19, <1>20, <1>21

\* What the settling of a call leaves as it was, whatever its result.
LEMMA Settling ==
    ASSUME RInv, Serving, SameProcess, NEW s \in Sessions, NEW g \in 1 .. MaxGeneration,
           IsRun(s, g), NEW p \in PhaseNames, runs[s][g].call[p] = "inflight",
           NEW state \in {"ok", "bad"}, SetCall(runs[s][g], p, state),
           UNCHANGED <<session, active, turn, dispatched, confirmed, told>>,
           failures' \in 0 .. MaxFailures, lost' \in [Sessions -> SUBSET (1 .. MaxGeneration)],
           AdmissionsGrow, IdsKept, NoOutcome, VerdictsKept, DoubtCurrent,
           Tables', AttemptsNamed'
    PROVE  /\ CallBecomes(s, g, p, state)
           /\ RunsNarrowed /\ ProgressKept /\ SettledStay /\ CallsRecorded
           /\ Base' /\ ExecutionsNumbered' /\ RunsNamed' /\ DispatchesRecorded' /\ IdleWhenDown'
           /\ Registered' /\ TurnCurrent' /\ StopMarked' /\ AmbiguityConfirmed' /\ TellingsHold'
<1> USE DEF RInv
<1>1. ProcessSame /\ turn = NULL
  BY DEF Serving, SameProcess, ProcessSame
<1>2. CallBecomes(s, g, p, state)
  <2>1. state \in CallStates
    BY DEF CallStates
  <2> QED BY <2>1, CallSet DEF CallBecomes
<1>3. /\ RunsNarrowed /\ StopsKept
      /\ ExecutionsNumbered' /\ RunsNamed' /\ IdleWhenDown' /\ Registered' /\ TurnCurrent'
      /\ StopMarked'
  BY <1>1, <1>2, GoingOn DEF CallBecomes
<1>4. ProgressKept /\ SettledStay /\ NoCallDispatched
  BY <1>2, CallProgress DEF CallStates
<1>5. Base'
  BY <1>1, <1>2
  DEF Base, ReasoningTypeOK, RunsTyped, ProcessTyped, ProcessSame, CallBecomes, RunGoesOn
<1>6. DispatchesRecorded'
  BY DispatchesKept
<1>7. ExecutionsKept /\ \A x \in Sessions : session[x].generation \in Nat
  BY BoundAssumption DEF ExecutionsKept, ExecutionsNumbered
<1>8. AmbiguityConfirmed'
  BY <1>7, ConfirmedStays
<1>9. TellingsHold'
  BY TellingsStay
<1> QED BY <1>2, <1>3, <1>4, <1>5, <1>6, <1>8, <1>9, NoneRecorded

\* The attempt of a call in flight.
CallOpen(s, g, p) ==
    \E r \in attempts[s] :
        /\ r.generation = g
        /\ r.providerAttemptId = <<runs[s][g].token.executionId, p>>
        /\ r.phase = "RUNNING" \/ r.reason = "ambiguous"

LEMMA CallInFlight ==
    ASSUME InFlightKept, NEW s \in Sessions, NEW g \in 1 .. MaxGeneration, NEW p \in PhaseNames,
           IsRun(s, g), runs[s][g].call[p] = "inflight"
    PROVE  CallOpen(s, g, p)
BY DEF InFlightKept, CallOpen

LEMMA SettleUnrecordedKeeps ==
    ASSUME RInv, Serving, SameProcess, NEW s \in Sessions, NEW g \in 1 .. MaxGeneration,
           IsRun(s, g), NEW p \in PhaseNames, SettleUnrecorded(runs[s][g], p)
    PROVE  RInv' /\ FencesKept
<1> USE DEF RInv
<1>1. /\ runs[s][g].call[p] = "inflight" /\ SetCall(runs[s][g], p, "bad")
      /\ failures < MaxFailures /\ failures' = failures + 1
      /\ UNCHANGED <<ledgerTables, active, turn, dispatched, confirmed, told>>
  BY DEF SettleUnrecorded
<1>2. lost' = [lost EXCEPT ![s] = @ \cup {g}]
  BY RunTyped DEF SettleUnrecorded
<1>3. /\ failures \in 0 .. MaxFailures /\ lost \in [Sessions -> SUBSET (1 .. MaxGeneration)]
      /\ MaxFailures \in Nat
  BY FailuresAssumption DEF Base, ReasoningTypeOK
<1>4. failures' \in 0 .. MaxFailures /\ lost' \in [Sessions -> SUBSET (1 .. MaxGeneration)]
  BY <1>1, <1>2, <1>3
<1>5. /\ ExecutionsKept /\ AdmissionsGrow /\ IdsKept /\ OpenKept /\ NoNewDoubt
      /\ NoOutcome /\ VerdictsKept /\ FencesKept
      /\ Tables' /\ AttemptsNamed' /\ UNCHANGED <<session, admissions, attempts>>
  BY <1>1, QuietEffects
<1>6. DoubtCurrent
  BY <1>5 DEF DoubtCurrent, NoNewDoubt
<1>7. /\ CallBecomes(s, g, p, "bad")
      /\ RunsNarrowed /\ ProgressKept /\ SettledStay /\ CallsRecorded
      /\ Base' /\ ExecutionsNumbered' /\ RunsNamed' /\ DispatchesRecorded' /\ IdleWhenDown'
      /\ Registered' /\ TurnCurrent' /\ StopMarked' /\ AmbiguityConfirmed' /\ TellingsHold'
  BY <1>1, <1>4, <1>5, <1>6, Settling
<1>8. InFlightKept'
  BY <1>5, <1>7, InFlightStays
<1>9. FailuresSeen'
  BY <1>5, <1>7, FailuresStay
<1>10. LostMarked'
  <2>1. PICK r \in attempts[s] :
           /\ r.generation = g
           /\ r.providerAttemptId = <<runs[s][g].token.executionId, p>>
           /\ r.phase = "RUNNING" \/ r.reason = "ambiguous"
    <3>1. CallOpen(s, g, p)
      BY <1>1, CallInFlight
    <3> QED BY <3>1 DEF CallOpen
  <2>2. \A q \in PhaseNames : r.providerAttemptId = <<r.executionId, q>> =>
            runs'[s][g].call[q] \in {"ok", "bad"}
    BY <1>7, <2>1 DEF CallBecomes
  <2>3. LostKept
    BY <1>5, <1>7, LostStays
  <2>4. r \in attempts'[s]
    BY <1>5, <2>1
  <2>5. \E w \in attempts'[s] :
           /\ w.generation = g
           /\ \/ w.reason = "ambiguous"
              \/ /\ w.phase = "RUNNING"
                 /\ IsRun(s, g)' => \A q \in PhaseNames :
                       w.providerAttemptId = <<w.executionId, q>> =>
                           runs'[s][g].call[q] \in {"ok", "bad"}
    <3> HIDE DEF RInv
    <3> QED BY <2>1, <2>2, <2>4
  <2>6. lost \in [Sessions -> SUBSET (1 .. MaxGeneration)]
    BY <1>3
  <2> HIDE DEF RInv
  <2> QED BY <1>2, <2>3, <2>5, <2>6, LostGrows
<1> QED BY <1>5, <1>7, <1>8, <1>9, <1>10

\* A call that settles takes its own attempt along, and no other.
LEMMA OthersInFlightStay ==
    ASSUME RInv, NEW x \in Sessions, NEW h \in 1 .. MaxGeneration, NEW q \in PhaseNames,
           NEW row, row.generation = h,
           row.providerAttemptId = <<runs[x][h].token.executionId, q>>,
           \A r \in attempts[x] : r = row \/ r \in attempts'[x],
           \A y \in Sessions \ {x} : attempts'[y] = attempts[y],
           CallBecomes(x, h, q, "ok"), RunsNarrowed
    PROVE  InFlightKept'
<1> SUFFICES ASSUME NEW s \in Sessions, NEW g \in 1 .. MaxGeneration, NEW p \in PhaseNames,
                    IsRun(s, g)', runs'[s][g].call[p] = "inflight"
             PROVE  \E r \in attempts'[s] :
                       /\ r.generation = g
                       /\ r.providerAttemptId = <<runs'[s][g].token.executionId, p>>
                       /\ r.phase = "RUNNING" \/ r.reason = "ambiguous"
  BY SMTT(40) DEF InFlightKept
<1>1. IsRun(s, g) /\ runs'[s][g].token = runs[s][g].token
  BY DEF RunsNarrowed
<1>2. runs[s][g].call[p] = "inflight" /\ ~(s = x /\ g = h /\ p = q)
  BY DEF CallBecomes, RunGoesOn, OtherRunsSame
<1>3. CallOpen(s, g, p)
  BY <1>1, <1>2, CallInFlight DEF RInv
<1>4. PICK r \in attempts[s] :
         /\ r.generation = g
         /\ r.providerAttemptId = <<runs[s][g].token.executionId, p>>
         /\ r.phase = "RUNNING" \/ r.reason = "ambiguous"
  BY <1>3 DEF CallOpen
<1>5. s # x \/ r # row
  BY <1>2, <1>4
<1>6. r \in attempts'[s]
  BY <1>4, <1>5
<1> QED BY <1>1, <1>4, <1>6

LEMMA SettleKeeps ==
    ASSUME RInv, Serving, SameProcess, NEW s \in Sessions, NEW g \in 1 .. MaxGeneration,
           IsRun(s, g), NEW p \in PhaseNames, NEW answered \in BOOLEAN,
           SettleCall(runs[s][g], p, answered)
    PROVE  RInv' /\ FencesKept
<1> USE DEF RInv
<1>1. PICK t \in Token : t = runs[s][g].token /\ t.session = s /\ t.generation = g
  BY RunTyped
<1>2. PICK reason \in {"completed", "ambiguous"} :
         reason = IF Usable(runs[s][g], answered) THEN "completed" ELSE "ambiguous"
  OBVIOUS
<1>3. PICK state \in {"ok", "bad"} : state = IF reason = "completed" THEN "ok" ELSE "bad"
  OBVIOUS
<1>4. /\ runs[s][g].call[p] = "inflight"
      /\ \/ \E row \in AttemptOfCall(runs[s][g], p) :
              /\ TransitionProviderAttempt(t, row, reason)
              /\ SetCall(runs[s][g], p, state)
         \/ /\ AttemptOfCall(runs[s][g], p) = {}
            /\ SetCall(runs[s][g], p, "bad")
            /\ UNCHANGED ledgerTables
      /\ UNCHANGED <<active, turn, failures, dispatched, confirmed, told>>
  BY <1>1, <1>2, <1>3 DEF SettleCall
<1>5. lost' = IF answered THEN lost ELSE [lost EXCEPT ![s] = @ \cup {g}]
  BY <1>1 DEF SettleCall
<1>6. reason = "completed" => answered
  BY <1>2 DEF Usable
<1>7. lost \in [Sessions -> SUBSET (1 .. MaxGeneration)] /\ failures \in 0 .. MaxFailures
  BY DEF Base, ReasoningTypeOK
<1>8. lost' \in [Sessions -> SUBSET (1 .. MaxGeneration)] /\ failures' \in 0 .. MaxFailures
  BY <1>4, <1>5, <1>7
\* A lost call is marked by an uncertain attempt of its execution.
<1>9. ASSUME LostKept, \E r \in attempts'[s] : r.generation = g /\ r.reason = "ambiguous"
      PROVE  LostMarked'
  <2>1. CASE answered
    BY <1>5, <1>9, <2>1, LostSame
  <2>2. CASE ~answered
    BY <1>5, <1>7, <1>9, <2>2, LostGrows
  <2> QED BY <2>1, <2>2
\* The attempt had been ended by a stop.
<1>10. CASE /\ AttemptOfCall(runs[s][g], p) = {}
            /\ SetCall(runs[s][g], p, "bad")
            /\ UNCHANGED ledgerTables
  <2>1. /\ ExecutionsKept /\ AdmissionsGrow /\ IdsKept /\ OpenKept /\ NoNewDoubt
        /\ NoOutcome /\ VerdictsKept /\ FencesKept
        /\ Tables' /\ AttemptsNamed' /\ UNCHANGED <<session, admissions, attempts>>
    BY <1>10, QuietEffects
  <2>2. DoubtCurrent
    BY <2>1 DEF DoubtCurrent, NoNewDoubt
  <2>3. /\ CallBecomes(s, g, p, "bad")
        /\ RunsNarrowed /\ ProgressKept /\ SettledStay /\ CallsRecorded
        /\ Base' /\ ExecutionsNumbered' /\ RunsNamed' /\ DispatchesRecorded' /\ IdleWhenDown'
        /\ Registered' /\ TurnCurrent' /\ StopMarked' /\ AmbiguityConfirmed' /\ TellingsHold'
    BY <1>4, <1>8, <1>10, <2>1, <2>2, Settling
  <2>4. InFlightKept' /\ FailuresSeen' /\ LostKept
    BY <2>1, <2>3, InFlightStays, FailuresStay, LostStays
  <2>5. CallOpen(s, g, p)
    BY <1>4, CallInFlight
  <2>6. PICK r \in attempts[s] :
           /\ r.generation = g /\ r.providerAttemptId = <<t.executionId, p>>
           /\ r.phase = "RUNNING" \/ r.reason = "ambiguous"
    BY <1>1, <2>5 DEF CallOpen
  <2>7. r.executionId = t.executionId
    BY <2>6 DEF AttemptsNamed
  <2>8. r.phase # "RUNNING"
    BY <1>1, <1>10, <2>6, <2>7 DEF AttemptOfCall, RunningAttempts, AttemptsOf
  <2>9. LostMarked'
    BY <1>9, <2>1, <2>4, <2>6, <2>8
  <2> QED BY <2>1, <2>3, <2>4, <2>9
\* The attempt ends with the call.
<1>11. ASSUME NEW row \in AttemptOfCall(runs[s][g], p),
              TransitionProviderAttempt(t, row, reason), SetCall(runs[s][g], p, state)
       PROVE  RInv' /\ FencesKept
  <2>1. row.providerAttemptId = <<t.executionId, p>> /\ row.executionId = t.executionId
    BY <1>1 DEF AttemptOfCall, RunningAttempts, AttemptsOf
  <2>2. /\ ExecutionsKept /\ AdmissionsGrow /\ IdsKept /\ NoOutcome /\ VerdictsKept
        /\ FencesKept
        /\ reason = "ambiguous" => OpenKept
        /\ reason = "completed" => NoNewDoubt
        /\ Tables' /\ AttemptsNamed' /\ UNCHANGED <<session, admissions>>
        /\ IsCurrent(t)
        /\ row \in attempts[s] /\ row.generation = g /\ row.phase = "RUNNING"
        /\ \A x \in Sessions \ {s} : attempts'[x] = attempts[x]
    BY <1>1, <1>11, EndEffects
  <2>3. PICK ended :
           /\ ended.generation = g /\ ended.executionId = t.executionId
           /\ ended.providerAttemptId = row.providerAttemptId
           /\ ended.phase = "TERMINAL" /\ ended.reason = reason
           /\ ended \in attempts'[s]
           /\ \A r \in attempts'[s] : r = ended \/ r \in attempts[s]
           /\ \A r \in attempts[s] : r = row \/ r \in attempts'[s]
    <3>1. AttemptReplaced(t, row, reason)
      BY <1>1, <1>11, EndEffects
    <3> QED BY <1>1, <3>1 DEF AttemptReplaced
  <2>4. g = session[s].generation
    BY <1>1, <2>2 DEF IsCurrent
  <2>5. DoubtCurrent
    BY <2>2, <2>3, <2>4 DEF DoubtCurrent
  <2>6. /\ CallBecomes(s, g, p, state)
        /\ RunsNarrowed /\ ProgressKept /\ SettledStay /\ CallsRecorded
        /\ Base' /\ ExecutionsNumbered' /\ RunsNamed' /\ DispatchesRecorded' /\ IdleWhenDown'
        /\ Registered' /\ TurnCurrent' /\ StopMarked' /\ AmbiguityConfirmed' /\ TellingsHold'
    BY <1>4, <1>8, <1>11, <2>2, <2>5, Settling
  <2>7. CASE reason = "ambiguous"
    <3>1. OpenKept
      BY <2>2, <2>7
    <3>2. InFlightKept' /\ LostKept
      BY <2>6, <3>1, InFlightStays, LostStays
    <3>3. LostMarked'
      BY <1>9, <2>3, <2>7, <3>2
    <3>4. runs'[s][g].call[p] = "bad"
      BY <1>3, <2>6, <2>7 DEF CallBecomes
    <3>5. DoubtFailed
      BY <2>1, <2>2, <2>3, <3>4 DEF DoubtFailed
    <3>6. FailuresSeen'
      BY <2>6, <3>5, FailuresStay
    <3> QED BY <2>2, <2>6, <3>2, <3>3, <3>6
  <2>8. CASE reason = "completed"
    <3>1. FailuresSeen'
      BY <2>2, <2>6, <2>8, FailuresStay
    <3>2. row.reason # "ambiguous"
      BY <2>2, NullAssumption, ReasoningReasonAssumption DEF AttemptsNamed
    <3>3. InFlightKept'
      <4>1. CallBecomes(s, g, p, "ok")
        BY <1>3, <2>6, <2>8
      <4>2. row.providerAttemptId = <<runs[s][g].token.executionId, p>>
        BY <1>1, <2>1
      <4> QED BY <2>2, <2>3, <2>6, <4>1, <4>2, OthersInFlightStay
    <3>4. LostKept
      <4> SUFFICES ASSUME NEW x \in Sessions, NEW h \in lost[x]
                   PROVE  \E r \in attempts'[x] :
                             /\ r.generation = h
                             /\ \/ r.reason = "ambiguous"
                                \/ /\ r.phase = "RUNNING"
                                   /\ (h \in 1 .. MaxGeneration /\ IsRun(x, h)') =>
                                         \A q \in PhaseNames :
                                            r.providerAttemptId = <<r.executionId, q>> =>
                                               runs'[x][h].call[q] \in {"ok", "bad"}
        BY DEF LostKept
      <4>1. PICK r \in attempts[x] :
               /\ r.generation = h
               /\ \/ r.reason = "ambiguous"
                  \/ /\ r.phase = "RUNNING"
                     /\ (h \in 1 .. MaxGeneration /\ IsRun(x, h)) => \A q \in PhaseNames :
                           r.providerAttemptId = <<r.executionId, q>> =>
                               runs[x][h].call[q] \in {"ok", "bad"}
        BY DEF LostMarked
      <4>2. x # s \/ r # row
        BY <1>4, <2>1, <2>2, <3>2, <4>1
      <4>3. r \in attempts'[x]
        BY <2>2, <2>3, <4>1, <4>2
      <4> QED BY <2>6, <4>1, <4>3 DEF RunsNarrowed, SettledStay
    <3>5. LostMarked'
      BY <1>5, <1>6, <2>8, <3>4, LostSame
    <3> QED BY <2>2, <2>6, <3>1, <3>3, <3>5
  <2> QED BY <2>7, <2>8
<1> QED BY <1>4, <1>10, <1>11

-----------------------------------------------------------------------------
(* Progress of a run.                                                      *)

\* A run moves on to a stage.
LEMMA StageSet ==
    ASSUME Base, RunsNamed, NEW s \in Sessions, NEW g \in 1 .. MaxGeneration, IsRun(s, g),
           NEW next \in 0 .. LastStage, runs' = [runs EXCEPT ![s][g].stage = next]
    PROVE  /\ RunGoesOn(s, g)
           /\ runs'[s][g].stage = next /\ runs'[s][g].call = runs[s][g].call
<1>1. PICK run \in Run : run = runs[s][g]
  BY RunTyped
<1>2. PICK v : v = [run EXCEPT !.stage = next]
  OBVIOUS
<1>3. /\ v \in Run /\ v.token = run.token /\ v.clientMsgId = run.clientMsgId
      /\ v.stage = next /\ v.aborted = run.aborted /\ v.call = run.call
  BY <1>1, <1>2 DEF Run
<1>4. runs \in [Sessions -> [1 .. MaxGeneration -> Run \cup {NULL}]]
  BY DEF Base, ReasoningTypeOK
<1>5. runs' = [runs EXCEPT ![s][g] = v]
  BY <1>1, <1>2, <1>4
<1>6. v \in Run \cup {NULL} /\ v # NULL
  BY <1>3, AbsentAssumption
<1>7. RunsTyped' /\ OtherRunsSame(s, g) /\ runs'[s][g] = v
  BY <1>5, <1>6, RunReplaced
<1> QED BY <1>1, <1>3, <1>6, <1>7 DEF RunGoesOn, IsRun

LEMMA AdvanceKeeps ==
    ASSUME RInv, Serving, SameProcess, NEW s \in Sessions, NEW g \in 1 .. MaxGeneration,
           IsRun(s, g), AdvanceStage(runs[s][g])
    PROVE  RInv' /\ FencesKept
<1> USE DEF RInv
<1>1. ProcessSame /\ turn = NULL
  BY DEF Serving, SameProcess, ProcessSame
<1>2. PICK next \in NextStages[runs[s][g].stage] :
         runs' = [runs EXCEPT ![runs[s][g].token.session][runs[s][g].token.generation].stage = next]
  BY DEF AdvanceStage
<1>3. next \in 0 .. LastStage
  <2>1. PICK i \in DOMAIN Stages : i = runs[s][g].stage
    BY DEF AdvanceStage, StageSettled
  <2>2. next \in i + 1 .. LastStage
    BY <2>1, StageAssumption
  <2>3. i \in Nat /\ LastStage \in Nat
    BY StageAssumption DEF LastStage
  <2> QED BY <2>2, <2>3
<1>4. runs' = [runs EXCEPT ![s][g].stage = next]
  BY <1>2, RunTyped
<1>5. RunGoesOn(s, g) /\ runs'[s][g].call = runs[s][g].call
  BY <1>3, <1>4, StageSet
<1>6. UNCHANGED <<ledgerTables, active, turn, failures, world>>
  BY DEF AdvanceStage
<1>7. /\ ExecutionsKept /\ AdmissionsGrow /\ IdsKept /\ OpenKept /\ NoNewDoubt
      /\ NoOutcome /\ VerdictsKept /\ FencesKept
      /\ Tables' /\ AttemptsNamed' /\ UNCHANGED <<session, admissions, attempts>>
  BY <1>6, QuietEffects
<1>8. UNCHANGED <<dispatched, lost, confirmed, told>>
  BY <1>6 DEF world
<1>9. /\ RunsNarrowed /\ StopsKept
      /\ ExecutionsNumbered' /\ RunsNamed' /\ IdleWhenDown' /\ Registered' /\ TurnCurrent'
      /\ StopMarked'
  BY <1>1, <1>5, <1>6, <1>7, GoingOn
<1>10. \A x \in Sessions, h \in 1 .. MaxGeneration : runs'[x][h].call = runs[x][h].call
  BY <1>5 DEF RunGoesOn, OtherRunsSame
<1>11. NoCallDispatched /\ SettledStay
  BY <1>10 DEF NoCallDispatched, SettledStay
<1>12. Base'
  BY <1>1, <1>5, <1>6, <1>7, <1>8
  DEF Base, ReasoningTypeOK, RunsTyped, ProcessTyped, ProcessSame, RunGoesOn
<1>13. DispatchesRecorded' /\ InFlightKept' /\ LostMarked' /\ TellingsHold'
  BY <1>7, <1>8, <1>9, <1>11, DispatchesKept, NoneRecorded, InFlightStays, LostStays, LostSame,
     TellingsStay
<1>14. AmbiguityConfirmed'
  <2>1. DoubtCurrent /\ \A x \in Sessions : session[x].generation \in Nat
    BY <1>7, BoundAssumption DEF DoubtCurrent, NoNewDoubt, ExecutionsNumbered
  <2> QED BY <1>7, <1>8, <2>1, ConfirmedStays
\* No call of the run failed or is in flight: it would be of the settled stage.
<1>15. \A p \in PhaseNames : runs[s][g].call[p] \notin {"inflight", "bad"}
  BY DEF AdvanceStage, StageSettled, StageFailed, FailuresSeen
<1>16. FailuresSeen'
  <2> SUFFICES ASSUME NEW x \in Sessions, NEW h \in 1 .. MaxGeneration, IsRun(x, h)'
               PROVE  /\ ~runs'[x][h].aborted => \A r \in attempts[x] :
                            (r.generation = h /\ r.reason = "ambiguous") =>
                                \E p \in PhaseNames :
                                   /\ r.providerAttemptId = <<r.executionId, p>>
                                   /\ runs'[x][h].call[p] = "bad"
                      /\ \A p \in PhaseNames : runs'[x][h].call[p] \in {"inflight", "bad"} =>
                            /\ runs'[x][h].stage \in DOMAIN Stages
                            /\ p \in Stages[runs'[x][h].stage]
    BY <1>7 DEF FailuresSeen
  <2>1. IsRun(x, h) /\ runs'[x][h].aborted = runs[x][h].aborted
    BY <1>9 DEF RunsNarrowed, StopsKept
  <2>2. ~runs[x][h].aborted => \A r \in attempts[x] :
            (r.generation = h /\ r.reason = "ambiguous") =>
                \E p \in PhaseNames : /\ r.providerAttemptId = <<r.executionId, p>>
                                      /\ runs[x][h].call[p] = "bad"
    BY <2>1 DEF FailuresSeen
  <2>3. CASE x = s /\ h = g
    BY <1>10, <1>15, <2>1, <2>2, <2>3
  <2>4. CASE x # s \/ h # g
    <3>1. runs'[x][h] = runs[x][h]
      BY <1>5, <2>4 DEF RunGoesOn, OtherRunsSame
    <3> QED BY <2>1, <2>2, <3>1 DEF FailuresSeen
  <2> QED BY <2>3, <2>4
<1> QED BY <1>7, <1>9, <1>12, <1>13, <1>14, <1>16

-----------------------------------------------------------------------------
(* The end of a run.                                                       *)

\* A step that dispatches nothing, loses nothing and makes nothing uncertain.
LEMMA Narrowing ==
    ASSUME RInv, RunsNarrowed, ProgressKept, NoCallDispatched, SettledStay,
           ExecutionsKept, AdmissionsGrow, IdsKept, OpenKept, NoNewDoubt,
           UNCHANGED <<dispatched, lost, confirmed>>
    PROVE  /\ DispatchesRecorded' /\ InFlightKept' /\ FailuresSeen' /\ LostMarked'
           /\ AmbiguityConfirmed'
<1>1. DispatchesRecorded'
  BY DispatchesKept DEF RInv
<1>2. InFlightKept'
  BY NoneRecorded, InFlightStays DEF RInv
<1>3. FailuresSeen'
  BY FailuresStay DEF RInv
<1>4. LostMarked'
  BY LostStays, LostSame DEF RInv
<1>5. DoubtCurrent /\ \A x \in Sessions : session[x].generation \in Nat
  BY BoundAssumption DEF DoubtCurrent, NoNewDoubt, ExecutionsNumbered, RInv
<1>6. AmbiguityConfirmed'
  BY <1>5, ConfirmedStays DEF RInv
<1> QED BY <1>1, <1>2, <1>3, <1>4, <1>6

\* What is told of a command is true of its execution.
LEMMA TellingGrows ==
    ASSUME RInv, VerdictsKept, AdmissionsGrow, NEW x \in Sessions, NEW n \in ClientMsgIds,
           NEW status \in Statuses, Tell(x, n, status),
           NEW own, own \in admissions'[x], own.clientMsgId = n,
           status = "completed" => Outcome(own.token)' = "completed",
           status \notin {"running", "completed"} => Doomed(own.token)'
    PROVE  /\ TellingsHold'
           /\ told' \in [Sessions -> [ClientMsgIds -> SUBSET Statuses]]
<1>1. told \in [Sessions -> [ClientMsgIds -> SUBSET Statuses]]
  BY DEF RInv, Base, ReasoningTypeOK
<1>2. told' = [told EXCEPT ![x][n] = @ \cup {status}]
  BY DEF Tell
<1>3. /\ told'[x][n] = told[x][n] \cup {status}
      /\ \A s \in Sessions, m \in ClientMsgIds : (s # x \/ m # n) => told'[s][m] = told[s][m]
  BY <1>1, <1>2
<1>4. told' \in [Sessions -> [ClientMsgIds -> SUBSET Statuses]]
  BY <1>1, <1>2
<1>5. \A s \in Sessions : \A r \in admissions[s] : r.token \in Token /\ r \in admissions'[s]
  BY DEF RInv, Base, Tables, TablesTyped, AdmissionRow, AdmissionsGrow
<1>6. ASSUME NEW s \in Sessions, NEW m \in ClientMsgIds, "completed" \in told[s][m]
      PROVE  \E r \in admissions'[s] : r.clientMsgId = m /\ Outcome(r.token)' = "completed"
  <2>1. PICK r \in admissions[s] : r.clientMsgId = m /\ Outcome(r.token) = "completed"
    BY <1>6 DEF RInv, TellingsHold
  <2>2. Outcome(r.token)' = "completed"
    BY <1>5, <2>1 DEF VerdictsKept
  <2> QED BY <1>5, <2>1, <2>2
<1>7. ASSUME NEW s \in Sessions, NEW m \in ClientMsgIds,
             ~(told[s][m] \subseteq {"running", "completed"})
      PROVE  \E r \in admissions'[s] : r.clientMsgId = m /\ Doomed(r.token)'
  <2>1. PICK r \in admissions[s] : r.clientMsgId = m /\ Doomed(r.token)
    BY <1>7 DEF RInv, TellingsHold
  <2>2. Doomed(r.token)'
    BY <1>5, <2>1 DEF VerdictsKept
  <2> QED BY <1>5, <2>1, <2>2
<1>8. ASSUME NEW s \in Sessions, NEW m \in ClientMsgIds
      PROVE  /\ "completed" \in told'[s][m] =>
                   \E r \in admissions'[s] : r.clientMsgId = m /\ Outcome(r.token)' = "completed"
             /\ ~(told'[s][m] \subseteq {"running", "completed"}) =>
                   \E r \in admissions'[s] : r.clientMsgId = m /\ Doomed(r.token)'
  <2>1. CASE s # x \/ m # n
    <3>1. told'[s][m] = told[s][m]
      BY <1>3, <2>1
    <3> QED BY <1>6, <1>7, <3>1
  <2>2. CASE s = x /\ m = n
    <3>1. ASSUME "completed" \in told'[s][m]
          PROVE  \E r \in admissions'[s] : r.clientMsgId = m /\ Outcome(r.token)' = "completed"
      <4>1. CASE status = "completed"
        BY <2>2, <4>1
      <4>2. CASE "completed" \in told[s][m]
        BY <1>6, <4>2
      <4> QED BY <1>3, <2>2, <3>1, <4>1, <4>2
    <3>2. ASSUME ~(told'[s][m] \subseteq {"running", "completed"})
          PROVE  \E r \in admissions'[s] : r.clientMsgId = m /\ Doomed(r.token)'
      <4>1. CASE status \notin {"running", "completed"}
        BY <2>2, <4>1
      <4>2. CASE ~(told[s][m] \subseteq {"running", "completed"})
        BY <1>7, <4>2
      <4> QED BY <1>3, <2>2, <3>2, <4>1, <4>2
    <3> QED BY <3>1, <3>2
  <2> QED BY <2>1, <2>2
<1> QED BY <1>4, <1>8 DEF TellingsHold

\* An outcome that is neither "running" nor "completed" excludes completion.
LEMMA OutcomeDoomed ==
    ASSUME AttemptsNamed, NEW t \in Token, Outcome(t) \notin {"running", "completed"}
    PROVE  Doomed(t)
<1>1. NULL \notin {"server_restart", "completed", "stopped"}
  BY NullAssumption, ReasoningReasonAssumption
<1>2. \A r \in AttemptsOf(t) : r.reason # "server_restart"
  BY <1>1 DEF AttemptsNamed, AttemptsOf, Token
<1>3. CASE TerminalReason(t) \in {NULL, "completed"}
  <2>1. \E r \in AttemptsOf(t) : r.reason = "ambiguous"
    BY <1>1, <1>2, <1>3 DEF Outcome
  <2> QED BY <2>1 DEF Doomed
<1> QED BY <1>3 DEF Doomed

\* The step that ends a run and its registration.
LEMMA RunRemoved ==
    ASSUME Base, RunsNamed, NEW s \in Sessions, NEW g \in 1 .. MaxGeneration, IsRun(s, g),
           runs' = [runs EXCEPT ![runs[s][g].token.session][runs[s][g].token.generation] = NULL]
    PROVE  RunEnds(s, g)
<1>1. runs' = [runs EXCEPT ![s][g] = NULL]
  BY RunTyped
<1> QED BY <1>1, RunReplaced DEF RunEnds

\* A run that nobody stopped is the running execution of its session.
LEMMA UnstoppedRun ==
    ASSUME RInv, NEW s \in Sessions, NEW g \in 1 .. MaxGeneration, IsRun(s, g),
           ~runs[s][g].aborted, NEW t \in Token, t = runs[s][g].token
    PROVE  /\ g = session[s].generation /\ session[s].phase = "RUNNING"
           /\ IsCurrent(t) /\ t.session = s /\ TerminalReason(t) = NULL
           /\ runs[s][g].stage = LastStage => ~Doomed(t)
<1>1. g = session[s].generation /\ session[s].phase = "RUNNING"
  BY DEF RInv, StopMarked
<1>2. IsCurrent(t) /\ t.session = s /\ t.generation = g
  BY <1>1, RunTyped DEF RInv
<1>3. TerminalReason(t) = NULL
  BY <1>1, <1>2, LiveWithoutOutcome DEF RInv
<1>4. ASSUME runs[s][g].stage = LastStage
      PROVE  ~Doomed(t)
  <2>1. LastStage \notin DOMAIN Stages
    BY StageAssumption DEF LastStage
  <2>2. \A p \in PhaseNames : runs[s][g].call[p] # "bad"
    BY <1>4, <2>1 DEF RInv, FailuresSeen
  <2>3. \A r \in AttemptsOf(t) : r.reason # "ambiguous"
    BY <1>2, <2>2 DEF RInv, FailuresSeen, AttemptsOf
  <2> QED BY <1>1, <1>2, <1>3, <2>3 DEF Doomed
<1> QED BY <1>1, <1>2, <1>3, <1>4

\* The admission of a run's command.
LEMMA OwnAdmission ==
    ASSUME RunsNamed, NEW s \in Sessions, NEW g \in 1 .. MaxGeneration, IsRun(s, g)
    PROVE  \E r \in admissions[s] :
               r.clientMsgId = runs[s][g].clientMsgId /\ r.token = runs[s][g].token
BY DEF RunsNamed

LEMMA CompleteKeeps ==
    ASSUME RInv, Serving, SameProcess, NEW s \in Sessions, NEW g \in 1 .. MaxGeneration,
           IsRun(s, g), CompleteRun(runs[s][g])
    PROVE  RInv' /\ FencesKept
<1> USE DEF RInv
<1>1. ProcessSame /\ turn = NULL
  BY DEF Serving, SameProcess, ProcessSame
<1>2. PICK t \in Token : t = runs[s][g].token /\ t.session = s /\ t.generation = g
  BY RunTyped
<1>3. PICK m \in ClientMsgIds : m = runs[s][g].clientMsgId
  BY RunTyped DEF Run
<1>4. /\ TransitionExecution(t, "TERMINAL", "completed")
      /\ Unregister(runs[s][g].token)
      /\ Tell(s, m, "completed")
      /\ UNCHANGED <<turn, dispatched, lost, confirmed, failures>>
  BY <1>2, <1>3 DEF CompleteRun, EndRun
<1>5. /\ g = session[s].generation /\ session[s].phase = "RUNNING" /\ ~Doomed(t)
  BY <1>2, UnstoppedRun DEF CompleteRun
<1>6. /\ ExecutionsKept /\ AdmissionsGrow /\ IdsKept /\ OpenKept /\ NoNewDoubt
      /\ VerdictsKept /\ FencesKept /\ Tables' /\ AttemptsNamed'
      /\ UNCHANGED <<admissions, attempts>>
      /\ TerminalReason(t)' = "completed"
      /\ \A x \in Token \ {t} : TerminalReason(x)' = TerminalReason(x)
      /\ \A x \in Sessions \ {s} : session'[x] = session[x]
      /\ session'[s].phase = "TERMINAL"
  BY <1>2, <1>4, <1>5, ReasoningReasonAssumption, TransitionEffects
<1>7. RunEnds(s, g)
  BY RunRemoved DEF CompleteRun, EndRun
<1>8. ~Live(s)'
  BY <1>6 DEF Live, ActivePhases
<1>9. /\ RunsNarrowed /\ ProgressKept /\ NoCallDispatched /\ SettledStay
      /\ ExecutionsNumbered' /\ RunsNamed' /\ IdleWhenDown' /\ Registered' /\ TurnCurrent'
      /\ StopMarked' /\ active' \in [Sessions -> Token \cup {NULL}]
  BY <1>1, <1>2, <1>4, <1>5, <1>6, <1>7, <1>8, Ending
<1>10. /\ DispatchesRecorded' /\ InFlightKept' /\ FailuresSeen' /\ LostMarked'
       /\ AmbiguityConfirmed'
  BY <1>4, <1>6, <1>9, Narrowing
<1>11. PICK own \in admissions[s] : own.clientMsgId = m /\ own.token = t
  BY <1>2, <1>3, OwnAdmission
<1>12. Outcome(t)' = "completed"
  <2>1. \A r \in AttemptsOf(t)' : r \in AttemptsOf(t)
    BY <1>6 DEF AttemptsOf
  <2>2. \A r \in AttemptsOf(t) : r.reason # "ambiguous"
    BY <1>5 DEF Doomed
  <2>3. \A r \in AttemptsOf(t) : r.reason # "server_restart"
    BY <1>2, NullAssumption, ReasoningReasonAssumption DEF AttemptsNamed, AttemptsOf
  <2> QED BY <1>6, <2>1, <2>2, <2>3, OutcomeRead
<1>13. own \in admissions'[s] /\ Outcome(own.token)' = "completed"
  BY <1>6, <1>11, <1>12
<1>14. TellingsHold' /\ told' \in [Sessions -> [ClientMsgIds -> SUBSET Statuses]]
  <2>1. "completed" \in Statuses
    BY DEF Statuses
  <2> QED BY <1>4, <1>6, <1>11, <1>13, <2>1, TellingGrows
<1>15. Base'
  BY <1>1, <1>4, <1>6, <1>7, <1>9, <1>14
  DEF Base, ReasoningTypeOK, RunsTyped, ProcessTyped, ProcessSame, RunEnds
<1> QED BY <1>6, <1>9, <1>10, <1>14, <1>15

LEMMA FailKeeps ==
    ASSUME RInv, Serving, SameProcess, NEW s \in Sessions, NEW g \in 1 .. MaxGeneration,
           IsRun(s, g), NEW run, run = runs[s][g], FailRun(run)
    PROVE  RInv' /\ FencesKept
<1> USE DEF RInv
<1>1. ProcessSame /\ turn = NULL
  BY DEF Serving, SameProcess, ProcessSame
<1>2. PICK t \in Token : t = runs[s][g].token /\ t.session = s /\ t.generation = g
  BY RunTyped
<1>3. PICK m \in ClientMsgIds : m = runs[s][g].clientMsgId
  BY RunTyped DEF Run
<1>4. PICK reason \in {"startup_failed", "failed"} :
         TransitionExecution(t, "TERMINAL", reason)
  BY <1>2 DEF FailRun
<1>5. PICK status : status = Outcome(t)'
  OBVIOUS
<1>6. /\ Unregister(runs[s][g].token)
      /\ Tell(s, m, status)
      /\ UNCHANGED <<turn, dispatched, lost, confirmed>>
  <2>1. run.token = t /\ run.clientMsgId = m
    BY <1>2, <1>3
  <2> QED BY <1>2, <1>5, <2>1 DEF FailRun, EndRun
<1>7. g = session[s].generation /\ session[s].phase = "RUNNING"
  BY <1>2, UnstoppedRun DEF FailRun
<1>8. reason \in ExecutionReasons /\ reason # "completed" /\ reason # NULL
  BY NullAssumption, ReasoningReasonAssumption
<1>9. /\ ExecutionsKept /\ AdmissionsGrow /\ IdsKept /\ OpenKept /\ NoNewDoubt
      /\ VerdictsKept /\ FencesKept /\ Tables' /\ AttemptsNamed'
      /\ UNCHANGED <<admissions, attempts>>
      /\ TerminalReason(t)' = reason
      /\ \A x \in Token \ {t} : TerminalReason(x)' = TerminalReason(x)
      /\ \A x \in Sessions \ {s} : session'[x] = session[x]
      /\ session'[s].phase = "TERMINAL"
  BY <1>2, <1>4, <1>8, TransitionEffects
<1>10. RunEnds(s, g)
  BY RunRemoved DEF FailRun, EndRun
<1>11. ~Live(s)'
  BY <1>9 DEF Live, ActivePhases
<1>12. /\ RunsNarrowed /\ ProgressKept /\ NoCallDispatched /\ SettledStay
       /\ ExecutionsNumbered' /\ RunsNamed' /\ IdleWhenDown' /\ Registered' /\ TurnCurrent'
       /\ StopMarked' /\ active' \in [Sessions -> Token \cup {NULL}]
  BY <1>1, <1>2, <1>6, <1>7, <1>9, <1>10, <1>11, Ending
<1>13. /\ DispatchesRecorded' /\ InFlightKept' /\ FailuresSeen' /\ LostMarked'
       /\ AmbiguityConfirmed'
  BY <1>6, <1>9, <1>12, Narrowing
<1>14. PICK own \in admissions[s] : own.clientMsgId = m /\ own.token = t
  BY <1>2, <1>3, OwnAdmission
<1>15. Doomed(t)' /\ status # "completed"
  <2>1. TerminalReason(t)' \notin {NULL, "completed"}
    BY <1>8, <1>9
  <2> QED BY <1>5, <2>1, OutcomeRead DEF Doomed
<1>16. own \in admissions'[s] /\ Doomed(own.token)'
  BY <1>9, <1>14, <1>15
<1>17. TellingsHold' /\ told' \in [Sessions -> [ClientMsgIds -> SUBSET Statuses]]
  <2>1. status \in Statuses
    BY <1>5, OutcomeRead
  <2> QED BY <1>6, <1>9, <1>14, <1>15, <1>16, <2>1, TellingGrows
<1>18. failures' \in 0 .. MaxFailures
  <2>1. failures \in 0 .. MaxFailures /\ MaxFailures \in Nat
    BY FailuresAssumption DEF Base, ReasoningTypeOK
  <2>2. UNCHANGED failures \/ (failures < MaxFailures /\ failures' = failures + 1)
    BY DEF FailRun
  <2> QED BY <2>1, <2>2
<1>19. Base'
  BY <1>1, <1>6, <1>9, <1>10, <1>12, <1>17, <1>18
  DEF Base, ReasoningTypeOK, RunsTyped, ProcessTyped, ProcessSame, RunEnds
<1> QED BY <1>9, <1>12, <1>13, <1>17, <1>19

LEMMA CancelledKeeps ==
    ASSUME RInv, Serving, SameProcess, NEW s \in Sessions, NEW g \in 1 .. MaxGeneration,
           IsRun(s, g), CancelledRunEnds(runs[s][g])
    PROVE  RInv' /\ FencesKept
<1> USE DEF RInv
<1>1. ProcessSame /\ turn = NULL
  BY DEF Serving, SameProcess, ProcessSame
<1>2. PICK t \in Token : /\ t = runs[s][g].token /\ t.session = s /\ t.generation = g
                         /\ g = session[s].generation => IsCurrent(t)
  BY RunTyped
<1>3. PICK m \in ClientMsgIds : m = runs[s][g].clientMsgId
  BY RunTyped DEF Run
<1>4. /\ Unregister(runs[s][g].token)
      /\ Tell(s, m, "cancelled")
      /\ UNCHANGED <<ledgerTables, turn, dispatched, lost, confirmed, failures>>
  BY <1>2, <1>3 DEF CancelledRunEnds, EndRun
<1>5. Doomed(t)
  BY <1>2 DEF StopMarked, CancelledRunEnds, Doomed
<1>6. /\ ExecutionsKept /\ AdmissionsGrow /\ IdsKept /\ OpenKept /\ NoNewDoubt
      /\ NoOutcome /\ VerdictsKept /\ FencesKept
      /\ Tables' /\ AttemptsNamed' /\ UNCHANGED <<session, admissions, attempts>>
  BY <1>4, QuietEffects
<1>7. RunEnds(s, g)
  BY RunRemoved DEF CancelledRunEnds, EndRun
<1>8. Live(s)' => Live(s)
  BY <1>6 DEF Live
<1>9. /\ RunsNarrowed /\ ProgressKept /\ NoCallDispatched /\ SettledStay
      /\ ExecutionsNumbered' /\ RunsNamed' /\ IdleWhenDown' /\ Registered' /\ TurnCurrent'
      /\ StopMarked' /\ active' \in [Sessions -> Token \cup {NULL}]
  BY <1>1, <1>4, <1>6, <1>7, <1>8, Ending
<1>10. /\ DispatchesRecorded' /\ InFlightKept' /\ FailuresSeen' /\ LostMarked'
       /\ AmbiguityConfirmed'
  BY <1>4, <1>6, <1>9, Narrowing
<1>11. PICK own \in admissions[s] : own.clientMsgId = m /\ own.token = t
  BY <1>2, <1>3, OwnAdmission
<1>12. own \in admissions'[s] /\ Doomed(own.token)'
  BY <1>2, <1>5, <1>6, <1>11 DEF VerdictsKept
<1>13. TellingsHold' /\ told' \in [Sessions -> [ClientMsgIds -> SUBSET Statuses]]
  <2>1. "cancelled" \in Statuses
    BY DEF Statuses
  <2> QED BY <1>4, <1>6, <1>11, <1>12, <2>1, TellingGrows
<1>14. Base'
  BY <1>1, <1>4, <1>6, <1>7, <1>9, <1>13
  DEF Base, ReasoningTypeOK, RunsTyped, ProcessTyped, ProcessSame, RunEnds
<1> QED BY <1>6, <1>9, <1>10, <1>13, <1>14

LEMMA ThrowKeeps ==
    ASSUME RInv, Serving, SameProcess, NEW s \in Sessions, NEW g \in 1 .. MaxGeneration,
           IsRun(s, g), RunThrows(runs[s][g])
    PROVE  RInv' /\ FencesKept
<1> USE DEF RInv
<1>1. ProcessSame /\ turn = NULL
  BY DEF Serving, SameProcess, ProcessSame
<1>2. Unregister(runs[s][g].token) /\ UNCHANGED <<ledgerTables, turn, world>>
  BY DEF RunThrows
<1>3. UNCHANGED <<dispatched, lost, confirmed, told>>
  BY <1>2 DEF world
<1>4. failures' \in 0 .. MaxFailures
  <2>1. failures \in 0 .. MaxFailures /\ MaxFailures \in Nat
    BY FailuresAssumption DEF Base, ReasoningTypeOK
  <2>2. CASE RunningAttempts(runs[s][g].token) # {}
    BY <2>1, <2>2 DEF RunThrows
  <2>3. CASE RunningAttempts(runs[s][g].token) = {}
    BY <2>1, <2>3 DEF RunThrows
  <2> QED BY <2>2, <2>3
<1>5. /\ ExecutionsKept /\ AdmissionsGrow /\ IdsKept /\ OpenKept /\ NoNewDoubt
      /\ NoOutcome /\ VerdictsKept /\ FencesKept
      /\ Tables' /\ AttemptsNamed' /\ UNCHANGED <<session, admissions, attempts>>
  BY <1>2, QuietEffects
<1>6. RunEnds(s, g)
  BY RunRemoved DEF RunThrows
<1>7. Live(s)' => Live(s)
  BY <1>5 DEF Live
<1>8. /\ RunsNarrowed /\ ProgressKept /\ NoCallDispatched /\ SettledStay
      /\ ExecutionsNumbered' /\ RunsNamed' /\ IdleWhenDown' /\ Registered' /\ TurnCurrent'
      /\ StopMarked' /\ active' \in [Sessions -> Token \cup {NULL}]
  BY <1>1, <1>2, <1>5, <1>6, <1>7, Ending
<1>9. /\ DispatchesRecorded' /\ InFlightKept' /\ FailuresSeen' /\ LostMarked'
      /\ AmbiguityConfirmed'
  BY <1>3, <1>5, <1>8, Narrowing
<1>10. TellingsHold'
  BY <1>3, <1>5, TellingsStay
<1>11. Base'
  BY <1>1, <1>2, <1>3, <1>4, <1>5, <1>6, <1>8
  DEF Base, ReasoningTypeOK, RunsTyped, ProcessTyped, ProcessSame, RunEnds
<1> QED BY <1>5, <1>8, <1>9, <1>10, <1>11

-----------------------------------------------------------------------------
(* Admission.                                                              *)

\* A step that leaves the process as it was, but for a stop that is given up.
LEMMA Resting ==
    ASSUME RInv, UNCHANGED <<session, runs, active, server, orphans>>,
           turn' = turn \/ (turn' = NULL /\ turn.kind = "cancel"),
           NoOutcome, AdmissionsGrow
    PROVE  /\ RunsNarrowed /\ ProgressKept /\ NoCallDispatched /\ SettledStay
           /\ ExecutionsNumbered' /\ RunsNamed' /\ IdleWhenDown' /\ Registered' /\ TurnCurrent'
           /\ StopMarked'
<1> USE DEF RInv
<1>1. \A x \in Sessions, h \in 1 .. MaxGeneration : IsRun(x, h)' <=> IsRun(x, h)
  BY DEF IsRun
<1>2. RunsNarrowed /\ StopsKept /\ ProgressKept /\ NoCallDispatched /\ SettledStay
  BY <1>1 DEF RunsNarrowed, StopsKept, ProgressKept, NoCallDispatched, SettledStay
<1>3. ExecutionsKept
  BY DEF ExecutionsKept
<1>4. ExecutionsNumbered'
  BY DEF ExecutionsNumbered
<1>5. RunsNamed'
  BY <1>2, <1>3, RunsNamedKept
<1>6. IdleWhenDown'
  BY <1>1 DEF IdleWhenDown
<1>7. Registered'
  <2>1. \A x \in Sessions : TokenOf(x)' = TokenOf(x) /\ Live(x)' = Live(x)
    BY DEF TokenOf, Live
  <2>2. ASSUME NEW x \in Sessions, turn # NULL, turn = [kind |-> "admit", token |-> TokenOf(x)]
        PROVE  turn' = turn
    BY <2>2
  <2> QED BY <1>1, <2>1, <2>2 DEF Registered
<1>8. TurnCurrent'
  <2>1. CASE turn' = turn
    BY <1>1, <2>1 DEF TurnCurrent, TokenOf, IsRun
  <2>2. CASE turn' # turn
    BY <2>2 DEF TurnCurrent
  <2> QED BY <2>1, <2>2
<1>9. StopMarked'
  BY <1>2, StopsStay
<1> QED BY <1>2, <1>4, <1>5, <1>6, <1>7, <1>8, <1>9

LEMMA RetryKeeps ==
    ASSUME RInv, SameProcess, NEW s \in Sessions, NEW m \in ClientMsgIds,
           NEW f \in Fingerprints, RetryRun(s, m, f)
    PROVE  RInv' /\ FencesKept
<1> USE DEF RInv
<1>1. UNCHANGED <<ledgerTables, runs, active, turn, failures, dispatched, lost, confirmed,
                  server, orphans, crashes>>
  BY DEF RetryRun, process, SameProcess
<1>2. /\ ExecutionsKept /\ AdmissionsGrow /\ IdsKept /\ OpenKept /\ NoNewDoubt
      /\ NoOutcome /\ VerdictsKept /\ FencesKept
      /\ Tables' /\ AttemptsNamed' /\ UNCHANGED <<session, admissions, attempts>>
  BY <1>1, QuietEffects
<1>3. /\ RunsNarrowed /\ ProgressKept /\ NoCallDispatched /\ SettledStay
      /\ ExecutionsNumbered' /\ RunsNamed' /\ IdleWhenDown' /\ Registered' /\ TurnCurrent'
      /\ StopMarked'
  BY <1>1, <1>2, Resting
<1>4. /\ DispatchesRecorded' /\ InFlightKept' /\ FailuresSeen' /\ LostMarked'
      /\ AmbiguityConfirmed'
  BY <1>1, <1>2, <1>3, Narrowing
<1>5. PICK own \in admissions[s] : own.clientMsgId = m /\ Tell(s, m, Outcome(own.token))
  BY DEF RetryRun
<1>6. PICK t \in Token : t = own.token
  BY DEF Base, Tables, TablesTyped, AdmissionRow
<1>7. PICK status : status = Outcome(t)
  OBVIOUS
<1>8. /\ status \in Statuses /\ Tell(s, m, status)
      /\ status = "completed" => Outcome(t)' = "completed"
      /\ status \notin {"running", "completed"} => Doomed(t)'
  <2>1. status \in Statuses /\ Tell(s, m, status)
    BY <1>5, <1>6, <1>7, OutcomeRead
  <2>2. status \notin {"running", "completed"} => Doomed(t)
    BY <1>7, OutcomeDoomed
  <2> QED BY <1>2, <1>7, <2>1, <2>2 DEF VerdictsKept
<1>9. own \in admissions'[s]
  BY <1>2
<1>10. TellingsHold' /\ told' \in [Sessions -> [ClientMsgIds -> SUBSET Statuses]]
  BY <1>2, <1>5, <1>6, <1>8, <1>9, TellingGrows
<1>11. Base'
  BY <1>1, <1>2, <1>10 DEF Base, ReasoningTypeOK, ProcessTyped
<1> QED BY <1>2, <1>3, <1>4, <1>10, <1>11

\* The runs with a call in flight are as they were.
CallsSame ==
    \A s \in Sessions, g \in 1 .. MaxGeneration, p \in PhaseNames :
        (IsRun(s, g)' /\ runs'[s][g].call[p] = "inflight") =>
            IsRun(s, g) /\ runs'[s][g] = runs[s][g]

LEMMA InFlightSame ==
    ASSUME InFlightKept, CallsSame, OpenKept
    PROVE  InFlightKept'
<1> SUFFICES ASSUME NEW s \in Sessions, NEW g \in 1 .. MaxGeneration, NEW p \in PhaseNames,
                    IsRun(s, g)', runs'[s][g].call[p] = "inflight"
             PROVE  \E r \in attempts'[s] :
                       /\ r.generation = g
                       /\ r.providerAttemptId = <<runs'[s][g].token.executionId, p>>
                       /\ r.phase = "RUNNING" \/ r.reason = "ambiguous"
  BY DEF InFlightKept
<1>1. IsRun(s, g) /\ runs'[s][g] = runs[s][g]
  BY DEF CallsSame
<1>2. CallOpen(s, g, p)
  BY <1>1, CallInFlight
<1>3. PICK r \in attempts[s] :
         /\ r.generation = g
         /\ r.providerAttemptId = <<runs[s][g].token.executionId, p>>
         /\ r.phase = "RUNNING" \/ r.reason = "ambiguous"
  BY <1>2 DEF CallOpen
<1> QED BY <1>1, <1>3 DEF OpenKept

LEMMA StartKeeps ==
    ASSUME RInv, NEW s \in Sessions, NEW m \in ClientMsgIds, NEW f \in Fingerprints,
           NEW confirm \in BOOLEAN, StartRun(s, m, f, confirm)
    PROVE  RInv' /\ FencesKept
<1> USE DEF RInv
<1>1. /\ server = "up" /\ turn = NULL /\ UNCHANGED <<server, orphans, crashes>>
      /\ session[s].generation < MaxGeneration /\ MayStart(s, confirm)
      /\ BeginExecution(s, NULL, m, f)
      /\ UNCHANGED <<active, failures, dispatched, lost, told>>
  BY DEF StartRun, Serving, SameProcess
<1>2. PICK t : t = TokenOf(s)'
  OBVIOUS
<1>3. /\ AdmissionsGrow /\ IdsKept /\ OpenKept /\ NoNewDoubt /\ NoOutcome /\ VerdictsKept
      /\ FencesKept /\ Tables' /\ UNCHANGED attempts
      /\ \A x \in Sessions \ {s} : session'[x] = session[x]
      /\ session[s].generation \in Nat
      /\ session'[s].generation = session[s].generation + 1
      /\ session'[s].phase = "RUNNING"
      /\ session[s].phase \in {"NONE", "TERMINAL"}
      /\ t \in Token
      /\ [clientMsgId |-> m, fingerprint |-> f, token |-> t] \in admissions'[s]
      /\ TerminalReason(t) = NULL
  BY <1>1, <1>2, BeginEffects
<1>4. PICK g \in 1 .. MaxGeneration : g = session[s].generation + 1
  BY <1>1, <1>3, BoundAssumption
<1>5. /\ t.session = s /\ t.generation = g /\ session'[s].generation = g
      /\ t.executionId = session'[s].executionId
  BY <1>2, <1>3, <1>4 DEF TokenOf
<1>6. PICK v : v = [clientMsgId |-> m, token |-> t, stage |-> 0,
                    call |-> [p \in PhaseNames |-> "todo"], aborted |-> FALSE]
  OBVIOUS
<1>7. /\ v \in Run /\ v.clientMsgId = m /\ v.token = t /\ v.stage = 0 /\ v.aborted = FALSE
      /\ \A p \in PhaseNames : v.call[p] = "todo"
  <2>1. 0 \in 0 .. LastStage
    BY StageAssumption DEF LastStage
  <2> QED BY <1>3, <1>6, <2>1 DEF Run, CallStates
<1>8. /\ runs' = [runs EXCEPT ![s][g] = v]
      /\ turn' = [kind |-> "admit", token |-> t]
      /\ confirmed' = IF confirm THEN [confirmed EXCEPT ![s] = @ \cup {g}] ELSE confirmed
  BY <1>2, <1>5, <1>6 DEF StartRun
<1>9. RunsTyped' /\ OtherRunsSame(s, g) /\ runs'[s][g] = v /\ v # NULL
  <2>1. v \in Run \cup {NULL} /\ v # NULL
    BY <1>7, AbsentAssumption
  <2> QED BY <1>8, <2>1, RunReplaced
<1>10. ~IsRun(s, g)
  BY <1>3, <1>4 DEF RunsNamed
<1>11. turn' \in Turn /\ turn' # NULL /\ turn'.kind = "admit" /\ turn'.token = t
  BY <1>3, <1>8, AbsentAssumption DEF Turn
<1>12. /\ confirmed' \in [Sessions -> SUBSET (1 .. MaxGeneration)]
       /\ \A x \in Sessions : confirmed[x] \subseteq confirmed'[x]
       /\ confirm => g \in confirmed'[s]
  <2>1. confirmed \in [Sessions -> SUBSET (1 .. MaxGeneration)]
    BY DEF Base, ReasoningTypeOK
  <2>2. CASE confirm
    BY <1>8, <2>1, <2>2
  <2>3. CASE ~confirm
    BY <1>8, <2>1, <2>3
  <2> QED BY <2>2, <2>3
<1>13. Base'
  BY <1>1, <1>3, <1>9, <1>11, <1>12 DEF Base, ReasoningTypeOK, RunsTyped, ProcessTyped
<1>14. \A x \in Sessions : session[x].generation \in Nat
                           /\ session[x].generation <= session'[x].generation
  BY <1>3, BoundAssumption DEF ExecutionsNumbered
<1>15. ExecutionsNumbered'
  BY <1>3, <1>4, <1>5 DEF ExecutionsNumbered
<1>16. AttemptsNamed'
  <2> SUFFICES ASSUME NEW x \in Sessions, NEW r \in attempts[x]
               PROVE  /\ r.generation > 0 /\ r.generation <= session'[x].generation
                      /\ r.generation = session'[x].generation =>
                            r.executionId = session'[x].executionId
                      /\ \E p \in PhaseNames : r.providerAttemptId = <<r.executionId, p>>
                      /\ r.phase = "RUNNING" => r.reason = NULL
                      /\ r.reason \in {NULL, "completed", "ambiguous"}
    BY <1>3 DEF AttemptsNamed
  <2>1. r.generation \in Nat
    BY DEF Base, Tables, TablesTyped, AttemptRow
  <2>2. CASE x = s
    BY <1>3, <2>1, <2>2 DEF AttemptsNamed
  <2>3. CASE x # s
    BY <1>3, <2>3 DEF AttemptsNamed
  <2> QED BY <2>2, <2>3
<1>17. RunsNamed'
  <2> SUFFICES ASSUME NEW x \in Sessions, NEW h \in 1 .. MaxGeneration, IsRun(x, h)'
               PROVE  /\ runs'[x][h].token.session = x /\ runs'[x][h].token.generation = h
                      /\ h <= session'[x].generation
                      /\ h = session'[x].generation =>
                            runs'[x][h].token.executionId = session'[x].executionId
                      /\ \E r \in admissions'[x] : /\ r.clientMsgId = runs'[x][h].clientMsgId
                                                   /\ r.token = runs'[x][h].token
    BY DEF RunsNamed
  <2>1. CASE x = s /\ h = g
    BY <1>3, <1>5, <1>7, <1>9, <2>1
  <2>2. CASE x # s \/ h # g
    <3>1. runs'[x][h] = runs[x][h] /\ IsRun(x, h)
      BY <1>9, <2>2 DEF OtherRunsSame, IsRun
    <3>2. /\ runs[x][h].token.session = x /\ runs[x][h].token.generation = h
          /\ h <= session[x].generation
          /\ h = session[x].generation =>
                runs[x][h].token.executionId = session[x].executionId
      BY <3>1 DEF RunsNamed
    <3>3. h <= session'[x].generation /\ (h = session'[x].generation => x # s)
      BY <1>3, <1>4, <1>14, <2>2, <3>2
    <3>4. PICK r \in admissions[x] : /\ r.clientMsgId = runs[x][h].clientMsgId
                                     /\ r.token = runs[x][h].token
      BY <3>1, OwnAdmission
    <3>5. r \in admissions'[x]
      BY <1>3 DEF AdmissionsGrow
    <3> QED BY <1>3, <3>1, <3>2, <3>3, <3>4, <3>5
  <2> QED BY <2>1, <2>2
<1>18. DispatchesRecorded'
  BY <1>1, <1>3, DispatchesKept
<1>19. IdleWhenDown'
  BY <1>1 DEF IdleWhenDown
<1>20. active[s] = NULL
  BY <1>3 DEF Registered, Live, ActivePhases
<1>21. Registered'
  <2> SUFFICES ASSUME NEW x \in Sessions
               PROVE  (/\ active[x] # NULL =>
                             /\ active[x] = TokenOf(x) /\ Live(x)
                             /\ session[x].generation \in 1 .. MaxGeneration
                             /\ IsRun(x, session[x].generation)
                       /\ (/\ Live(x) /\ session[x].generation \in 1 .. MaxGeneration
                           /\ IsRun(x, session[x].generation))
                             => \/ active[x] = TokenOf(x)
                                \/ turn # NULL /\ turn = [kind |-> "admit", token |-> TokenOf(x)])'
    BY DEF Registered
  <2>1. CASE x = s
    BY <1>1, <1>2, <1>8, <1>11, <1>20, <2>1
  <2>2. CASE x # s
    <3>1. session'[x] = session[x] /\ active'[x] = active[x]
      BY <1>1, <1>3, <2>2
    <3>2. \A h \in 1 .. MaxGeneration : IsRun(x, h)' <=> IsRun(x, h)
      BY <1>9, <2>2 DEF OtherRunsSame, IsRun
    <3>3. /\ active[x] # NULL =>
                /\ active[x] = TokenOf(x) /\ Live(x)
                /\ session[x].generation \in 1 .. MaxGeneration
                /\ IsRun(x, session[x].generation)
          /\ (/\ Live(x) /\ session[x].generation \in 1 .. MaxGeneration
              /\ IsRun(x, session[x].generation)) => active[x] = TokenOf(x)
      BY <1>1 DEF Registered
    <3> QED BY <3>1, <3>2, <3>3 DEF TokenOf, Live, IsRun
  <2> QED BY <2>1, <2>2
<1>22. TurnCurrent'
  BY <1>1, <1>2, <1>3, <1>5, <1>7, <1>9, <1>11, <1>20 DEF TurnCurrent, IsRun
<1>23. StopMarked'
  <2> SUFFICES ASSUME NEW x \in Sessions, NEW h \in 1 .. MaxGeneration, IsRun(x, h)'
               PROVE  IF runs'[x][h].aborted
                      THEN \/ h = session'[x].generation /\ session'[x].phase = "STOPPING"
                           \/ TerminalReason(runs[x][h].token)' \notin {NULL, "completed"}
                      ELSE h = session'[x].generation /\ session'[x].phase = "RUNNING"
    BY DEF StopMarked
  <2>1. CASE x = s /\ h = g
    BY <1>3, <1>5, <1>7, <1>9, <2>1
  <2>2. CASE x # s \/ h # g
    <3>1. runs'[x][h] = runs[x][h] /\ IsRun(x, h)
      BY <1>9, <2>2 DEF OtherRunsSame, IsRun
    <3>2. PICK u \in Token : u = runs[x][h].token
      BY <3>1, RunTyped
    <3>3. TerminalReason(u)' = TerminalReason(u)
      BY <1>3 DEF NoOutcome
    <3>4. TerminalReason(runs[x][h].token)' = TerminalReason(u)
      BY <3>1, <3>2, <3>3
    <3>5. IF runs[x][h].aborted
          THEN \/ h = session[x].generation /\ session[x].phase = "STOPPING"
               \/ TerminalReason(u) \notin {NULL, "completed"}
          ELSE h = session[x].generation /\ session[x].phase = "RUNNING"
      BY <3>1, <3>2 DEF StopMarked
    <3>6. CASE x # s
      BY <1>3, <3>1, <3>4, <3>5, <3>6
    <3>7. CASE x = s
      BY <1>3, <3>1, <3>4, <3>5, <3>7
    <3> QED BY <3>6, <3>7
  <2> QED BY <2>1, <2>2
\* The runs there were go on as they were; the new one has no calls and no attempts.
<1>24. InFlightKept'
  <2>1. CallsSame
    BY <1>7, <1>9 DEF CallsSame, OtherRunsSame, IsRun
  <2> QED BY <1>3, <2>1, InFlightSame
<1>25. FailuresSeen'
  <2> SUFFICES ASSUME NEW x \in Sessions, NEW h \in 1 .. MaxGeneration, IsRun(x, h)'
               PROVE  /\ ~runs'[x][h].aborted => \A r \in attempts[x] :
                            (r.generation = h /\ r.reason = "ambiguous") =>
                                \E p \in PhaseNames :
                                   /\ r.providerAttemptId = <<r.executionId, p>>
                                   /\ runs'[x][h].call[p] = "bad"
                      /\ \A p \in PhaseNames : runs'[x][h].call[p] \in {"inflight", "bad"} =>
                            /\ runs'[x][h].stage \in DOMAIN Stages
                            /\ p \in Stages[runs'[x][h].stage]
    BY <1>3 DEF FailuresSeen
  <2>1. CASE x = s /\ h = g
    <3>1. \A r \in attempts[s] : r.generation # g
      BY <1>3, <1>4 DEF AttemptsNamed
    <3> QED BY <1>7, <1>9, <2>1, <3>1
  <2>2. CASE x # s \/ h # g
    <3>1. runs'[x][h] = runs[x][h] /\ IsRun(x, h)
      BY <1>9, <2>2 DEF OtherRunsSame, IsRun
    <3> QED BY <3>1 DEF FailuresSeen
  <2> QED BY <2>1, <2>2
<1>26. LostMarked'
  <2> SUFFICES ASSUME NEW x \in Sessions, NEW h \in lost[x]
               PROVE  \E r \in attempts[x] :
                         /\ r.generation = h
                         /\ \/ r.reason = "ambiguous"
                            \/ /\ r.phase = "RUNNING"
                               /\ (h \in 1 .. MaxGeneration /\ IsRun(x, h)') =>
                                     \A p \in PhaseNames :
                                        r.providerAttemptId = <<r.executionId, p>> =>
                                           runs'[x][h].call[p] \in {"ok", "bad"}
    BY <1>1, <1>3 DEF LostMarked
  <2>1. PICK r \in attempts[x] :
           /\ r.generation = h
           /\ \/ r.reason = "ambiguous"
              \/ /\ r.phase = "RUNNING"
                 /\ (h \in 1 .. MaxGeneration /\ IsRun(x, h)) => \A p \in PhaseNames :
                       r.providerAttemptId = <<r.executionId, p>> =>
                           runs[x][h].call[p] \in {"ok", "bad"}
    BY DEF LostMarked
  <2>2. x # s \/ h # g
    BY <1>3, <1>4, <2>1 DEF AttemptsNamed
  <2> QED BY <1>9, <2>1, <2>2 DEF OtherRunsSame, IsRun
<1>27. AmbiguityConfirmed'
  <2> SUFFICES ASSUME NEW x \in Sessions, NEW r \in attempts[x], r.reason = "ambiguous",
                      r.generation < session'[x].generation
               PROVE  r.generation + 1 \in confirmed'[x]
    BY <1>3 DEF AmbiguityConfirmed
  <2>1. r.generation \in Nat /\ r.generation > 0
    BY DEF AttemptsNamed, Base, Tables, TablesTyped, AttemptRow
  <2>2. CASE r.generation < session[x].generation
    BY <1>12, <2>2 DEF AmbiguityConfirmed
  <2>3. CASE ~(r.generation < session[x].generation)
    <3>1. x = s /\ r.generation = session[s].generation
      BY <1>3, <1>14, <2>1, <2>3
    <3>2. r \in AttemptsOf(TokenOf(s))
      BY <3>1 DEF AttemptsOf, TokenOf, AttemptsNamed
    <3>3. Outcome(TokenOf(s)) = "ambiguous"
      BY <3>2 DEF Outcome
    <3>4. confirm
      BY <1>1, <2>1, <3>1, <3>3 DEF MayStart, Uncertain
    <3> QED BY <1>4, <1>12, <3>1, <3>4
  <2> QED BY <2>2, <2>3
<1>28. TellingsHold'
  BY <1>1, <1>3, TellingsStay
<1> QED BY <1>3, <1>13, <1>15, <1>16, <1>17, <1>18, <1>19, <1>21, <1>22, <1>23, <1>24, <1>25,
           <1>26, <1>27, <1>28

-----------------------------------------------------------------------------
(* The turns.                                                              *)

\* A turn is taken by a serving process, for the current execution.
LEMMA TurnTaken ==
    ASSUME RInv, turn # NULL
    PROVE  /\ server = "up" /\ turn.kind \in {"admit", "cancel"}
           /\ \E t \in Token, s \in Sessions, g \in 1 .. MaxGeneration :
                 /\ t = turn.token /\ t.session = s /\ t.generation = g
                 /\ t = TokenOf(s) /\ IsCurrent(t) /\ g = session[s].generation
                 /\ IsRun(s, g) /\ runs[s][g].token = t
<1> USE DEF RInv
<1>1. server = "up"
  BY DEF IdleWhenDown
<1>2. turn \in Turn
  BY DEF Base, ReasoningTypeOK
<1>3. PICK t \in Token : t = turn.token
  BY <1>2 DEF Turn
<1>4. PICK s \in Sessions : s = t.session
  BY DEF Token
<1>5. PICK g \in 1 .. MaxGeneration : g = t.generation /\ IsRun(s, g) /\ t = TokenOf(s)
  BY <1>3, <1>4 DEF TurnCurrent
<1>6. IsCurrent(t) /\ g = session[s].generation
  BY <1>4, <1>5 DEF IsCurrent, TokenOf
<1>7. runs[s][g].token = t
  BY <1>5, <1>6, RunTyped
<1> QED BY <1>1, <1>2, <1>3, <1>4, <1>5, <1>6, <1>7 DEF Turn

LEMMA LaunchKeeps ==
    ASSUME RInv, LaunchRun
    PROVE  RInv' /\ FencesKept
<1> USE DEF RInv
<1>1. /\ turn # NULL /\ turn.kind = "admit" /\ turn' = NULL
      /\ UNCHANGED <<ledgerTables, failures, world, server, orphans, crashes>>
  BY DEF LaunchRun, SameProcess
<1>2. PICK t \in Token, s \in Sessions, g \in 1 .. MaxGeneration :
         /\ t = turn.token /\ t.session = s /\ t.generation = g
         /\ t = TokenOf(s) /\ IsCurrent(t) /\ g = session[s].generation
         /\ IsRun(s, g) /\ runs[s][g].token = t
  BY <1>1, TurnTaken
<1>3. server = "up"
  BY <1>1, TurnTaken
<1>4. /\ active' = [active EXCEPT ![s] = t]
      /\ runs' = [runs EXCEPT ![s][g].stage = 1]
  BY <1>2 DEF LaunchRun
<1>5. /\ session[s].phase = "RUNNING" /\ runs[s][g].stage = 0 /\ ~runs[s][g].aborted
  BY <1>1, <1>2 DEF TurnCurrent
<1>6. RunGoesOn(s, g) /\ runs'[s][g].call = runs[s][g].call
  <2>1. 1 \in 0 .. LastStage
    BY StageAssumption DEF LastStage
  <2> QED BY <1>2, <1>4, <2>1, StageSet
<1>7. /\ ExecutionsKept /\ AdmissionsGrow /\ IdsKept /\ OpenKept /\ NoNewDoubt
      /\ NoOutcome /\ VerdictsKept /\ FencesKept
      /\ Tables' /\ AttemptsNamed' /\ UNCHANGED <<session, admissions, attempts>>
  BY <1>1, QuietEffects
<1>8. UNCHANGED <<dispatched, lost, confirmed, told>>
  BY <1>1 DEF world
<1>9. \A x \in Sessions, h \in 1 .. MaxGeneration : IsRun(x, h)' <=> IsRun(x, h)
  BY <1>2, <1>6 DEF RunGoesOn, OtherRunsSame, IsRun
<1>10. RunsNarrowed /\ StopsKept
  BY <1>6, <1>9 DEF RunGoesOn, OtherRunsSame, RunsNarrowed, StopsKept
<1>11. ExecutionsNumbered' /\ RunsNamed' /\ IdleWhenDown' /\ TurnCurrent' /\ StopMarked'
  <2>1. ExecutionsNumbered'
    BY <1>7 DEF ExecutionsNumbered
  <2>2. RunsNamed'
    BY <1>7, <1>10, RunsNamedKept
  <2>3. IdleWhenDown'
    BY <1>1, <1>3 DEF IdleWhenDown
  <2>4. TurnCurrent'
    BY <1>1 DEF TurnCurrent
  <2>5. StopMarked'
    BY <1>7, <1>10, StopsStay
  <2> QED BY <2>1, <2>2, <2>3, <2>4, <2>5
<1>12. /\ active' \in [Sessions -> Token \cup {NULL}] /\ active'[s] = t
       /\ \A x \in Sessions \ {s} : active'[x] = active[x]
  <2>1. active \in [Sessions -> Token \cup {NULL}]
    BY DEF Base, ReasoningTypeOK
  <2> QED BY <1>4, <2>1
<1>13. Registered'
  <2>1. \A x \in Sessions : TokenOf(x)' = TokenOf(x) /\ Live(x)' = Live(x)
    BY <1>7 DEF TokenOf, Live
  <2> SUFFICES ASSUME NEW x \in Sessions
               PROVE  /\ active'[x] # NULL =>
                            /\ active'[x] = TokenOf(x) /\ Live(x)
                            /\ session[x].generation \in 1 .. MaxGeneration
                            /\ IsRun(x, session[x].generation)
                      /\ (/\ Live(x) /\ session[x].generation \in 1 .. MaxGeneration
                          /\ IsRun(x, session[x].generation)) => active'[x] = TokenOf(x)
    BY <1>7, <1>9, <2>1 DEF Registered
  <2>2. CASE x = s
    BY <1>2, <1>5, <1>12, <2>2 DEF Live, ActivePhases
  <2>3. CASE x # s
    <3>1. turn # [kind |-> "admit", token |-> TokenOf(x)]
      <4>1. TokenOf(x).session = x
        BY DEF TokenOf
      <4>2. turn.token # TokenOf(x)
        BY <1>2, <2>3, <4>1
      <4> QED BY <4>2
    <3> QED BY <1>12, <2>3, <3>1 DEF Registered
  <2> QED BY <2>2, <2>3
<1>14. \A x \in Sessions, h \in 1 .. MaxGeneration : runs'[x][h].call = runs[x][h].call
  BY <1>6 DEF RunGoesOn, OtherRunsSame
<1>15. NoCallDispatched /\ SettledStay
  BY <1>14 DEF NoCallDispatched, SettledStay
<1>16. Base'
  BY <1>1, <1>6, <1>7, <1>8, <1>12
  DEF Base, ReasoningTypeOK, RunsTyped, ProcessTyped, RunGoesOn
<1>17. DispatchesRecorded' /\ InFlightKept' /\ LostMarked' /\ TellingsHold'
  BY <1>7, <1>8, <1>10, <1>15, DispatchesKept, NoneRecorded, InFlightStays, LostStays, LostSame,
     TellingsStay
<1>18. AmbiguityConfirmed'
  <2>1. DoubtCurrent /\ \A x \in Sessions : session[x].generation \in Nat
    BY <1>7, BoundAssumption DEF DoubtCurrent, NoNewDoubt, ExecutionsNumbered
  <2> QED BY <1>7, <1>8, <2>1, ConfirmedStays
\* Nothing was called yet.
<1>19. \A p \in PhaseNames : runs[s][g].call[p] \notin {"inflight", "bad"}
  <2>1. 0 \notin DOMAIN Stages
    BY StageAssumption
  <2> QED BY <1>2, <1>5, <2>1 DEF FailuresSeen
<1>20. FailuresSeen'
  <2> SUFFICES ASSUME NEW x \in Sessions, NEW h \in 1 .. MaxGeneration, IsRun(x, h)'
               PROVE  /\ ~runs'[x][h].aborted => \A r \in attempts[x] :
                            (r.generation = h /\ r.reason = "ambiguous") =>
                                \E p \in PhaseNames :
                                   /\ r.providerAttemptId = <<r.executionId, p>>
                                   /\ runs'[x][h].call[p] = "bad"
                      /\ \A p \in PhaseNames : runs'[x][h].call[p] \in {"inflight", "bad"} =>
                            /\ runs'[x][h].stage \in DOMAIN Stages
                            /\ p \in Stages[runs'[x][h].stage]
    BY <1>7 DEF FailuresSeen
  <2>1. IsRun(x, h) /\ runs'[x][h].aborted = runs[x][h].aborted
    BY <1>10 DEF RunsNarrowed, StopsKept
  <2>2. ~runs[x][h].aborted => \A r \in attempts[x] :
            (r.generation = h /\ r.reason = "ambiguous") =>
                \E p \in PhaseNames : /\ r.providerAttemptId = <<r.executionId, p>>
                                      /\ runs[x][h].call[p] = "bad"
    BY <2>1 DEF FailuresSeen
  <2>3. CASE x = s /\ h = g
    BY <1>14, <1>19, <2>1, <2>2, <2>3
  <2>4. CASE x # s \/ h # g
    <3>1. runs'[x][h] = runs[x][h]
      BY <1>6, <2>4 DEF RunGoesOn, OtherRunsSame
    <3> QED BY <2>1, <2>2, <3>1 DEF FailuresSeen
  <2> QED BY <2>3, <2>4
<1> QED BY <1>7, <1>11, <1>13, <1>16, <1>17, <1>18, <1>20

LEMMA AbandonKeeps ==
    ASSUME RInv, AbandonAdmission
    PROVE  RInv' /\ FencesKept
<1> USE DEF RInv
<1>1. /\ turn # NULL /\ turn.kind = "admit" /\ turn' = NULL
      /\ UNCHANGED <<active, failures, world, server, orphans, crashes>>
  BY DEF AbandonAdmission, SameProcess
<1>2. PICK t \in Token, s \in Sessions, g \in 1 .. MaxGeneration :
         /\ t = turn.token /\ t.session = s /\ t.generation = g
         /\ t = TokenOf(s) /\ IsCurrent(t) /\ g = session[s].generation
         /\ IsRun(s, g) /\ runs[s][g].token = t
  BY <1>1, TurnTaken
<1>3. ProcessSame
  BY <1>1, TurnTaken DEF ProcessSame
<1>4. /\ TransitionExecution(t, "TERMINAL", "startup_failed")
      /\ runs' = [runs EXCEPT ![s][g] = NULL]
  BY <1>2 DEF AbandonAdmission
<1>5. session[s].phase = "RUNNING" /\ active[s] = NULL
  BY <1>1, <1>2 DEF TurnCurrent
<1>6. /\ ExecutionsKept /\ AdmissionsGrow /\ IdsKept /\ OpenKept /\ NoNewDoubt
      /\ VerdictsKept /\ FencesKept /\ Tables' /\ AttemptsNamed'
      /\ UNCHANGED <<admissions, attempts>>
      /\ \A x \in Token \ {t} : TerminalReason(x)' = TerminalReason(x)
      /\ \A x \in Sessions \ {s} : session'[x] = session[x]
      /\ session'[s].phase = "TERMINAL"
  <2>1. "startup_failed" \in ExecutionReasons
    BY ReasoningReasonAssumption
  <2> QED BY <1>2, <1>4, <2>1, TransitionEffects
<1>7. RunEnds(s, g)
  <2>1. NULL \in Run \cup {NULL}
    OBVIOUS
  <2> QED BY <1>4, <2>1, RunReplaced DEF RunEnds
<1>8. Unregister(runs[s][g].token)
  <2>1. t # NULL
    BY AbsentAssumption
  <2> QED BY <1>1, <1>2, <1>5, <2>1 DEF Unregister
<1>9. ~Live(s)'
  BY <1>6 DEF Live, ActivePhases
<1>10. /\ RunsNarrowed /\ ProgressKept /\ NoCallDispatched /\ SettledStay
       /\ ExecutionsNumbered' /\ RunsNamed' /\ IdleWhenDown' /\ Registered' /\ TurnCurrent'
       /\ StopMarked' /\ active' \in [Sessions -> Token \cup {NULL}]
  BY <1>1, <1>2, <1>3, <1>5, <1>6, <1>7, <1>8, <1>9, Ending
<1>11. UNCHANGED <<dispatched, lost, confirmed, told>>
  BY <1>1 DEF world
<1>12. /\ DispatchesRecorded' /\ InFlightKept' /\ FailuresSeen' /\ LostMarked'
       /\ AmbiguityConfirmed'
  BY <1>6, <1>10, <1>11, Narrowing
<1>13. TellingsHold'
  BY <1>6, <1>11, TellingsStay
<1>14. Base'
  BY <1>1, <1>6, <1>7, <1>10, <1>11
  DEF Base, ReasoningTypeOK, RunsTyped, ProcessTyped, RunEnds
<1> QED BY <1>6, <1>10, <1>12, <1>13, <1>14

LEMMA ThrowsKeeps ==
    ASSUME RInv, TurnThrows
    PROVE  RInv' /\ FencesKept
<1> USE DEF RInv
<1>1. /\ turn # NULL /\ turn' = NULL /\ failures < MaxFailures /\ failures' = failures + 1
      /\ UNCHANGED <<ledgerTables, active, world, server, orphans, crashes>>
  BY DEF TurnThrows, SameProcess
<1>2. PICK t \in Token, s \in Sessions, g \in 1 .. MaxGeneration :
         /\ t = turn.token /\ t.session = s /\ t.generation = g
         /\ t = TokenOf(s) /\ IsCurrent(t) /\ g = session[s].generation
         /\ IsRun(s, g) /\ runs[s][g].token = t
  BY <1>1, TurnTaken
<1>3. ProcessSame /\ turn.kind \in {"admit", "cancel"}
  BY <1>1, TurnTaken DEF ProcessSame
<1>4. /\ ExecutionsKept /\ AdmissionsGrow /\ IdsKept /\ OpenKept /\ NoNewDoubt
      /\ NoOutcome /\ VerdictsKept /\ FencesKept
      /\ Tables' /\ AttemptsNamed' /\ UNCHANGED <<session, admissions, attempts>>
  BY <1>1, QuietEffects
<1>5. UNCHANGED <<dispatched, lost, confirmed, told>>
  BY <1>1 DEF world
<1>6. /\ RunsNarrowed /\ ProgressKept /\ NoCallDispatched /\ SettledStay
      /\ ExecutionsNumbered' /\ RunsNamed' /\ IdleWhenDown' /\ Registered' /\ TurnCurrent'
      /\ StopMarked' /\ RunsTyped' /\ active' \in [Sessions -> Token \cup {NULL}]
  <2>1. CASE turn.kind = "admit"
    <3>1. runs' = [runs EXCEPT ![s][g] = NULL]
      BY <1>2, <2>1 DEF TurnThrows
    <3>2. RunEnds(s, g)
      <4>1. NULL \in Run \cup {NULL}
        OBVIOUS
      <4> QED BY <3>1, <4>1, RunReplaced DEF RunEnds
    <3>3. Unregister(runs[s][g].token)
      <4>1. t # NULL
        BY AbsentAssumption
      <4>2. active[s] = NULL
        BY <1>1, <1>2, <2>1 DEF TurnCurrent
      <4> QED BY <1>1, <1>2, <4>1, <4>2 DEF Unregister
    <3>4. Live(s)' => Live(s)
      BY <1>4 DEF Live
    <3> QED BY <1>1, <1>2, <1>3, <1>4, <3>2, <3>3, <3>4, Ending DEF RunEnds
  <2>2. CASE turn.kind = "cancel"
    <3>1. runs' = runs
      BY <2>2 DEF TurnThrows
    <3>2. UNCHANGED <<session, runs, active, server, orphans>>
      BY <1>1, <1>4, <3>1
    <3>3. RunsTyped' /\ active' \in [Sessions -> Token \cup {NULL}]
      BY <3>2 DEF RunsTyped, Base, ReasoningTypeOK
    <3> QED BY <1>1, <1>4, <2>2, <3>2, <3>3, Resting
  <2> QED BY <1>3, <2>1, <2>2
<1>7. /\ DispatchesRecorded' /\ InFlightKept' /\ FailuresSeen' /\ LostMarked'
      /\ AmbiguityConfirmed'
  BY <1>4, <1>5, <1>6, Narrowing
<1>8. TellingsHold'
  BY <1>4, <1>5, TellingsStay
<1>9. Base'
  <2>1. failures' \in 0 .. MaxFailures
    BY <1>1, FailuresAssumption DEF Base, ReasoningTypeOK
  <2> QED BY <1>1, <1>4, <1>5, <1>6, <2>1 DEF Base, ReasoningTypeOK, RunsTyped, ProcessTyped
<1> QED BY <1>4, <1>6, <1>7, <1>8, <1>9

LEMMA StopAttemptKeeps ==
    ASSUME RInv, StopAttempt
    PROVE  RInv' /\ FencesKept
<1> USE DEF RInv
<1>1. /\ turn # NULL /\ turn.kind = "cancel"
      /\ UNCHANGED <<runs, active, turn, failures, dispatched, confirmed, told,
                     server, orphans, crashes>>
  BY DEF StopAttempt, SameProcess, process
<1>2. PICK t \in Token, s \in Sessions, g \in 1 .. MaxGeneration :
         /\ t = turn.token /\ t.session = s /\ t.generation = g
         /\ t = TokenOf(s) /\ IsCurrent(t) /\ g = session[s].generation
         /\ IsRun(s, g) /\ runs[s][g].token = t
  BY <1>1, TurnTaken
<1>3. PICK row \in RunningAttempts(t) : TransitionProviderAttempt(t, row, "ambiguous")
  BY <1>2 DEF StopAttempt
<1>4. lost' = [lost EXCEPT ![s] = @ \cup {g}]
  BY <1>2 DEF StopAttempt
<1>5. runs[s][g].aborted
  BY <1>1, <1>2 DEF TurnCurrent
<1>6. /\ ExecutionsKept /\ AdmissionsGrow /\ IdsKept /\ NoOutcome /\ VerdictsKept /\ FencesKept
      /\ OpenKept /\ Tables' /\ AttemptsNamed' /\ UNCHANGED <<session, admissions>>
      /\ AttemptReplaced(t, row, "ambiguous")
      /\ \A x \in Sessions \ {s} : attempts'[x] = attempts[x]
  BY <1>2, <1>3, EndEffects
<1>7. PICK ended \in attempts'[s] :
         /\ ended.generation = g /\ ended.reason = "ambiguous"
         /\ \A r \in attempts'[s] : r = ended \/ r \in attempts[s]
  BY <1>2, <1>6 DEF AttemptReplaced
<1>8. /\ RunsNarrowed /\ ProgressKept /\ NoCallDispatched /\ SettledStay
      /\ ExecutionsNumbered' /\ RunsNamed' /\ IdleWhenDown' /\ Registered' /\ TurnCurrent'
      /\ StopMarked'
  BY <1>1, <1>6, Resting
<1>9. DoubtFailed /\ DoubtCurrent
  <2>1. DoubtFailed
    BY <1>1, <1>5, <1>6, <1>7 DEF DoubtFailed
  <2>2. DoubtCurrent
    BY <1>2, <1>6, <1>7 DEF DoubtCurrent
  <2> QED BY <2>1, <2>2
<1>10. lost \in [Sessions -> SUBSET (1 .. MaxGeneration)]
  BY DEF Base, ReasoningTypeOK
<1>11. lost' \in [Sessions -> SUBSET (1 .. MaxGeneration)]
  BY <1>4, <1>10
<1>12. DispatchesRecorded' /\ InFlightKept' /\ FailuresSeen' /\ AmbiguityConfirmed' /\ TellingsHold'
  <2>1. \A x \in Sessions : session[x].generation \in Nat
    BY BoundAssumption DEF ExecutionsNumbered
  <2>2. DispatchesRecorded'
    BY <1>1, <1>6, DispatchesKept
  <2>3. InFlightKept'
    BY <1>6, <1>8, NoneRecorded, InFlightStays
  <2>4. FailuresSeen'
    BY <1>8, <1>9, FailuresStay
  <2>5. AmbiguityConfirmed'
    BY <1>1, <1>6, <1>9, <2>1, ConfirmedStays
  <2>6. TellingsHold'
    BY <1>1, <1>6, TellingsStay
  <2> QED BY <2>2, <2>3, <2>4, <2>5, <2>6
<1>13. LostMarked'
  <2>1. LostKept
    BY <1>6, <1>8, LostStays
  <2> QED BY <1>4, <1>7, <1>10, <2>1, LostGrows
<1>14. Base'
  BY <1>1, <1>6, <1>11 DEF Base, ReasoningTypeOK, ProcessTyped
<1> QED BY <1>6, <1>8, <1>12, <1>13, <1>14

LEMMA StopEndsKeeps ==
    ASSUME RInv, StopEnds
    PROVE  RInv' /\ FencesKept
<1> USE DEF RInv
<1>1. /\ turn # NULL /\ turn.kind = "cancel" /\ turn' = NULL
      /\ UNCHANGED <<runs, failures, world, server, orphans, crashes>>
  BY DEF StopEnds, SameProcess
<1>2. PICK t \in Token, s \in Sessions, g \in 1 .. MaxGeneration :
         /\ t = turn.token /\ t.session = s /\ t.generation = g
         /\ t = TokenOf(s) /\ IsCurrent(t) /\ g = session[s].generation
         /\ IsRun(s, g) /\ runs[s][g].token = t
  BY <1>1, TurnTaken
<1>3. server = "up"
  BY <1>1, TurnTaken
<1>4. /\ TransitionExecution(t, "TERMINAL", "stopped")
      /\ active' = [active EXCEPT ![s] = NULL]
  BY <1>2 DEF StopEnds
<1>5. session[s].phase = "STOPPING" /\ runs[s][g].aborted
  BY <1>1, <1>2 DEF TurnCurrent
<1>6. "stopped" \in ExecutionReasons /\ "stopped" # "completed" /\ "stopped" # NULL
  BY NullAssumption, ReasoningReasonAssumption
<1>7. /\ ExecutionsKept /\ AdmissionsGrow /\ IdsKept /\ OpenKept /\ NoNewDoubt
      /\ VerdictsKept /\ FencesKept /\ Tables' /\ AttemptsNamed'
      /\ UNCHANGED <<admissions, attempts>>
      /\ TerminalReason(t)' = "stopped"
      /\ \A x \in Token \ {t} : TerminalReason(x)' = TerminalReason(x)
      /\ \A x \in Sessions \ {s} : session'[x] = session[x]
      /\ session'[s].phase = "TERMINAL"
  BY <1>2, <1>4, <1>6, TransitionEffects
<1>8. UNCHANGED <<dispatched, lost, confirmed, told>>
  BY <1>1 DEF world
<1>9. \A x \in Sessions, h \in 1 .. MaxGeneration : IsRun(x, h)' <=> IsRun(x, h)
  BY <1>1 DEF IsRun
<1>10. RunsNarrowed /\ ProgressKept /\ NoCallDispatched /\ SettledStay
  BY <1>1, <1>9 DEF RunsNarrowed, ProgressKept, NoCallDispatched, SettledStay
<1>11. /\ active' \in [Sessions -> Token \cup {NULL}] /\ active'[s] = NULL
       /\ \A x \in Sessions \ {s} : active'[x] = active[x]
  <2>1. active \in [Sessions -> Token \cup {NULL}]
    BY DEF Base, ReasoningTypeOK
  <2> QED BY <1>4, <2>1
<1>12. ExecutionsNumbered' /\ RunsNamed' /\ IdleWhenDown' /\ TurnCurrent'
  <2>1. ExecutionsNumbered'
    <3>1. \A x \in Sessions : session'[x].phase # "NONE" => session[x].phase # "NONE"
      BY <1>5, <1>7
    <3> QED BY <1>7, <3>1 DEF ExecutionsNumbered, ExecutionsKept
  <2>2. RunsNamed'
    BY <1>7, <1>10, RunsNamedKept
  <2>3. IdleWhenDown'
    BY <1>1, <1>3 DEF IdleWhenDown
  <2>4. TurnCurrent'
    BY <1>1 DEF TurnCurrent
  <2> QED BY <2>1, <2>2, <2>3, <2>4
<1>13. Registered'
  <2> SUFFICES ASSUME NEW x \in Sessions
               PROVE  (/\ active[x] # NULL =>
                             /\ active[x] = TokenOf(x) /\ Live(x)
                             /\ session[x].generation \in 1 .. MaxGeneration
                             /\ IsRun(x, session[x].generation)
                       /\ (/\ Live(x) /\ session[x].generation \in 1 .. MaxGeneration
                           /\ IsRun(x, session[x].generation))
                             => \/ active[x] = TokenOf(x)
                                \/ turn # NULL /\ turn = [kind |-> "admit", token |-> TokenOf(x)])'
    BY DEF Registered
  <2>1. CASE x = s
    BY <1>7, <1>11, <2>1 DEF Live, ActivePhases
  <2>2. CASE x # s
    <3>1. session'[x] = session[x] /\ active'[x] = active[x]
      BY <1>7, <1>11, <2>2
    <3>2. /\ active[x] # NULL =>
                /\ active[x] = TokenOf(x) /\ Live(x)
                /\ session[x].generation \in 1 .. MaxGeneration
                /\ IsRun(x, session[x].generation)
          /\ (/\ Live(x) /\ session[x].generation \in 1 .. MaxGeneration
              /\ IsRun(x, session[x].generation)) => active[x] = TokenOf(x)
      <4>1. turn # [kind |-> "admit", token |-> TokenOf(x)]
        BY <1>1
      <4> QED BY <4>1 DEF Registered
    <3> QED BY <1>9, <3>1, <3>2 DEF TokenOf, Live
  <2> QED BY <2>1, <2>2
<1>14. StopMarked'
  <2> SUFFICES ASSUME NEW x \in Sessions, NEW h \in 1 .. MaxGeneration, IsRun(x, h)'
               PROVE  IF runs[x][h].aborted
                      THEN \/ h = session'[x].generation /\ session'[x].phase = "STOPPING"
                           \/ TerminalReason(runs[x][h].token)' \notin {NULL, "completed"}
                      ELSE h = session'[x].generation /\ session'[x].phase = "RUNNING"
    BY <1>1 DEF StopMarked
  <2>1. IsRun(x, h)
    BY <1>9
  <2>2. PICK u \in Token : u = runs[x][h].token /\ u.session = x /\ u.generation = h
    BY <2>1, RunTyped
  <2>3. TerminalReason(runs[x][h].token)' = TerminalReason(u)'
    BY <1>1, <2>2
  <2>4. IF runs[x][h].aborted
        THEN \/ h = session[x].generation /\ session[x].phase = "STOPPING"
             \/ TerminalReason(u) \notin {NULL, "completed"}
        ELSE h = session[x].generation /\ session[x].phase = "RUNNING"
    BY <2>1, <2>2 DEF StopMarked
  <2>5. CASE x = s /\ h = g
    <3>1. u = t
      BY <1>2, <2>2, <2>5
    <3> QED BY <1>5, <1>6, <1>7, <2>3, <2>5, <3>1
  <2>6. CASE x # s \/ h # g
    <3>1. TerminalReason(u)' = TerminalReason(u)
      BY <1>2, <1>7, <2>2, <2>6
    <3>2. CASE x # s
      BY <1>7, <2>3, <2>4, <3>1, <3>2
    <3>3. CASE x = s
      BY <1>2, <2>3, <2>4, <2>6, <3>1, <3>3
    <3> QED BY <3>2, <3>3
  <2> QED BY <2>5, <2>6
<1>15. /\ DispatchesRecorded' /\ InFlightKept' /\ FailuresSeen' /\ LostMarked'
       /\ AmbiguityConfirmed'
  BY <1>7, <1>8, <1>10, Narrowing
<1>16. TellingsHold'
  BY <1>7, <1>8, TellingsStay
<1>17. Base'
  BY <1>1, <1>7, <1>8, <1>11 DEF Base, ReasoningTypeOK, ProcessTyped
<1> QED BY <1>7, <1>12, <1>13, <1>14, <1>15, <1>16, <1>17

\* The first write of a stop, or the stop of an execution that is being stopped.
LEMMA StopKeeps ==
    ASSUME RInv, NEW s \in Sessions, StopRun(s)
    PROVE  RInv' /\ FencesKept
<1> USE DEF RInv
<1>1. /\ server = "up" /\ turn = NULL /\ active[s] # NULL
      /\ UNCHANGED <<active, failures, world, server, orphans, crashes>>
  BY DEF StopRun, Serving, SameProcess
<1>2. PICK t \in Token : t = active[s]
  BY <1>1 DEF Base, ReasoningTypeOK
<1>3. PICK g \in 1 .. MaxGeneration : /\ g = session[s].generation /\ IsRun(s, g)
                                      /\ t = TokenOf(s) /\ Live(s)
  BY <1>1, <1>2 DEF Registered
<1>4. t.session = s /\ t.generation = g /\ IsCurrent(t)
  BY <1>3 DEF TokenOf, IsCurrent
<1>5. runs[s][g].token = t
  BY <1>3, RunTyped
<1>6. /\ \/ TransitionExecution(t, "STOPPING", NULL)
         \/ session[s].phase = "STOPPING" /\ UNCHANGED ledgerTables
      /\ turn' = [kind |-> "cancel", token |-> t]
      /\ runs' = [runs EXCEPT ![s][g].aborted = TRUE]
  BY <1>2, <1>4 DEF StopRun
<1>7. /\ ExecutionsKept /\ AdmissionsGrow /\ IdsKept /\ OpenKept /\ NoNewDoubt
      /\ NoOutcome /\ VerdictsKept /\ FencesKept /\ Tables' /\ AttemptsNamed'
      /\ UNCHANGED <<admissions, attempts>>
      /\ \A x \in Sessions \ {s} : session'[x] = session[x]
      /\ session'[s].phase = "STOPPING"
  <2>1. CASE TransitionExecution(t, "STOPPING", NULL)
    <3>1. NULL # "completed" /\ NULL \in ExecutionReasons \cup {NULL}
      BY NullAssumption, ReasoningReasonAssumption
    <3> QED BY <1>4, <2>1, <3>1, TransitionEffects
  <2>2. CASE session[s].phase = "STOPPING" /\ UNCHANGED ledgerTables
    BY <2>2, QuietEffects
  <2> QED BY <1>6, <2>1, <2>2
<1>8. UNCHANGED <<dispatched, lost, confirmed, told>>
  BY <1>1 DEF world
<1>9. PICK run \in Run : run = runs[s][g]
  BY <1>3, RunTyped
<1>10. PICK v : v = [run EXCEPT !.aborted = TRUE]
  OBVIOUS
<1>11. /\ v \in Run /\ v.token = run.token /\ v.clientMsgId = run.clientMsgId
       /\ v.stage = run.stage /\ v.call = run.call /\ v.aborted = TRUE
  BY <1>9, <1>10 DEF Run
<1>12. RunsTyped' /\ OtherRunsSame(s, g) /\ runs'[s][g] = v /\ v # NULL
  <2>1. v \in Run \cup {NULL} /\ v # NULL
    BY <1>11, AbsentAssumption
  <2>2. runs \in [Sessions -> [1 .. MaxGeneration -> Run \cup {NULL}]]
    BY DEF Base, ReasoningTypeOK
  <2>3. runs' = [runs EXCEPT ![s][g] = v]
    BY <1>6, <1>9, <1>10, <2>2
  <2> QED BY <2>1, <2>3, RunReplaced
<1>13. \A x \in Sessions, h \in 1 .. MaxGeneration :
          /\ IsRun(x, h)' <=> IsRun(x, h)
          /\ IsRun(x, h) => /\ runs'[x][h].token = runs[x][h].token
                            /\ runs'[x][h].clientMsgId = runs[x][h].clientMsgId
                            /\ runs'[x][h].stage = runs[x][h].stage
                            /\ runs'[x][h].call = runs[x][h].call
                            /\ runs[x][h].aborted => runs'[x][h].aborted
  <2> SUFFICES ASSUME NEW x \in Sessions, NEW h \in 1 .. MaxGeneration
               PROVE  /\ IsRun(x, h)' <=> IsRun(x, h)
                      /\ IsRun(x, h) => /\ runs'[x][h].token = runs[x][h].token
                                        /\ runs'[x][h].clientMsgId = runs[x][h].clientMsgId
                                        /\ runs'[x][h].stage = runs[x][h].stage
                                        /\ runs'[x][h].call = runs[x][h].call
                                        /\ runs[x][h].aborted => runs'[x][h].aborted
    OBVIOUS
  <2>1. CASE x = s /\ h = g
    BY <1>3, <1>9, <1>11, <1>12, <2>1 DEF IsRun
  <2>2. CASE x # s \/ h # g
    BY <1>12, <2>2 DEF OtherRunsSame, IsRun
  <2> QED BY <2>1, <2>2
<1>14. RunsNarrowed /\ ProgressKept /\ NoCallDispatched /\ SettledStay
  <2>1. RunsNarrowed
    BY <1>13 DEF RunsNarrowed
  <2>2. ProgressKept
    BY <1>13 DEF ProgressKept
  <2>3. NoCallDispatched
    BY <1>13 DEF NoCallDispatched
  <2>4. SettledStay
    BY <1>13 DEF SettledStay
  <2> QED BY <2>1, <2>2, <2>3, <2>4
<1>15. turn' \in Turn /\ turn' # NULL /\ turn'.kind = "cancel" /\ turn'.token = t
  BY <1>6, AbsentAssumption DEF Turn
<1>16. ExecutionsNumbered' /\ RunsNamed' /\ IdleWhenDown'
  <2>1. ExecutionsNumbered'
    <3>1. \A x \in Sessions : session'[x].phase # "NONE" => session[x].phase # "NONE"
      BY <1>3, <1>7 DEF Live, ActivePhases
    <3> QED BY <1>7, <3>1 DEF ExecutionsNumbered, ExecutionsKept
  <2>2. RunsNamed'
    BY <1>7, <1>14, RunsNamedKept
  <2>3. IdleWhenDown'
    BY <1>1 DEF IdleWhenDown
  <2> QED BY <2>1, <2>2, <2>3
<1>17. \A x \in Sessions : TokenOf(x)' = TokenOf(x) /\ Live(x)' = Live(x)
  <2>1. \A x \in Sessions : TokenOf(x)' = TokenOf(x)
    BY <1>7 DEF TokenOf, ExecutionsKept
  <2>2. \A x \in Sessions : Live(x)' = Live(x)
    BY <1>3, <1>7 DEF Live, ActivePhases
  <2> QED BY <2>1, <2>2
<1>18. Registered'
  <2> SUFFICES ASSUME NEW x \in Sessions
               PROVE  /\ active[x] # NULL =>
                            /\ active[x] = TokenOf(x) /\ Live(x)
                            /\ session[x].generation \in 1 .. MaxGeneration
                            /\ IsRun(x, session[x].generation)'
                      /\ (/\ Live(x) /\ session[x].generation \in 1 .. MaxGeneration
                          /\ IsRun(x, session[x].generation)') => active[x] = TokenOf(x)
    BY <1>1, <1>7, <1>17 DEF Registered, ExecutionsKept
  <2>1. session'[x].generation = session[x].generation
    BY <1>7 DEF ExecutionsKept
  <2> QED BY <1>1, <1>13, <2>1 DEF Registered, IsRun
<1>19. TurnCurrent'
  <2>1. /\ t = TokenOf(s)' /\ session'[s].phase = "STOPPING" /\ IsRun(s, g)'
        /\ active'[s] = t /\ runs'[s][g].aborted
    BY <1>1, <1>2, <1>3, <1>7, <1>11, <1>12, <1>13, <1>17
  <2> QED BY <1>4, <1>15, <2>1 DEF TurnCurrent, IsRun
<1>20. StopMarked'
  <2> SUFFICES ASSUME NEW x \in Sessions, NEW h \in 1 .. MaxGeneration, IsRun(x, h)'
               PROVE  IF runs'[x][h].aborted
                      THEN \/ h = session'[x].generation /\ session'[x].phase = "STOPPING"
                           \/ TerminalReason(runs[x][h].token)' \notin {NULL, "completed"}
                      ELSE h = session'[x].generation /\ session'[x].phase = "RUNNING"
    BY <1>13 DEF StopMarked
  <2>1. IsRun(x, h)
    BY <1>13
  <2>2. CASE x = s /\ h = g
    BY <1>3, <1>7, <1>11, <1>12, <2>2 DEF ExecutionsKept
  <2>3. CASE x # s \/ h # g
    <3>1. runs'[x][h] = runs[x][h]
      BY <1>12, <2>3 DEF OtherRunsSame
    <3>2. PICK u \in Token : u = runs[x][h].token
      BY <2>1, RunTyped
    <3>3. TerminalReason(runs[x][h].token)' = TerminalReason(u)
      BY <1>7, <3>1, <3>2 DEF NoOutcome
    <3>4. IF runs[x][h].aborted
          THEN \/ h = session[x].generation /\ session[x].phase = "STOPPING"
               \/ TerminalReason(u) \notin {NULL, "completed"}
          ELSE h = session[x].generation /\ session[x].phase = "RUNNING"
      BY <2>1, <3>2 DEF StopMarked
    <3>5. CASE x # s
      BY <1>7, <3>1, <3>3, <3>4, <3>5
    <3>6. CASE x = s
      BY <1>3, <2>3, <3>1, <3>3, <3>4, <3>6
    <3> QED BY <3>5, <3>6
  <2> QED BY <2>2, <2>3
<1>21. /\ DispatchesRecorded' /\ InFlightKept' /\ FailuresSeen' /\ LostMarked'
       /\ AmbiguityConfirmed'
  BY <1>7, <1>8, <1>14, Narrowing
<1>22. TellingsHold'
  BY <1>7, <1>8, TellingsStay
<1>23. Base'
  BY <1>1, <1>7, <1>8, <1>12, <1>15
  DEF Base, ReasoningTypeOK, RunsTyped, ProcessTyped
<1> QED BY <1>7, <1>16, <1>18, <1>19, <1>20, <1>21, <1>22, <1>23

-----------------------------------------------------------------------------
(* Crash and recovery.                                                     *)

\* Nothing runs.
Idle ==
    /\ turn = NULL
    /\ \A s \in Sessions : active[s] = NULL /\ \A g \in 1 .. MaxGeneration : ~IsRun(s, g)

\* What is said of runs and of a turn holds when there are none.
LEMMA NothingRuns ==
    ASSUME Idle'
    PROVE  /\ RunsNamed' /\ TurnCurrent' /\ StopMarked' /\ FailuresSeen' /\ Registered'
           /\ RunsNarrowed /\ SettledStay /\ NoCallDispatched
<1>1. RunsNamed' /\ TurnCurrent' /\ StopMarked'
  BY DEF Idle, RunsNamed, TurnCurrent, StopMarked
<1>2. FailuresSeen' /\ RunsNarrowed /\ SettledStay
  BY DEF Idle, FailuresSeen, RunsNarrowed, SettledStay
<1>3. NoCallDispatched
  BY DEF Idle, NoCallDispatched
<1>4. Registered'
  BY DEF Idle, Registered
<1> QED BY <1>1, <1>2, <1>3, <1>4

LEMMA CrashKeeps ==
    ASSUME RInv, CrashRuns
    PROVE  RInv' /\ FencesKept
<1> USE DEF RInv
<1>1. /\ UNCHANGED <<ledgerTables, failures, dispatched, confirmed, told>>
      /\ server' = "starting" /\ orphans' = {} /\ crashes' = crashes + 1
      /\ runs' = [s \in Sessions |-> [g \in 1 .. MaxGeneration |-> NULL]]
      /\ active' = [s \in Sessions |-> NULL] /\ turn' = NULL
  BY DEF CrashRuns, Crash
<1>2. Idle'
  BY <1>1 DEF Idle, IsRun
<1>3. /\ ExecutionsKept /\ AdmissionsGrow /\ IdsKept /\ OpenKept /\ NoNewDoubt
      /\ NoOutcome /\ VerdictsKept /\ FencesKept
      /\ Tables' /\ AttemptsNamed' /\ UNCHANGED <<session, admissions, attempts>>
  BY <1>1, QuietEffects
<1>4. /\ RunsNamed' /\ TurnCurrent' /\ StopMarked' /\ FailuresSeen' /\ Registered'
      /\ RunsNarrowed /\ SettledStay /\ NoCallDispatched
  BY <1>2, NothingRuns
<1>5. ExecutionsNumbered' /\ IdleWhenDown'
  BY <1>1, <1>2, <1>3 DEF ExecutionsNumbered, IdleWhenDown, Idle
<1>6. DispatchesRecorded' /\ TellingsHold' /\ InFlightKept'
  BY <1>1, <1>3, <1>4, DispatchesKept, TellingsStay, NoneRecorded, InFlightStays
<1>7. AmbiguityConfirmed'
  <2>1. DoubtCurrent /\ \A x \in Sessions : session[x].generation \in Nat
    BY <1>3, BoundAssumption DEF DoubtCurrent, NoNewDoubt, ExecutionsNumbered
  <2> QED BY <1>1, <1>3, <2>1, ConfirmedStays
<1>8. /\ lost' \in [Sessions -> SUBSET (1 .. MaxGeneration)]
      /\ \A s \in Sessions : \A g \in lost'[s] :
            \/ g \in lost[s]
            \/ g \in 1 .. MaxGeneration /\ IsRun(s, g) /\ InFlight(runs[s][g]) # {}
  <2>1. lost \in [Sessions -> SUBSET (1 .. MaxGeneration)]
    BY DEF Base, ReasoningTypeOK
  <2>2. lost' = [s \in Sessions |-> lost[s] \cup
                   {g \in 1 .. MaxGeneration : runs[s][g] # NULL /\ InFlight(runs[s][g]) # {}}]
    BY DEF CrashRuns
  <2> QED BY <2>1, <2>2 DEF IsRun
<1>9. LostMarked'
  <2>1. LostKept
    BY <1>3, <1>4, LostStays
  <2> SUFFICES ASSUME NEW s \in Sessions, NEW g \in lost'[s]
               PROVE  \E r \in attempts'[s] : /\ r.generation = g
                                              /\ r.reason = "ambiguous" \/ r.phase = "RUNNING"
    BY <1>2 DEF LostMarked, Idle
  <2>2. CASE g \in lost[s]
    BY <2>1, <2>2 DEF LostKept
  <2>3. CASE g \in 1 .. MaxGeneration /\ IsRun(s, g) /\ InFlight(runs[s][g]) # {}
    <3>1. PICK p \in PhaseNames : runs[s][g].call[p] = "inflight"
      BY <2>3 DEF InFlight
    <3>2. CallOpen(s, g, p)
      BY <2>3, <3>1, CallInFlight
    <3> QED BY <1>3, <3>2 DEF CallOpen
  <2> QED BY <1>8, <2>2, <2>3
<1>10. Base'
  <2>1. RunsTyped' /\ active' \in [Sessions -> Token \cup {NULL}]
    BY <1>1 DEF RunsTyped
  <2>2. ProcessTyped'
    BY <1>1 DEF ProcessTyped, Base
  <2> QED BY <1>1, <1>3, <1>8, <2>1, <2>2 DEF Base, ReasoningTypeOK, RunsTyped
<1> QED BY <1>3, <1>4, <1>5, <1>6, <1>7, <1>9, <1>10

\* A step of recovery, as far as the runs are concerned: there are none.
LEMMA Recovering ==
    ASSUME RInv, server # "up", UNCHANGED <<process, world>>,
           AdmissionsGrow, ExecutionsKept, IdsKept, OpenKept, VerdictsKept, DoubtCurrent,
           \A x \in Sessions : session'[x].phase # "NONE" => session[x].phase # "NONE",
           server' # "recovering" => orphans' = {},
           Tables', ProcessTyped', AttemptsNamed'
    PROVE  RInv'
<1> USE DEF RInv
<1>1. UNCHANGED <<runs, active, turn, failures, dispatched, lost, confirmed, told>>
  BY DEF process, world
<1>2. Idle'
  <2>1. Idle
    BY DEF IdleWhenDown, Idle
  <2> QED BY <1>1, <2>1 DEF Idle, IsRun
<1>3. /\ RunsNamed' /\ TurnCurrent' /\ StopMarked' /\ FailuresSeen' /\ Registered'
      /\ RunsNarrowed /\ SettledStay /\ NoCallDispatched
  BY <1>2, NothingRuns
<1>4. ExecutionsNumbered'
  BY DEF ExecutionsNumbered, ExecutionsKept
<1>5. IdleWhenDown'
  BY <1>2 DEF IdleWhenDown, Idle
<1>6. DispatchesRecorded' /\ TellingsHold' /\ LostMarked' /\ InFlightKept'
  BY <1>1, <1>3, DispatchesKept, TellingsStay, LostStays, LostSame, NoneRecorded, InFlightStays
<1>7. AmbiguityConfirmed'
  <2>1. \A x \in Sessions : session[x].generation \in Nat
    BY BoundAssumption DEF ExecutionsNumbered
  <2> QED BY <1>1, <2>1, ConfirmedStays
<1>8. Base'
  BY <1>1 DEF Base, ReasoningTypeOK
<1> QED BY <1>3, <1>4, <1>5, <1>6, <1>7, <1>8

LEMMA RecoverKeeps ==
    ASSUME RInv, RecoverRuns
    PROVE  RInv' /\ FencesKept
<1> USE DEF RInv
<1>1. Recover /\ UNCHANGED <<process, world>>
  BY DEF RecoverRuns
<1>2. orphans \subseteq Token /\ (orphans # {} => server = "recovering")
  BY DEF Base, ProcessTyped, IdleWhenDown
<1>3. CASE ScanOrphans \/ FinishRecovery
  <2>1. /\ ExecutionsKept /\ AdmissionsGrow /\ IdsKept /\ OpenKept /\ NoNewDoubt
        /\ NoOutcome /\ VerdictsKept /\ FencesKept
        /\ Tables' /\ AttemptsNamed' /\ UNCHANGED <<session, admissions, attempts>>
    BY <1>3, QuietEffects DEF ScanOrphans, FinishRecovery
  <2>2. DoubtCurrent
    BY <2>1 DEF DoubtCurrent, NoNewDoubt
  <2>3. ProcessTyped'
    <3>1. \A s \in Sessions : Orphaned(s) => TokenOf(s) \in Token
      BY DEF Base, Tables, RowsNamed, TablesTyped, SessionRow, Orphaned, ActivePhases, TokenOf, Token
    <3> QED BY <1>3, <3>1 DEF ScanOrphans, FinishRecovery, ProcessTyped, Base
  <2>4. server # "up" /\ (server' # "recovering" => orphans' = {})
    BY <1>3 DEF ScanOrphans, FinishRecovery
  <2> QED BY <1>1, <2>1, <2>2, <2>3, <2>4, Recovering
<1>4. ASSUME NEW t \in orphans, RecoverExecution(t) PROVE RInv' /\ FencesKept
  <2>1. /\ t \in Token /\ TransitionExecution(t, "TERMINAL", "server_restart")
        /\ orphans' = orphans \ {t} /\ UNCHANGED <<server, crashes>>
        /\ server = "recovering"
    BY <1>2, <1>4 DEF RecoverExecution
  <2>2. "server_restart" \in ExecutionReasons
    BY ReasoningReasonAssumption
  <2>3. /\ ExecutionsKept /\ AdmissionsGrow /\ IdsKept /\ OpenKept /\ NoNewDoubt
        /\ VerdictsKept /\ FencesKept /\ Tables' /\ AttemptsNamed'
        /\ Live(t.session) /\ t.session \in Sessions
        /\ \A x \in Sessions \ {t.session} : session'[x] = session[x]
    BY <2>1, <2>2, TransitionEffects DEF Token
  <2>4. DoubtCurrent /\ \A x \in Sessions : session'[x].phase # "NONE" => session[x].phase # "NONE"
    BY <2>3 DEF DoubtCurrent, NoNewDoubt, Live, ActivePhases
  <2>5. ProcessTyped'
    BY <2>1 DEF ProcessTyped, Base
  <2> QED BY <1>1, <2>1, <2>3, <2>4, <2>5, Recovering
<1>5. ASSUME NEW t \in orphans, NEW row \in RunningAttempts(t), RecoverAttempt(t, row)
      PROVE  RInv' /\ FencesKept
  <2>1. /\ t \in Token /\ TransitionProviderAttempt(t, row, "ambiguous")
        /\ UNCHANGED <<server, orphans, crashes>> /\ server = "recovering"
    BY <1>2, <1>5 DEF RecoverAttempt
  <2>2. /\ ExecutionsKept /\ AdmissionsGrow /\ IdsKept /\ VerdictsKept /\ FencesKept
        /\ OpenKept /\ Tables' /\ AttemptsNamed' /\ UNCHANGED <<session, admissions>>
        /\ IsCurrent(t) /\ AttemptReplaced(t, row, "ambiguous")
        /\ \A x \in Sessions \ {t.session} : attempts'[x] = attempts[x]
    BY <2>1, EndEffects
  <2>3. DoubtCurrent
    BY <2>2 DEF DoubtCurrent, AttemptReplaced, IsCurrent
  <2>4. ProcessTyped'
    BY <2>1 DEF ProcessTyped, Base
  <2> QED BY <1>1, <2>1, <2>2, <2>3, <2>4, Recovering
<1> QED BY <1>1, <1>3, <1>4, <1>5 DEF Recover

LEMMA StutterKeeps ==
    ASSUME RInv, UNCHANGED reasoningVars
    PROVE  RInv' /\ FencesKept
<1> USE DEF RInv
<1>1. UNCHANGED <<ledgerTables, server, orphans, crashes, runs, active, turn, failures,
                  dispatched, lost, confirmed, told>>
  BY DEF reasoningVars, vars, process, world, ledgerTables
<1>2. /\ ExecutionsKept /\ AdmissionsGrow /\ IdsKept /\ OpenKept /\ NoNewDoubt
      /\ NoOutcome /\ VerdictsKept /\ FencesKept
      /\ Tables' /\ AttemptsNamed' /\ UNCHANGED <<session, admissions, attempts>>
  BY <1>1, QuietEffects
<1>3. /\ RunsNarrowed /\ ProgressKept /\ NoCallDispatched /\ SettledStay
      /\ ExecutionsNumbered' /\ RunsNamed' /\ IdleWhenDown' /\ Registered' /\ TurnCurrent'
      /\ StopMarked'
  BY <1>1, <1>2, Resting
<1>4. /\ DispatchesRecorded' /\ InFlightKept' /\ FailuresSeen' /\ LostMarked'
      /\ AmbiguityConfirmed' /\ TellingsHold'
  BY <1>1, <1>2, <1>3, Narrowing, TellingsStay
<1>5. Base'
  BY <1>1, <1>2 DEF Base, ReasoningTypeOK, ProcessTyped
<1> QED BY <1>2, <1>3, <1>4, <1>5

-----------------------------------------------------------------------------
(* The invariant.                                                          *)

LEMMA InitEstablishesRInv == ReasoningInit => RInv
<1> SUFFICES ASSUME ReasoningInit PROVE RInv
  OBVIOUS
<1>1. /\ Init /\ turn = NULL /\ failures = 0
      /\ runs = [s \in Sessions |-> [g \in 1 .. MaxGeneration |-> NULL]]
      /\ active = [s \in Sessions |-> NULL]
      /\ dispatched = [s \in Sessions |-> [c \in ClientMsgIds \X PhaseNames |-> 0]]
      /\ lost = [s \in Sessions |-> {}]
      /\ confirmed = [s \in Sessions |-> {}]
      /\ told = [s \in Sessions |-> [m \in ClientMsgIds |-> {}]]
  BY DEF ReasoningInit
<1>2. Tables /\ ProcessTyped
  BY <1>1, InitEstablishesIInv DEF IInv
<1>3. /\ \A s \in Sessions : session[s].generation = 0 /\ session[s].phase = "NONE"
      /\ \A s \in Sessions : attempts[s] = {}
      /\ orphans = {}
  BY <1>1 DEF Init
<1>4. \A s \in Sessions : active[s] = NULL /\ \A g \in 1 .. MaxGeneration : ~IsRun(s, g)
  BY <1>1 DEF IsRun
<1>5. ReasoningTypeOK
  <2>1. RunsTyped /\ active \in [Sessions -> Token \cup {NULL}] /\ turn \in Turn \cup {NULL}
    BY <1>1 DEF RunsTyped
  <2>2. failures \in 0 .. MaxFailures
    BY <1>1, FailuresAssumption
  <2>3. /\ dispatched \in [Sessions -> [ClientMsgIds \X PhaseNames -> Nat]]
        /\ lost \in [Sessions -> SUBSET (1 .. MaxGeneration)]
        /\ confirmed \in [Sessions -> SUBSET (1 .. MaxGeneration)]
        /\ told \in [Sessions -> [ClientMsgIds -> SUBSET Statuses]]
    BY <1>1
  <2> QED BY <2>1, <2>2, <2>3 DEF ReasoningTypeOK, RunsTyped
<1>6. ExecutionsNumbered /\ AttemptsNamed /\ IdleWhenDown /\ Registered
  BY <1>1, <1>3, <1>4, BoundAssumption
  DEF ExecutionsNumbered, AttemptsNamed, IdleWhenDown, Registered
<1>7. RunsNamed /\ TurnCurrent /\ StopMarked /\ FailuresSeen
  BY <1>1, <1>4 DEF RunsNamed, TurnCurrent, StopMarked, FailuresSeen
<1>8. InFlightKept
  BY <1>4 DEF InFlightKept
<1>9. DispatchesRecorded
  BY <1>1 DEF DispatchesRecorded
<1>10. LostMarked /\ AmbiguityConfirmed /\ TellingsHold
  BY <1>1, <1>3 DEF LostMarked, AmbiguityConfirmed, TellingsHold
<1> QED BY <1>2, <1>5, <1>6, <1>7, <1>8, <1>9, <1>10 DEF RInv, Base

LEMMA RunStepKeeps ==
    ASSUME RInv, NEW s \in Sessions, NEW g \in 1 .. MaxGeneration, RunStep(s, g)
    PROVE  RInv' /\ FencesKept
<1>1. Serving /\ SameProcess /\ IsRun(s, g)
  BY DEF RunStep, IsRun
<1>2. PICK run : run = runs[s][g]
  OBVIOUS
<1>3. \/ \E p \in PhaseNames :
            \/ DispatchCall(run, p) \/ RefuseCall(run, p)
            \/ \E answered \in BOOLEAN : SettleCall(run, p, answered)
            \/ SettleUnrecorded(run, p)
      \/ AdvanceStage(run) \/ CompleteRun(run) \/ FailRun(run)
      \/ CancelledRunEnds(run) \/ RunThrows(run)
  BY <1>2 DEF RunStep
<1>4. ASSUME NEW p \in PhaseNames, DispatchCall(run, p) PROVE RInv' /\ FencesKept
  BY <1>1, <1>2, <1>4, DispatchKeeps
<1>5. ASSUME NEW p \in PhaseNames, RefuseCall(run, p) PROVE RInv' /\ FencesKept
  BY <1>1, <1>2, <1>5, RefuseKeeps
<1>6. ASSUME NEW p \in PhaseNames, NEW answered \in BOOLEAN, SettleCall(run, p, answered)
      PROVE  RInv' /\ FencesKept
  BY <1>1, <1>2, <1>6, SettleKeeps
<1>7. ASSUME NEW p \in PhaseNames, SettleUnrecorded(run, p) PROVE RInv' /\ FencesKept
  BY <1>1, <1>2, <1>7, SettleUnrecordedKeeps
<1>8. CASE AdvanceStage(run)
  BY <1>1, <1>2, <1>8, AdvanceKeeps
<1>9. CASE CompleteRun(run)
  BY <1>1, <1>2, <1>9, CompleteKeeps
<1>10. CASE FailRun(run)
  BY <1>1, <1>2, <1>10, FailKeeps
<1>11. CASE CancelledRunEnds(run)
  BY <1>1, <1>2, <1>11, CancelledKeeps
<1>12. CASE RunThrows(run)
  BY <1>1, <1>2, <1>12, ThrowKeeps
<1> QED BY <1>3, <1>4, <1>5, <1>6, <1>7, <1>8, <1>9, <1>10, <1>11, <1>12

LEMMA StepKeeps ==
    ASSUME RInv, [ReasoningNext]_reasoningVars
    PROVE  RInv' /\ FencesKept
<1>1. ASSUME NEW s \in Sessions, Command(s) PROVE RInv' /\ FencesKept
  <2>1. SameProcess
    BY <1>1 DEF Command, StartRun, RetryRun
  <2> QED BY <1>1, <2>1, StartKeeps, RetryKeeps DEF Command
<1>2. ASSUME NEW s \in Sessions, StopRun(s) PROVE RInv' /\ FencesKept
  BY <1>2, StopKeeps
<1>3. ASSUME NEW s \in Sessions, NEW g \in 1 .. MaxGeneration, RunStep(s, g)
      PROVE  RInv' /\ FencesKept
  BY <1>3, RunStepKeeps
<1>4. CASE TurnStep
  BY <1>4, LaunchKeeps, AbandonKeeps, StopAttemptKeeps, StopEndsKeeps, ThrowsKeeps DEF TurnStep
<1>5. CASE CrashRuns
  BY <1>5, CrashKeeps
<1>6. CASE RecoverRuns
  BY <1>6, RecoverKeeps
<1>7. CASE UNCHANGED reasoningVars
  BY <1>7, StutterKeeps
<1> QED BY <1>1, <1>2, <1>3, <1>4, <1>5, <1>6, <1>7 DEF ReasoningNext

\* The invariant holds in every reachable state.
THEOREM ReasoningInvariance == ReasoningSpec => []RInv
<1>1. RInv /\ [ReasoningNext]_reasoningVars => RInv'
  BY StepKeeps
<1> QED BY <1>1, InitEstablishesRInv, PTL DEF ReasoningSpec

\* Every variable of the runs, of the ledger's process and of the history of the
\* world keeps its type.
THEOREM ReasoningTypes == ReasoningSpec => []ReasoningTypeOK
<1>1. RInv => ReasoningTypeOK
  BY DEF RInv, Base
<1> QED BY <1>1, ReasoningInvariance, PTL

\* Whatever is retried, stopped, crashed or recovered, one command sends each
\* phase to a provider at most once.
THEOREM CallsDispatchedAtMostOnce == ReasoningSpec => []DispatchedAtMostOnce
<1>1. ASSUME RInv PROVE DispatchedAtMostOnce
  <2> SUFFICES ASSUME NEW s \in Sessions, NEW m \in ClientMsgIds, NEW p \in PhaseNames
               PROVE  dispatched[s][<<m, p>>] <= 1
    BY DEF DispatchedAtMostOnce
  <2> QED BY <1>1 DEF RInv, DispatchesRecorded
<1> QED BY <1>1, ReasoningInvariance, PTL

\* After a call of an execution was lost, the next execution of the session was
\* started with explicit confirmation.
THEOREM LostWorkConfirmed == ReasoningSpec => []UncertainWorkConfirmed
<1>1. ASSUME RInv PROVE UncertainWorkConfirmed
  <2> SUFFICES ASSUME NEW s \in Sessions, NEW g \in lost[s], g < session[s].generation
               PROVE  g + 1 \in confirmed[s]
    BY DEF UncertainWorkConfirmed
  <2>1. PICK r \in attempts[s] : /\ r.generation = g
                                 /\ r.reason = "ambiguous" \/ r.phase = "RUNNING"
    BY <1>1 DEF RInv, LostMarked
  <2>2. g \in Nat /\ session[s].generation \in Nat
    BY <1>1, BoundAssumption DEF RInv, Base, ReasoningTypeOK, ExecutionsNumbered
  <2>3. r.phase # "RUNNING"
    BY <1>1, <2>1, <2>2 DEF RInv, Base, Tables, NoOrphanedAttempt
  <2> QED BY <1>1, <2>1, <2>3 DEF RInv, AmbiguityConfirmed
<1> QED BY <1>1, ReasoningInvariance, PTL

\* While no turn is in progress, a registered run is the live execution of its
\* session and still runs, and a live execution with a run is registered.
THEOREM StopsReachLiveRuns == ReasoningSpec => []StopReachesLiveRun
<1>1. ASSUME RInv PROVE StopReachesLiveRun
  <2> USE <1>1 DEF RInv
  <2> SUFFICES ASSUME Serving, NEW s \in Sessions
               PROVE  /\ active[s] # NULL =>
                            IsCurrent(active[s]) /\ Live(s) /\ RunOf(active[s]) # NULL
                      /\ (Live(s) /\ RunOf(TokenOf(s)) # NULL) => active[s] = TokenOf(s)
    BY DEF StopReachesLiveRun
  <2>1. turn = NULL
    BY DEF Serving
  <2>2. ASSUME active[s] # NULL
        PROVE  IsCurrent(active[s]) /\ Live(s) /\ RunOf(active[s]) # NULL
    <3>1. active[s] = TokenOf(s) /\ Live(s) /\ IsRun(s, session[s].generation)
      BY <2>2 DEF Registered
    <3>2. PICK t : t = TokenOf(s)
      OBVIOUS
    <3>3. /\ t.session = s /\ t.executionId = session[s].executionId
          /\ t.generation = session[s].generation
      BY <3>2 DEF TokenOf
    <3>4. IsCurrent(t) /\ RunOf(t) # NULL
      BY <3>1, <3>3 DEF IsCurrent, RunOf, IsRun
    <3> QED BY <3>1, <3>2, <3>4
  <2>3. ASSUME Live(s), RunOf(TokenOf(s)) # NULL
        PROVE  active[s] = TokenOf(s)
    <3>1. session[s].generation \in 1 .. MaxGeneration
      <4>1. session[s].phase # "NONE"
        BY <2>3 DEF Live, ActivePhases
      <4> QED BY <4>1, BoundAssumption DEF ExecutionsNumbered
    <3>2. IsRun(s, session[s].generation)
      BY <2>3 DEF RunOf, TokenOf, IsRun
    <3> QED BY <2>1, <2>3, <3>1, <3>2 DEF Registered
  <2> QED BY <2>2, <2>3
<1> QED BY <1>1, ReasoningInvariance, PTL

\* If one caller of a command was told that it completed, no other was told that
\* it failed, was cancelled or is uncertain, and the durable record agrees.
THEOREM CallersAgreeOnCompletion == ReasoningSpec => []CompletionAgreed
<1>1. ASSUME RInv PROVE CompletionAgreed
  <2> SUFFICES ASSUME NEW s \in Sessions, NEW m \in ClientMsgIds, "completed" \in told[s][m]
               PROVE  /\ told[s][m] \subseteq {"running", "completed"}
                      /\ \E r \in admissions[s] :
                            r.clientMsgId = m /\ Outcome(r.token) = "completed"
    BY DEF CompletionAgreed
  <2> USE <1>1 DEF RInv
  <2>1. PICK r \in admissions[s] : r.clientMsgId = m /\ Outcome(r.token) = "completed"
    BY DEF TellingsHold
  <2>2. PICK t \in Token : t = r.token
    BY DEF Base, Tables, TablesTyped, AdmissionRow
  <2>3. /\ TerminalReason(t) = "completed"
        /\ \A a \in AttemptsOf(t) : a.reason # "ambiguous"
    BY <2>1, <2>2, OutcomeRead
  <2>4. ~Doomed(t)
    <3>1. ~(IsCurrent(t) /\ session[t.session].phase = "STOPPING")
      BY <2>3, NullAssumption, ReasoningReasonAssumption, LiveWithoutOutcome
    <3> QED BY <2>3, <3>1 DEF Doomed
  <2>5. \A q \in admissions[s] : q.clientMsgId = m => q = r
    BY <2>1 DEF Base, Tables, RepliesAdmitted
  <2>6. told[s][m] \subseteq {"running", "completed"}
    BY <2>2, <2>4, <2>5 DEF TellingsHold
  <2> QED BY <2>1, <2>6
<1> QED BY <1>1, ReasoningInvariance, PTL

\* From the first write of a stop on, no further call of the stopped execution is
\* dispatched, and it never completes.
THEOREM StopsFence == ReasoningSpec => StopFences
<1> DEFINE Step == \A s \in Sessions : \A t \in {TokenOf(s)} :
               (session[s].phase = "STOPPING" \/ TerminalReason(t) = "stopped") =>
                  /\ \A id \in {r.providerAttemptId : r \in AttemptsOf(t)'} :
                        id \in {r.providerAttemptId : r \in AttemptsOf(t)}
                  /\ TerminalReason(t)' # "completed"
                  /\ Outcome(t)' # "completed"
<1>1. ASSUME RInv, FencesKept PROVE Step
  <2> SUFFICES ASSUME NEW s \in Sessions, NEW t, t = TokenOf(s),
                      session[s].phase = "STOPPING" \/ TerminalReason(t) = "stopped"
               PROVE  /\ \A r \in AttemptsOf(t)' : \E q \in AttemptsOf(t) :
                            q.providerAttemptId = r.providerAttemptId
                      /\ TerminalReason(t)' # "completed"
                      /\ Outcome(t)' # "completed"
    OBVIOUS
  <2>1. /\ t.session = s /\ t.executionId = session[s].executionId
        /\ t.generation = session[s].generation /\ session[s] \in SessionRow
    BY <1>1 DEF TokenOf, RInv, Base, Tables, TablesTyped
  <2>2. t.executionId \in ExecutionIds
    <3>1. CASE session[s].phase = "STOPPING"
      BY <1>1, <2>1, <3>1 DEF RInv, Base, Tables, RowsNamed
    <3>2. CASE TerminalReason(t) = "stopped"
      <4>1. TerminalEvents(t) # {}
        BY <3>2, NullAssumption, ReasoningReasonAssumption DEF TerminalReason
      <4>2. PICK i \in DOMAIN events[s] : /\ events[s][i].type = "execution_state_changed"
                                          /\ events[s][i].executionId = t.executionId
        BY <2>1, <4>1 DEF TerminalEvents
      <4>3. events[s][i] \in Event
        BY <1>1 DEF RInv, Base, Tables, TablesTyped
      <4> QED BY <4>2, <4>3 DEF Event, ExecutionEvent, AttemptEvent
    <3> QED BY <3>1, <3>2
  <2>3. t \in Token
    BY <2>1, <2>2 DEF TokenOf, Token, SessionRow
  <2>4. Fenced(t)
    BY <2>1 DEF Fenced, IsCurrent
  <2>5. /\ TerminalReason(t)' # "completed"
        /\ \A r \in AttemptsOf(t)' : \E q \in AttemptsOf(t) :
               q.providerAttemptId = r.providerAttemptId
    BY <1>1, <2>3, <2>4 DEF FencesKept
  <2>6. Outcome(t)' # "completed"
    BY <2>5, OutcomeRead
  <2> QED BY <2>5, <2>6
<1>2. RInv /\ [ReasoningNext]_reasoningVars => [Step]_reasoningVars
  BY <1>1, StepKeeps
<1> QED BY <1>2, ReasoningInvariance, PTL DEF ReasoningSpec, StopFences
=============================================================================
