----------------------- MODULE ExecutionLedgerProofs -----------------------
(***************************************************************************)
(* Proofs about ExecutionLedger, for all values of its constants: types,   *)
(* no orphaned attempt, one execution per client message, final outcomes;  *)
(* that its event log rebuilds the tables; and that the executions read    *)
(* from the log live as ExecutionLifecycle has them live.                  *)
(*                                                                         *)
(* The invariant is a statement about the tables alone (Tables), kept by   *)
(* each of the five operations whoever calls them; the process around them *)
(* (callers, crash, recovery) only adds its own types.  That the log       *)
(* rebuilds the tables is inductive on it: an execution event becomes the  *)
(* session's last one, an attempt's event takes the place of the attempt's *)
(* earlier ones.  For the refinement the log must also be complete:        *)
(* Chronicled says so, and CallsNamed that an attempt id stands for one    *)
(* attempt.                                                                *)
(***************************************************************************)
EXTENDS ExecutionLedger, SequenceTheorems, WellFoundedInduction, TLAPS

-----------------------------------------------------------------------------
(* The inductive invariant.                                                *)

TablesTyped ==
    /\ session \in [Sessions -> SessionRow]
    /\ admissions \in [Sessions -> SUBSET AdmissionRow]
    /\ attempts \in [Sessions -> SUBSET AttemptRow]
    /\ events \in [Sessions -> Seq(Event)]
    /\ replies \in [Sessions -> SUBSET AdmissionRow]

ProcessTyped ==
    /\ server \in {"up", "starting", "recovering"}
    /\ orphans \in SUBSET Token
    /\ crashes \in Nat

\* A session that ran something names its execution.
RowsNamed ==
    \A s \in Sessions : session[s].phase # "NONE" => session[s].executionId \in ExecutionIds

\* Attempt numbers are bounded, so that the largest one exists.
AttemptsNumbered ==
    \A s \in Sessions : \A r \in attempts[s] : r.attempt <= Len(events[s])

\* Whatever was answered for a client message is its only admission.
RepliesAdmitted ==
    \A s \in Sessions :
        /\ replies[s] \subseteq admissions[s]
        /\ \A r1, r2 \in admissions[s] : r1.clientMsgId = r2.clientMsgId => r1 = r2

IsExecutionEvent(s, i) == events[s][i].type = "execution_state_changed"

\* The log is never ahead of the row, and once it holds the end of the current
\* execution the row is TERMINAL.
LogNotAhead ==
    \A s \in Sessions : \A i \in DOMAIN events[s] :
        IsExecutionEvent(s, i) =>
            /\ events[s][i].generation <= session[s].generation
            /\ (/\ events[s][i].generation = session[s].generation
                /\ events[s][i].phase = "TERMINAL")
                   => session[s].phase = "TERMINAL"

Tables ==
    /\ TablesTyped
    /\ RowsNamed
    /\ NoOrphanedAttempt
    /\ AttemptsNumbered
    /\ RepliesAdmitted
    /\ LogNotAhead

IInv == Tables /\ ProcessTyped

-----------------------------------------------------------------------------
(* Helpers.                                                                *)

\* A nonempty set of naturals with an upper bound has a largest element.
LEMMA LargestExists ==
    ASSUME NEW S \in SUBSET Nat, S # {}, NEW b \in Nat, \A n \in S : n <= b
    PROVE  \E m \in S : \A n \in S : n <= m
<1> DEFINE T == {n \in Nat : \A x \in S : x <= n}
           R == OpToRel(<, Nat)
<1>1. T \subseteq Nat /\ T # {}
  OBVIOUS
<1>2. PICK m \in T : \A y \in T : ~(<<y, m>> \in R)
  <2> HIDE DEF T
  <2> QED BY <1>1, WFMin, NatLessThanWellFounded
<1>3. \A y \in T : ~(y < m)
  BY <1>2 DEF OpToRel
<1>4. CASE m \in S
  BY <1>4
<1>5. CASE m \notin S
  <2>1. \A x \in S : x < m
    BY <1>5
  <2>2. m > 0
    <3>1. PICK x \in S : x \in Nat
      OBVIOUS
    <3>2. m \in Nat /\ x < m
      BY <2>1
    <3> QED BY <3>1, <3>2
  <2>3. m - 1 \in T
    BY <2>1, <2>2
  <2> QED BY <2>2, <2>3, <1>3
<1> QED BY <1>4, <1>5

\* The number given to a new attempt is a natural number, at most one more than
\* the number of events of the session.
LEMMA NextAttemptBound ==
    ASSUME TablesTyped, AttemptsNumbered, NEW t \in Token
    PROVE  NextAttempt(t) \in Nat /\ NextAttempt(t) <= Len(events[t.session]) + 1
<1> DEFINE S == {r.attempt : r \in AttemptsOf(t)}
           b == Len(events[t.session])
<1>1. t.session \in Sessions
  BY DEF Token
<1>2. b \in Nat
  BY <1>1 DEF TablesTyped
<1>3. \A r \in AttemptsOf(t) : r.attempt \in Nat /\ r.attempt <= b
  BY <1>1 DEF TablesTyped, AttemptsNumbered, AttemptsOf, AttemptRow
<1>4. CASE AttemptsOf(t) = {}
  BY <1>2, <1>4 DEF NextAttempt
<1>5. CASE AttemptsOf(t) # {}
  <2>1. S \in SUBSET Nat /\ S # {} /\ \A n \in S : n <= b
    BY <1>3, <1>5
  <2>2. \E m \in S : \A n \in S : n <= m
    <3> HIDE DEF S, b
    <3> QED BY <2>1, <1>2, LargestExists
  <2>3. \E m \in S : \A r \in AttemptsOf(t) : r.attempt <= m
    BY <2>2
  <2> DEFINE largest == CHOOSE n \in S : \A r \in AttemptsOf(t) : r.attempt <= n
  <2>4. largest \in S
    BY <2>3
  <2>5. largest \in Nat /\ largest <= b
    BY <2>1, <2>4
  <2>6. NextAttempt(t) = 1 + largest
    BY <1>5 DEF NextAttempt
  <2> HIDE DEF largest
  <2> QED BY <2>5, <2>6, <1>2
<1> QED BY <1>4, <1>5

\* Appending a well-formed event keeps the log typed, adds one position and
\* leaves the others alone.
LEMMA RecordAppends ==
    ASSUME TablesTyped, NEW s \in Sessions, NEW e \in Event, Record(s, e)
    PROVE  /\ events' \in [Sessions -> Seq(Event)]
           /\ \A x \in Sessions \ {s} : events'[x] = events[x]
           /\ Len(events'[s]) = Len(events[s]) + 1
           /\ DOMAIN events'[s] = DOMAIN events[s] \cup {Len(events[s]) + 1}
           /\ Len(events[s]) + 1 \notin DOMAIN events[s]
           /\ \A i \in DOMAIN events[s] : events'[s][i] = events[s][i]
           /\ events'[s][Len(events[s]) + 1] = e
<1>1. events \in [Sessions -> Seq(Event)] /\ events[s] \in Seq(Event)
  BY DEF TablesTyped
<1>2. events'[s] = Append(events[s], e)
  BY <1>1 DEF Record
<1>3. \A x \in Sessions \ {s} : events'[x] = events[x]
  BY <1>1 DEF Record
<1>4. events' \in [Sessions -> Seq(Event)]
  BY <1>1 DEF Record
<1> QED BY <1>1, <1>2, <1>3, <1>4

\* The log of every session only grows, by at most one event.
LEMMA LogGrows ==
    ASSUME TablesTyped, NEW s \in Sessions, NEW e \in Event, Record(s, e),
           NEW x \in Sessions
    PROVE  /\ Len(events[x]) \in Nat
           /\ Len(events'[x]) \in Nat
           /\ Len(events[x]) <= Len(events'[x])
           /\ \A n \in Nat : n <= Len(events[x]) => n <= Len(events'[x])
<1>1. Len(events[x]) \in Nat /\ Len(events[s]) \in Nat
  BY DEF TablesTyped
<1>2. CASE x = s
  BY <1>1, <1>2, RecordAppends
<1>3. CASE x # s
  BY <1>1, <1>3, RecordAppends
<1> QED BY <1>2, <1>3

\* Every issued token is well formed and not ahead of its session.
LEMMA IssuedTyped ==
    ASSUME Tables, NEW s \in Sessions, NEW t \in Issued(s)
    PROVE  t \in Token /\ t.session = s /\ t.generation <= session[s].generation
<1>1. PICK i \in DOMAIN events[s] :
         /\ IsExecutionEvent(s, i)
         /\ t = [session |-> s, executionId |-> events[s][i].executionId,
                 generation |-> events[s][i].generation]
  BY DEF Issued, IsExecutionEvent
<1>2. events[s][i] \in Event
  BY DEF Tables, TablesTyped
<1>3. events[s][i] \in ExecutionEvent
  BY <1>1, <1>2 DEF Event, AttemptEvent, IsExecutionEvent
<1> QED BY <1>1, <1>3 DEF Tables, LogNotAhead, Token, ExecutionEvent

-----------------------------------------------------------------------------
(* Each operation keeps the tables.                                        *)

LEMMA BeginKeepsTables ==
    ASSUME Tables, NEW s \in Sessions, NEW requested \in ExecutionIds \cup {NULL},
           NEW m \in ClientMsgIds \cup {NULL}, NEW f \in Fingerprints,
           BeginExecution(s, requested, m, f)
    PROVE  Tables'
<1> USE DEF Tables
<1>1. PICK e \in AcceptedIds(requested) :
         LET t == [session |-> s, executionId |-> e,
                   generation |-> session[s].generation + 1]
         IN /\ session' = [session EXCEPT ![s] =
                   [executionId |-> e, generation |-> t.generation,
                    phase |-> "RUNNING", reason |-> NULL]]
            /\ Record(s, ExecutionEventOf(t, "RUNNING", NULL))
            /\ Admit(s, m, f, t)
  BY DEF BeginExecution
<1> DEFINE t == [session |-> s, executionId |-> e,
                 generation |-> session[s].generation + 1]
           event == ExecutionEventOf(t, "RUNNING", NULL)
<1>2. e \in ExecutionIds
  BY DEF AcceptedIds
<1>3. session[s] \in SessionRow /\ session[s].generation \in Nat
  BY DEF TablesTyped, SessionRow
<1>4. t \in Token
  BY <1>2, <1>3 DEF Token
<1>5. event \in ExecutionEvent /\ event \in Event
  BY <1>2, <1>3 DEF ExecutionEventOf, ExecutionEvent, Event, Phases, ActivePhases
<1>6. /\ session' \in [Sessions -> SessionRow]
      /\ session'[s].executionId = e
      /\ session'[s].generation = session[s].generation + 1
      /\ session'[s].phase = "RUNNING"
      /\ \A x \in Sessions \ {s} : session'[x] = session[x]
  BY <1>1, <1>2, <1>3 DEF TablesTyped, SessionRow, Phases, ActivePhases
<1>7. attempts' = attempts /\ Record(s, event)
  BY <1>1 DEF BeginExecution
<1>8. /\ admissions' \in [Sessions -> SUBSET AdmissionRow]
      /\ replies' \in [Sessions -> SUBSET AdmissionRow]
      /\ RepliesAdmitted'
  <2>1. CASE m = NULL
    BY <1>1, <2>1 DEF Admit, TablesTyped, RepliesAdmitted
  <2>2. CASE m # NULL
    <3> DEFINE row == [clientMsgId |-> m, fingerprint |-> f, token |-> t]
    <3>1. row \in AdmissionRow
      BY <1>4, <2>2 DEF AdmissionRow
    <3>2. /\ admissions' = [admissions EXCEPT ![s] = @ \cup {row}]
          /\ replies' = [replies EXCEPT ![s] = @ \cup {row}]
      BY <1>1, <2>2 DEF Admit, Reply
    <3>3. \A r \in admissions[s] : r.clientMsgId # m
      BY <2>2 DEF BeginExecution, Admitted
    <3> QED BY <3>1, <3>2, <3>3 DEF TablesTyped, RepliesAdmitted
  <2> QED BY <2>1, <2>2
<1>9. TablesTyped'
  BY <1>5, <1>6, <1>7, <1>8, RecordAppends DEF TablesTyped
<1>10. RowsNamed'
  BY <1>2, <1>6 DEF RowsNamed
<1>11. NoOrphanedAttempt'
  <2>1. \A r \in attempts[s] : r.phase # "RUNNING"
    BY DEF BeginExecution, MayBegin, NoOrphanedAttempt, Live, ActivePhases
  <2> QED BY <1>6, <1>7, <2>1 DEF NoOrphanedAttempt, Live
<1>12. AttemptsNumbered'
  BY <1>5, <1>7, LogGrows DEF AttemptsNumbered, TablesTyped, AttemptRow
<1>13. LogNotAhead'
  <2> SUFFICES ASSUME NEW x \in Sessions, NEW i \in DOMAIN events'[x],
                      IsExecutionEvent(x, i)'
               PROVE  /\ events'[x][i].generation <= session'[x].generation
                      /\ (/\ events'[x][i].generation = session'[x].generation
                          /\ events'[x][i].phase = "TERMINAL")
                             => session'[x].phase = "TERMINAL"
    BY DEF LogNotAhead
  <2>1. CASE x # s
    BY <1>5, <1>6, <1>7, <2>1, RecordAppends DEF LogNotAhead, IsExecutionEvent
  <2>2. CASE x = s /\ i \in DOMAIN events[s]
    <3>1. events'[s][i] = events[s][i] /\ IsExecutionEvent(s, i)
      BY <1>5, <1>7, <2>2, RecordAppends DEF IsExecutionEvent
    <3>2. events[s][i] \in ExecutionEvent
      BY <3>1, <2>2 DEF TablesTyped, Event, AttemptEvent, IsExecutionEvent
    <3>3. events[s][i].generation \in Nat /\ events[s][i].generation <= session[s].generation
      BY <3>1, <3>2, <2>2 DEF LogNotAhead, ExecutionEvent
    <3> QED BY <3>1, <3>3, <2>2, <1>3, <1>6
  <2>3. CASE x = s /\ i = Len(events[s]) + 1
    <3>1. events'[s][i] = event
      BY <1>5, <1>7, <2>3, RecordAppends
    <3> QED BY <3>1, <2>3, <1>3, <1>6 DEF ExecutionEventOf
  <2> QED BY <1>5, <1>7, <2>1, <2>2, <2>3, RecordAppends
<1> QED BY <1>8, <1>9, <1>10, <1>11, <1>12, <1>13

LEMMA RetryKeepsTables ==
    ASSUME Tables, NEW s \in Sessions, NEW requested, NEW m, NEW f,
           RetryExecution(s, requested, m, f)
    PROVE  Tables'
<1> USE DEF Tables
<1>1. PICK r \in admissions[s] :
         r.clientMsgId = m /\ r.fingerprint = f /\ Reply(s, m, f, r.token)
  BY DEF RetryExecution
<1>2. r \in AdmissionRow
  BY DEF TablesTyped
<1>3. r = [clientMsgId |-> m, fingerprint |-> f, token |-> r.token]
  BY <1>1, <1>2 DEF AdmissionRow
<1>4. replies' = [replies EXCEPT ![s] = @ \cup {r}]
  BY <1>1, <1>3 DEF Reply
<1>5. UNCHANGED <<session, admissions, attempts, events>>
  BY DEF RetryExecution
<1>6. TablesTyped' /\ RepliesAdmitted'
  BY <1>2, <1>4, <1>5 DEF TablesTyped, RepliesAdmitted
<1>7. RowsNamed' /\ NoOrphanedAttempt' /\ AttemptsNumbered' /\ LogNotAhead'
  BY <1>5 DEF RowsNamed, NoOrphanedAttempt, AttemptsNumbered, LogNotAhead,
              IsExecutionEvent, Live
<1> QED BY <1>6, <1>7

\* A log that only gained an attempt event is still not ahead of the rows.
LEMMA AttemptEventKeepsLog ==
    ASSUME Tables, NEW s \in Sessions, NEW row \in AttemptRow,
           Record(s, AttemptEventOf(row)), session' = session
    PROVE  LogNotAhead'
<1> USE DEF Tables
<1>1. AttemptEventOf(row) \in Event
  BY DEF AttemptEventOf, AttemptEvent, Event
<1> SUFFICES ASSUME NEW x \in Sessions, NEW i \in DOMAIN events'[x],
                    IsExecutionEvent(x, i)'
             PROVE  /\ i \in DOMAIN events[x]
                    /\ events'[x][i] = events[x][i]
  BY DEF LogNotAhead, IsExecutionEvent
<1>2. CASE x # s
  BY <1>1, <1>2, RecordAppends
<1>3. CASE x = s /\ i \in DOMAIN events[s]
  BY <1>1, <1>3, RecordAppends
<1>4. CASE x = s /\ i = Len(events[s]) + 1
  <2>1. events'[s][i] = AttemptEventOf(row)
    BY <1>1, <1>4, RecordAppends
  <2> QED BY <2>1, <1>4 DEF AttemptEventOf, IsExecutionEvent
<1> QED BY <1>1, <1>2, <1>3, <1>4, RecordAppends

LEMMA BeginAttemptKeepsTables ==
    ASSUME Tables, NEW t \in Token, NEW id \in AttemptIds, NEW allowParallel \in BOOLEAN,
           BeginProviderAttempt(t, id, allowParallel)
    PROVE  Tables'
<1> USE DEF Tables
<1> DEFINE s == t.session
           row == [executionId |-> t.executionId, generation |-> t.generation,
                   attempt |-> NextAttempt(t), providerAttemptId |-> id,
                   phase |-> "RUNNING", reason |-> NULL]
<1>1. s \in Sessions /\ t.executionId \in ExecutionIds /\ t.generation \in Nat
  BY DEF Token
<1>2. NextAttempt(t) \in Nat /\ NextAttempt(t) <= Len(events[s]) + 1
  BY NextAttemptBound
<1>3. row \in AttemptRow
  BY <1>1, <1>2 DEF AttemptRow
<1>4. attempts' = [attempts EXCEPT ![s] = @ \cup {row}] /\ Record(s, AttemptEventOf(row))
  BY DEF BeginProviderAttempt
<1>5. UNCHANGED <<session, admissions, replies>>
  BY DEF BeginProviderAttempt
<1>6. AttemptEventOf(row) \in Event
  BY <1>3 DEF AttemptEventOf, AttemptEvent, Event
<1>7. TablesTyped'
  BY <1>1, <1>3, <1>4, <1>5, <1>6, RecordAppends DEF TablesTyped
<1>8. RowsNamed' /\ RepliesAdmitted'
  BY <1>5 DEF RowsNamed, RepliesAdmitted
<1>9. NoOrphanedAttempt'
  <2>1. IsCurrent(t) /\ session[s].phase = "RUNNING"
    BY DEF BeginProviderAttempt
  <2> QED BY <1>1, <1>4, <1>5, <2>1
          DEF NoOrphanedAttempt, Live, IsCurrent, ActivePhases, TablesTyped
<1>10. AttemptsNumbered'
  <2> SUFFICES ASSUME NEW x \in Sessions, NEW r \in attempts'[x]
               PROVE  r.attempt <= Len(events'[x])
    BY DEF AttemptsNumbered
  <2>1. CASE r \in attempts[x]
    <3>1. r.attempt \in Nat /\ r.attempt <= Len(events[x])
      BY <2>1 DEF AttemptsNumbered, TablesTyped, AttemptRow
    <3> QED BY <1>1, <1>4, <1>6, <3>1, LogGrows
  <2>2. CASE x = s /\ r = row
    <3>1. Len(events'[s]) = Len(events[s]) + 1
      BY <1>1, <1>4, <1>6, RecordAppends
    <3> QED BY <1>2, <2>2, <3>1
  <2> QED BY <1>1, <1>4, <2>1, <2>2 DEF TablesTyped
<1>11. LogNotAhead'
  BY <1>1, <1>3, <1>4, <1>5, AttemptEventKeepsLog
<1> QED BY <1>7, <1>8, <1>9, <1>10, <1>11

LEMMA EndAttemptKeepsTables ==
    ASSUME Tables, NEW t \in Token, NEW row, NEW reason \in AttemptReasons,
           TransitionProviderAttempt(t, row, reason)
    PROVE  Tables'
<1> USE DEF Tables
<1> DEFINE s == t.session
           ended == [row EXCEPT !.phase = "TERMINAL", !.reason = reason]
<1>1. s \in Sessions
  BY DEF Token
<1>2. row \in attempts[s] /\ row \in AttemptRow
  BY <1>1 DEF TransitionProviderAttempt, AttemptsOf, TablesTyped
<1>3. ended \in AttemptRow /\ ended.phase = "TERMINAL" /\ ended.attempt = row.attempt
  BY <1>2 DEF AttemptRow
<1>4. /\ attempts' = [attempts EXCEPT ![s] = (@ \ {row}) \cup {ended}]
      /\ Record(s, AttemptEventOf(ended))
  BY DEF TransitionProviderAttempt
<1>5. UNCHANGED <<session, admissions, replies>>
  BY DEF TransitionProviderAttempt
<1>6. AttemptEventOf(ended) \in Event
  BY <1>3 DEF AttemptEventOf, AttemptEvent, Event
<1> HIDE DEF ended
<1>7. TablesTyped'
  BY <1>1, <1>3, <1>4, <1>5, <1>6, RecordAppends DEF TablesTyped
<1>8. RowsNamed' /\ RepliesAdmitted'
  BY <1>5 DEF RowsNamed, RepliesAdmitted
<1>9. NoOrphanedAttempt'
  BY <1>1, <1>3, <1>4, <1>5 DEF NoOrphanedAttempt, Live, TablesTyped
<1>10. AttemptsNumbered'
  <2> SUFFICES ASSUME NEW x \in Sessions, NEW r \in attempts'[x]
               PROVE  r.attempt <= Len(events'[x])
    BY DEF AttemptsNumbered
  <2>1. PICK q \in attempts[x] : q.attempt = r.attempt
    BY <1>1, <1>2, <1>3, <1>4 DEF TablesTyped
  <2>2. r.attempt \in Nat /\ r.attempt <= Len(events[x])
    BY <2>1 DEF AttemptsNumbered, TablesTyped, AttemptRow
  <2> QED BY <1>1, <1>4, <1>6, <2>2, LogGrows
<1>11. LogNotAhead'
  BY <1>1, <1>3, <1>4, <1>5, AttemptEventKeepsLog
<1> QED BY <1>7, <1>8, <1>9, <1>10, <1>11

LEMMA TransitionKeepsTables ==
    ASSUME Tables, NEW t \in Token, NEW phase \in Phases,
           NEW reason \in ExecutionReasons \cup {NULL},
           TransitionExecution(t, phase, reason)
    PROVE  Tables'
<1> USE DEF Tables
<1> DEFINE s == t.session
           event == ExecutionEventOf(t, phase, reason)
<1>1. s \in Sessions /\ t.executionId \in ExecutionIds /\ t.generation \in Nat
  BY DEF Token
<1>2. event \in ExecutionEvent /\ event \in Event
  BY <1>1 DEF ExecutionEventOf, ExecutionEvent, Event
<1>3. /\ session' = [session EXCEPT ![s].phase = phase, ![s].reason = reason]
      /\ Record(s, event)
      /\ UNCHANGED <<admissions, attempts, replies>>
  BY DEF TransitionExecution
<1>4. session[s] \in SessionRow
  BY <1>1 DEF TablesTyped
<1>5. /\ session[s].executionId = t.executionId
      /\ session[s].generation = t.generation
      /\ phase \in Transitions[session[s].phase]
      /\ phase = "TERMINAL" => RunningAttempts(t) = {}
  BY DEF TransitionExecution, MayTransition, IsCurrent
<1>6. session[s].phase # "TERMINAL"
  BY <1>4, <1>5 DEF Transitions, SessionRow, Phases, ActivePhases
<1>7. /\ session' \in [Sessions -> SessionRow]
      /\ session'[s].executionId = t.executionId
      /\ session'[s].generation = t.generation
      /\ session'[s].phase = phase
      /\ \A x \in Sessions \ {s} : session'[x] = session[x]
  BY <1>1, <1>3, <1>4, <1>5 DEF TablesTyped, SessionRow
<1>8. TablesTyped'
  BY <1>1, <1>2, <1>3, <1>7, RecordAppends DEF TablesTyped
<1>9. RowsNamed' /\ RepliesAdmitted'
  BY <1>1, <1>3, <1>7 DEF RowsNamed, RepliesAdmitted
<1>10. NoOrphanedAttempt'
  <2> SUFFICES ASSUME NEW x \in Sessions, NEW r \in attempts[x], r.phase = "RUNNING"
               PROVE  /\ session'[x].executionId = r.executionId
                      /\ session'[x].generation = r.generation
                      /\ session'[x].phase \in ActivePhases
    BY <1>3 DEF NoOrphanedAttempt, Live
  <2>1. /\ session[x].executionId = r.executionId
        /\ session[x].generation = r.generation
        /\ session[x].phase \in ActivePhases
    BY DEF NoOrphanedAttempt, Live
  <2>2. CASE x # s
    BY <1>7, <2>1, <2>2
  <2>3. CASE x = s
    <3>1. r \in RunningAttempts(t)
      BY <1>5, <2>1, <2>3 DEF RunningAttempts, AttemptsOf
    <3>2. phase \in ActivePhases
      BY <1>5, <3>1 DEF Phases
    <3> QED BY <1>5, <1>7, <2>1, <2>3, <3>2
  <2> QED BY <2>2, <2>3
<1>11. AttemptsNumbered'
  <2> SUFFICES ASSUME NEW x \in Sessions, NEW r \in attempts[x]
               PROVE  r.attempt <= Len(events'[x])
    BY <1>3 DEF AttemptsNumbered
  <2>1. r.attempt \in Nat /\ r.attempt <= Len(events[x])
    BY DEF AttemptsNumbered, TablesTyped, AttemptRow
  <2> QED BY <1>1, <1>2, <1>3, <2>1, LogGrows
<1>12. LogNotAhead'
  <2> SUFFICES ASSUME NEW x \in Sessions, NEW i \in DOMAIN events'[x],
                      IsExecutionEvent(x, i)'
               PROVE  /\ events'[x][i].generation <= session'[x].generation
                      /\ (/\ events'[x][i].generation = session'[x].generation
                          /\ events'[x][i].phase = "TERMINAL")
                             => session'[x].phase = "TERMINAL"
    BY DEF LogNotAhead
  <2>1. CASE x # s
    BY <1>1, <1>2, <1>3, <1>7, <2>1, RecordAppends DEF LogNotAhead, IsExecutionEvent
  <2>2. CASE x = s /\ i \in DOMAIN events[s]
    <3>1. events'[s][i] = events[s][i] /\ IsExecutionEvent(s, i)
      BY <1>1, <1>2, <1>3, <2>2, RecordAppends DEF IsExecutionEvent
    <3>2. ~(/\ events[s][i].generation = session[s].generation
            /\ events[s][i].phase = "TERMINAL")
      BY <1>1, <1>6, <2>2, <3>1 DEF LogNotAhead
    <3> QED BY <1>1, <1>5, <1>7, <2>2, <3>1, <3>2 DEF LogNotAhead
  <2>3. CASE x = s /\ i = Len(events[s]) + 1
    <3>1. events'[s][i] = event
      BY <1>1, <1>2, <1>3, <2>3, RecordAppends
    <3> QED BY <1>1, <1>7, <2>3, <3>1 DEF ExecutionEventOf
  <2> QED BY <1>1, <1>2, <1>3, <2>1, <2>2, <2>3, RecordAppends
<1> QED BY <1>8, <1>9, <1>10, <1>11, <1>12

-----------------------------------------------------------------------------
(* The process around the operations.                                      *)

LEMMA InitEstablishesIInv == Init => IInv
<1> SUFFICES ASSUME Init PROVE IInv
  OBVIOUS
<1> USE DEF Init
<1>1. TablesTyped
  BY DEF TablesTyped, SessionRow
<1>2. RowsNamed /\ NoOrphanedAttempt /\ AttemptsNumbered /\ RepliesAdmitted /\ LogNotAhead
  BY DEF RowsNamed, NoOrphanedAttempt, AttemptsNumbered, RepliesAdmitted, LogNotAhead
<1>3. ProcessTyped
  BY DEF ProcessTyped
<1> QED BY <1>1, <1>2, <1>3 DEF IInv, Tables

LEMMA UnchangedTables ==
    ASSUME Tables, UNCHANGED ledgerTables
    PROVE  Tables'
BY DEF Tables, ledgerTables, TablesTyped, RowsNamed, NoOrphanedAttempt, AttemptsNumbered,
       RepliesAdmitted, LogNotAhead, IsExecutionEvent, Live

LEMMA CallsKeepIInv ==
    ASSUME IInv, NEW s \in Sessions,
           CallBegin(s) \/ \E t \in Issued(s) : CallAttempt(t) \/ CallTransition(t)
    PROVE  IInv'
<1> USE DEF IInv
<1>1. ASSUME CallBegin(s) PROVE IInv'
  <2>1. ProcessTyped'
    BY <1>1 DEF CallBegin, Up, ProcessTyped
  <2>2. PICK requested \in ExecutionIds \cup {NULL}, f \in Fingerprints,
             m \in ClientMsgIds \cup {NULL} :
          BeginExecution(s, requested, m, f) \/ RetryExecution(s, requested, m, f)
    BY <1>1 DEF CallBegin
  <2> QED BY <2>1, <2>2, BeginKeepsTables, RetryKeepsTables
<1>2. ASSUME NEW t \in Issued(s), CallAttempt(t) PROVE IInv'
  <2>1. t \in Token
    BY IssuedTyped
  <2>2. ProcessTyped'
    BY <1>2 DEF CallAttempt, Up, ProcessTyped
  <2>3. ASSUME NEW id \in AttemptIds, NEW allowParallel \in BOOLEAN,
               BeginProviderAttempt(t, id, allowParallel)
        PROVE  Tables'
    BY <2>1, <2>3, BeginAttemptKeepsTables
  <2>4. ASSUME NEW row \in AttemptsOf(t), NEW reason \in AttemptReasons,
               TransitionProviderAttempt(t, row, reason)
        PROVE  Tables'
    BY <2>1, <2>4, EndAttemptKeepsTables
  <2> QED BY <1>2, <2>2, <2>3, <2>4 DEF CallAttempt
<1>3. ASSUME NEW t \in Issued(s), CallTransition(t) PROVE IInv'
  <2>1. t \in Token
    BY IssuedTyped
  <2>2. ProcessTyped'
    BY <1>3 DEF CallTransition, Up, ProcessTyped
  <2>3. PICK phase \in Phases, reason \in ExecutionReasons \cup {NULL} :
          TransitionExecution(t, phase, reason)
    BY <1>3 DEF CallTransition, Phases
  <2> QED BY <2>1, <2>2, <2>3, TransitionKeepsTables
<1> QED BY <1>1, <1>2, <1>3

LEMMA RecoveryKeepsIInv ==
    ASSUME IInv, Crash \/ Recover
    PROVE  IInv'
<1> USE DEF IInv
<1>1. CASE Crash
  BY <1>1, UnchangedTables DEF Crash, ProcessTyped
<1>2. CASE ScanOrphans
  <2>1. \A s \in Sessions : Orphaned(s) => TokenOf(s) \in Token
    BY DEF Tables, RowsNamed, TablesTyped, SessionRow, Orphaned, ActivePhases, TokenOf, Token
  <2> QED BY <1>2, <2>1, UnchangedTables DEF ScanOrphans, ProcessTyped
<1>3. ASSUME NEW t \in orphans, RecoverExecution(t) PROVE IInv'
  <2>1. t \in Token /\ TransitionExecution(t, "TERMINAL", "server_restart")
    BY <1>3 DEF RecoverExecution, ProcessTyped
  <2>2. "TERMINAL" \in Phases /\ "server_restart" \in ExecutionReasons \cup {NULL}
    BY ReasonAssumption DEF Phases
  <2> QED BY <1>3, <2>1, <2>2, TransitionKeepsTables DEF RecoverExecution, ProcessTyped
<1>4. ASSUME NEW t \in orphans, NEW row \in RunningAttempts(t), RecoverAttempt(t, row)
      PROVE  IInv'
  <2>1. t \in Token /\ TransitionProviderAttempt(t, row, "ambiguous")
    BY <1>4 DEF RecoverAttempt, ProcessTyped
  <2> QED BY <1>4, <2>1, ReasonAssumption, EndAttemptKeepsTables
          DEF RecoverAttempt, ProcessTyped
<1>5. CASE FinishRecovery
  BY <1>5, UnchangedTables DEF FinishRecovery, ProcessTyped
<1> QED BY <1>1, <1>2, <1>3, <1>4, <1>5 DEF Recover

\* The invariant holds in every reachable state.
THEOREM Invariance == Spec => []IInv
<1>1. Init => IInv
  BY InitEstablishesIInv
<1>2. IInv /\ [Next]_vars => IInv'
  <2> SUFFICES ASSUME IInv, [Next]_vars PROVE IInv'
    OBVIOUS
  <2>1. CASE Next
    BY <2>1, CallsKeepIInv, RecoveryKeepsIInv DEF Next
  <2>2. CASE UNCHANGED vars
    BY <2>2, UnchangedTables DEF vars, ledgerTables, IInv, ProcessTyped
  <2> QED BY <2>1, <2>2
<1> QED BY <1>1, <1>2, PTL DEF Spec

\* Every table and every process variable keeps its type.
THEOREM TypeCorrectness == Spec => []TypeOK
<1>1. IInv => TypeOK
  BY DEF IInv, Tables, TablesTyped, ProcessTyped, TypeOK
<1> QED BY <1>1, Invariance, PTL

\* A running provider attempt belongs to the session's current, live execution,
\* whatever stale or concurrent callers, crashes and recoveries did before.
THEOREM AttemptsNeverOrphaned == Spec => []NoOrphanedAttempt
<1>1. IInv => NoOrphanedAttempt
  BY DEF IInv, Tables
<1> QED BY <1>1, Invariance, PTL

\* All answers for one client message name the same execution and fingerprint.
THEOREM MessagesStartOneExecution == Spec => []OneExecutionPerMessage
<1>1. IInv => OneExecutionPerMessage
  BY DEF IInv, Tables, RepliesAdmitted, OneExecutionPerMessage
<1> QED BY <1>1, Invariance, PTL

-----------------------------------------------------------------------------
(* Final outcomes.                                                         *)

EndsExecution(t, event) ==
    /\ event.type = "execution_state_changed"
    /\ event.executionId = t.executionId
    /\ event.generation = t.generation
    /\ event.phase = "TERMINAL"

\* An event that does not end the execution of t leaves the outcome of t alone.
LEMMA OtherEventsKeepOutcome ==
    ASSUME TablesTyped, NEW s \in Sessions, NEW event \in Event, Record(s, event),
           NEW t \in Token, t.session = s => ~EndsExecution(t, event)
    PROVE  TerminalReason(t)' = TerminalReason(t)
<1> DEFINE x == t.session
<1>1. x \in Sessions
  BY DEF Token
<1>2. TerminalEvents(t)' = TerminalEvents(t)
  <2>1. CASE x # s
    BY <1>1, <2>1, RecordAppends DEF TerminalEvents
  <2>2. CASE x = s
    BY <1>1, <2>2, RecordAppends DEF TerminalEvents, EndsExecution
  <2> QED BY <2>1, <2>2
<1>3. CASE TerminalEvents(t) = {}
  BY <1>2, <1>3 DEF TerminalReason
<1>4. CASE TerminalEvents(t) # {}
  <2> DEFINE I == TerminalEvents(t)
             last == CHOOSE i \in I : \A j \in I : j <= i
  <2>1. \E i \in I : \A j \in I : j <= i
    <3>1. I \subseteq DOMAIN events[x] /\ DOMAIN events[x] = 1..Len(events[x])
          /\ Len(events[x]) \in Nat
      BY <1>1 DEF TerminalEvents, TablesTyped
    <3>2. I \in SUBSET Nat /\ \A j \in I : j <= Len(events[x])
      BY <3>1
    <3> HIDE DEF I
    <3> QED BY <1>4, <3>1, <3>2, LargestExists DEF I
  <2>2. last \in I /\ last \in DOMAIN events[x]
    BY <2>1 DEF TerminalEvents
  <2>3. events'[x][last] = events[x][last]
    <3> HIDE DEF last
    <3>1. CASE x = s
      BY <2>2, <3>1, RecordAppends
    <3>2. CASE x # s
      BY <1>1, <3>2, RecordAppends
    <3> QED BY <3>1, <3>2
  <2>4. TerminalReason(t) = events[x][last].reason
    BY <1>4 DEF TerminalReason
  <2>5. TerminalReason(t)' = events'[x][last].reason
    BY <1>2, <1>4 DEF TerminalReason
  <2> QED BY <2>3, <2>4, <2>5
<1> QED BY <1>3, <1>4

LEMMA SameLogSameOutcome ==
    ASSUME events' = events, NEW t
    PROVE  TerminalReason(t)' = TerminalReason(t)
BY DEF TerminalReason, TerminalEvents

\* The one operation that ends an execution finds it without an outcome.
LEMMA TransitionKeepsOutcome ==
    ASSUME Tables, NEW t \in Token, TerminalReason(t) # NULL,
           NEW u \in Token, NEW phase \in Phases,
           NEW reason \in ExecutionReasons \cup {NULL},
           TransitionExecution(u, phase, reason)
    PROVE  TerminalReason(t)' = TerminalReason(t)
<1> USE DEF Tables
<1> DEFINE event == ExecutionEventOf(u, phase, reason)
<1>1. u.session \in Sessions /\ t.session \in Sessions
  BY DEF Token
<1>2. event \in Event /\ Record(u.session, event)
  BY DEF TransitionExecution, ExecutionEventOf, ExecutionEvent, Event, Token
<1>3. ASSUME t.session = u.session, EndsExecution(t, event) PROVE FALSE
  <2>1. IsCurrent(t)
    BY <1>3 DEF TransitionExecution, MayTransition, IsCurrent, EndsExecution, ExecutionEventOf
  <2>2. PICK i \in TerminalEvents(t) : TRUE
    BY DEF TerminalReason
  <2>3. session[t.session].phase = "TERMINAL"
    BY <1>1, <2>1, <2>2 DEF TerminalEvents, IsCurrent, LogNotAhead, IsExecutionEvent
  <2> QED BY <1>3, <2>3 DEF TransitionExecution, MayTransition, Transitions, Phases,
                            ActivePhases
<1> QED BY <1>1, <1>2, <1>3, OtherEventsKeepOutcome

\* The end of an execution is what is read back for it.
LEMMA EndSetsOutcome ==
    ASSUME Tables, NEW t \in Token, NEW reason \in ExecutionReasons,
           TransitionExecution(t, "TERMINAL", reason)
    PROVE  TerminalReason(t)' = reason
<1> DEFINE s == t.session
<1>1. PICK e : e = ExecutionEventOf(t, "TERMINAL", reason)
  OBVIOUS
<1>2. /\ s \in Sessions /\ e \in Event /\ Record(s, e) /\ EndsExecution(t, e)
      /\ e.reason = reason
  BY <1>1 DEF TransitionExecution, ExecutionEventOf, ExecutionEvent, Event, Phases, Token,
              EndsExecution
<1>3. TerminalEvents(t) = {}
  <2>1. IsCurrent(t) /\ session[s].phase # "TERMINAL"
    BY DEF TransitionExecution, MayTransition, Transitions, Phases, ActivePhases
  <2> QED BY <1>2, <2>1 DEF TerminalEvents, Tables, LogNotAhead, IsExecutionEvent, IsCurrent
<1>4. PICK last : last = Len(events[s]) + 1
  OBVIOUS
<1>5. /\ DOMAIN events'[s] = DOMAIN events[s] \cup {last}
      /\ \A i \in DOMAIN events[s] : events'[s][i] = events[s][i]
      /\ events'[s][last] = e /\ last \in Nat
  BY <1>2, <1>4, RecordAppends DEF Tables, TablesTyped
<1>6. TerminalEvents(t)' = {last}
  <2>1. last \in TerminalEvents(t)'
    BY <1>2, <1>5 DEF TerminalEvents, EndsExecution
  <2>2. \A i \in TerminalEvents(t)' : i = last
    BY <1>3, <1>5 DEF TerminalEvents
  <2> QED BY <2>1, <2>2
<1>7. (CHOOSE i \in {last} : \A j \in {last} : j <= i) = last
  BY <1>5
<1>8. TerminalReason(t)' = events'[s][last].reason
  BY <1>6, <1>7 DEF TerminalReason
<1> QED BY <1>2, <1>5, <1>8

\* Once an execution has an outcome, no step of callers, crash or recovery
\* changes the outcome read back for it.
THEOREM OutcomesAreFinal == Spec => OutcomeIsFinal
<1> DEFINE Step == \A s \in Sessions : \A t \in Issued(s) :
                TerminalReason(t) # NULL => TerminalReason(t)' = TerminalReason(t)
<1>1. ASSUME IInv, Next PROVE Step
  <2> SUFFICES ASSUME NEW x \in Sessions, NEW t \in Issued(x), TerminalReason(t) # NULL
               PROVE  TerminalReason(t)' = TerminalReason(t)
    OBVIOUS
  <2> USE DEF IInv
  <2>1. t \in Token /\ Tables /\ TablesTyped
    BY <1>1, IssuedTyped DEF Tables
  <2>2. ASSUME NEW s \in Sessions, NEW requested \in ExecutionIds \cup {NULL},
               NEW m, NEW f, BeginExecution(s, requested, m, f)
        PROVE  TerminalReason(t)' = TerminalReason(t)
    <3>1. PICK e \in AcceptedIds(requested) :
             Record(s, ExecutionEventOf([session |-> s, executionId |-> e,
                          generation |-> session[s].generation + 1], "RUNNING", NULL))
      BY <2>2 DEF BeginExecution
    <3> DEFINE event == ExecutionEventOf([session |-> s, executionId |-> e,
                          generation |-> session[s].generation + 1], "RUNNING", NULL)
    <3>2. event \in Event /\ event.phase = "RUNNING"
      BY <2>1 DEF AcceptedIds, ExecutionEventOf, ExecutionEvent, Event, Phases,
                  ActivePhases, TablesTyped, SessionRow
    <3> HIDE DEF event
    <3> QED BY <2>1, <3>1, <3>2, OtherEventsKeepOutcome DEF EndsExecution, event
  <2>3. ASSUME NEW s, NEW requested, NEW m, NEW f, RetryExecution(s, requested, m, f)
        PROVE  TerminalReason(t)' = TerminalReason(t)
    BY <2>3, SameLogSameOutcome DEF RetryExecution
  <2>4. ASSUME NEW u \in Token, NEW row \in AttemptRow,
               Record(u.session, AttemptEventOf(row))
        PROVE  TerminalReason(t)' = TerminalReason(t)
    BY <2>1, <2>4, OtherEventsKeepOutcome
       DEF Token, AttemptEventOf, AttemptEvent, Event, EndsExecution
  <2>5. ASSUME NEW u \in Token, NEW id \in AttemptIds, NEW p,
               BeginProviderAttempt(u, id, p)
        PROVE  TerminalReason(t)' = TerminalReason(t)
    <3>1. NextAttempt(u) \in Nat
      BY <2>1, NextAttemptBound DEF Tables
    <3> QED BY <2>4, <2>5, <3>1 DEF BeginProviderAttempt, AttemptRow, Token
  <2>6. ASSUME NEW u \in Token, NEW row, NEW reason \in AttemptReasons,
               TransitionProviderAttempt(u, row, reason)
        PROVE  TerminalReason(t)' = TerminalReason(t)
    <3>1. row \in AttemptRow
      BY <2>1, <2>6 DEF TransitionProviderAttempt, AttemptsOf, TablesTyped, Token
    <3>2. [row EXCEPT !.phase = "TERMINAL", !.reason = reason] \in AttemptRow
      BY <3>1 DEF AttemptRow
    <3> QED BY <2>4, <2>6, <3>2 DEF TransitionProviderAttempt
  <2>7. ASSUME NEW s \in Sessions,
               CallBegin(s) \/ \E u \in Issued(s) : CallAttempt(u) \/ CallTransition(u)
        PROVE  TerminalReason(t)' = TerminalReason(t)
    <3>1. \A u \in Issued(s) : u \in Token
      BY <2>1, IssuedTyped
    <3>2. CASE CallBegin(s)
      BY <2>2, <2>3, <3>2 DEF CallBegin
    <3>3. ASSUME NEW u \in Issued(s), CallAttempt(u)
          PROVE  TerminalReason(t)' = TerminalReason(t)
      BY <2>5, <2>6, <3>1, <3>3 DEF CallAttempt
    <3>4. ASSUME NEW u \in Issued(s), CallTransition(u)
          PROVE  TerminalReason(t)' = TerminalReason(t)
      BY <2>1, <3>1, <3>4, TransitionKeepsOutcome DEF CallTransition, Phases
    <3> QED BY <2>7, <3>2, <3>3, <3>4
  <2>8. CASE Crash \/ ScanOrphans \/ FinishRecovery
    BY <2>8, SameLogSameOutcome DEF Crash, ScanOrphans, FinishRecovery, ledgerTables
  <2>9. ASSUME NEW u \in orphans, RecoverExecution(u)
        PROVE  TerminalReason(t)' = TerminalReason(t)
    BY <1>1, <2>1, <2>9, ReasonAssumption, TransitionKeepsOutcome
       DEF RecoverExecution, ProcessTyped, Phases
  <2>10. ASSUME NEW u \in orphans, NEW row, RecoverAttempt(u, row)
         PROVE  TerminalReason(t)' = TerminalReason(t)
    BY <1>1, <2>6, <2>10, ReasonAssumption DEF RecoverAttempt, ProcessTyped
  <2> QED BY <1>1, <2>7, <2>8, <2>9, <2>10 DEF Next, Recover
<1>2. ASSUME UNCHANGED vars PROVE Step
  BY <1>2, SameLogSameOutcome DEF vars
<1>3. IInv /\ [Next]_vars => [Step]_vars
  BY <1>1
<1> QED BY <1>3, Invariance, PTL DEF Spec, OutcomeIsFinal

-----------------------------------------------------------------------------
(* What an appended event changes in the log.                              *)

IsAttemptEvent(s, i) == events[s][i].type = "provider_attempt_state_changed"

RowRebuilt(s) ==
    session[s].phase # "NONE" =>
        LET last == LastExecutionEvent(s)
        IN session[s] = [executionId |-> last.executionId, generation |-> last.generation,
                         phase |-> last.phase, reason |-> last.reason]

AttemptsRebuilt(s) == attempts[s] = LastAttemptEvents(s)

LEMMA RebuiltParts ==
    LogRebuildsTables <=> \A s \in Sessions : AttemptsRebuilt(s) /\ RowRebuilt(s)
BY DEF LogRebuildsTables, AttemptsRebuilt, RowRebuilt

\* The log of one attempt has one last event.
LEMMA LastRowsDiffer ==
    ASSUME TablesTyped, NEW s \in Sessions,
           NEW p \in LastAttemptEvents(s), NEW q \in LastAttemptEvents(s),
           p.providerAttemptId = q.providerAttemptId
    PROVE  p = q
<1> DEFINE I == {i \in DOMAIN events[s] : IsAttemptEvent(s, i)}
<1>1. I \subseteq Nat
  BY DEF TablesTyped
<1>2. PICK i \in I : /\ p = events[s][i].row
                     /\ \A j \in I : events[s][j].row.providerAttemptId = p.providerAttemptId
                                        => j <= i
  BY DEF LastAttemptEvents, IsAttemptEvent
<1>3. PICK k \in I : /\ q = events[s][k].row
                     /\ \A j \in I : events[s][j].row.providerAttemptId = q.providerAttemptId
                                        => j <= k
  BY DEF LastAttemptEvents, IsAttemptEvent
<1>4. i <= k /\ k <= i
  BY <1>2, <1>3
<1> QED BY <1>1, <1>2, <1>3, <1>4

\* The event of an attempt takes the place of the attempt's earlier ones.
LEMMA AttemptEventReplaces ==
    ASSUME TablesTyped, NEW s \in Sessions, NEW row \in AttemptRow,
           Record(s, AttemptEventOf(row))
    PROVE  LastAttemptEvents(s)' =
              {r \in LastAttemptEvents(s) : r.providerAttemptId # row.providerAttemptId}
                 \cup {row}
<1> DEFINE I == {i \in DOMAIN events[s] : IsAttemptEvent(s, i)}
<1>1. PICK e : e = AttemptEventOf(row)
  OBVIOUS
<1>2. e \in Event /\ e.type = "provider_attempt_state_changed" /\ e.row = row
  BY <1>1 DEF AttemptEventOf, AttemptEvent, Event
<1>3. PICK n : n = Len(events[s]) + 1
  OBVIOUS
<1>4. /\ DOMAIN events'[s] = DOMAIN events[s] \cup {n}
      /\ n \notin DOMAIN events[s]
      /\ \A i \in DOMAIN events[s] : events'[s][i] = events[s][i]
      /\ events'[s][n] = e
  BY <1>1, <1>2, <1>3, RecordAppends
<1>5. n \in Nat /\ I \subseteq Nat /\ \A i \in I : i < n
  BY <1>3 DEF TablesTyped
<1>6. I' = I \cup {n}
  BY <1>2, <1>4 DEF IsAttemptEvent
<1>7. \A r : r \in LastAttemptEvents(s)' <=>
         \E i \in I' : /\ r = events'[s][i].row
                       /\ \A j \in I' : events'[s][j].row.providerAttemptId
                              = events'[s][i].row.providerAttemptId => j <= i
  BY DEF LastAttemptEvents, IsAttemptEvent
<1>8. \A r : r \in LastAttemptEvents(s) <=>
         \E i \in I : /\ r = events[s][i].row
                      /\ \A j \in I : events[s][j].row.providerAttemptId
                              = events[s][i].row.providerAttemptId => j <= i
  BY DEF LastAttemptEvents, IsAttemptEvent
<1>9. \A i \in I : i \in I' /\ i # n /\ events'[s][i] = events[s][i]
  BY <1>4, <1>5, <1>6
<1> HIDE DEF I
<1>10. ASSUME NEW r \in LastAttemptEvents(s)', r # row
       PROVE  r \in LastAttemptEvents(s) /\ r.providerAttemptId # row.providerAttemptId
  <2>1. PICK i \in I' : /\ r = events'[s][i].row
                        /\ \A j \in I' : events'[s][j].row.providerAttemptId
                              = events'[s][i].row.providerAttemptId => j <= i
    BY <1>7
  <2>2. i \in I /\ i < n
    BY <1>2, <1>4, <1>5, <1>6, <1>10, <2>1
  <2>3. r.providerAttemptId # row.providerAttemptId
    BY <1>2, <1>4, <1>5, <1>6, <2>1, <2>2
  <2>4. \A j \in I : events[s][j].row.providerAttemptId
                              = events[s][i].row.providerAttemptId => j <= i
    BY <1>9, <2>1, <2>2
  <2> QED BY <1>8, <1>9, <2>1, <2>2, <2>3, <2>4
<1>11. row \in LastAttemptEvents(s)'
  BY <1>2, <1>4, <1>5, <1>6, <1>7
<1>12. ASSUME NEW r \in LastAttemptEvents(s), r.providerAttemptId # row.providerAttemptId
       PROVE  r \in LastAttemptEvents(s)'
  <2>1. PICK i \in I : /\ r = events[s][i].row
                       /\ \A j \in I : events[s][j].row.providerAttemptId
                              = events[s][i].row.providerAttemptId => j <= i
    BY <1>8
  <2>2. \A j \in I' : events'[s][j].row.providerAttemptId
                              = events'[s][i].row.providerAttemptId => j <= i
    BY <1>2, <1>4, <1>6, <1>9, <1>12, <2>1
  <2> QED BY <1>7, <1>9, <2>1, <2>2
<1> QED BY <1>10, <1>11, <1>12

\* Other events leave the attempts' last events alone.
LEMMA OtherEventsKeepAttempts ==
    ASSUME TablesTyped, NEW s \in Sessions, NEW e \in Event, Record(s, e),
           NEW x \in Sessions, x # s \/ e.type = "execution_state_changed"
    PROVE  LastAttemptEvents(x)' = LastAttemptEvents(x)
<1>1. CASE x # s
  <2>1. events'[x] = events[x]
    BY <1>1, RecordAppends
  <2> QED BY <2>1 DEF LastAttemptEvents
<1>2. CASE x = s /\ e.type = "execution_state_changed"
  <2> DEFINE I == {i \in DOMAIN events[s] : IsAttemptEvent(s, i)}
  <2>1. I' = I
    BY <1>2, RecordAppends DEF IsAttemptEvent
  <2>2. \A i \in I : events'[s][i] = events[s][i]
    BY RecordAppends
  <2>3. LastAttemptEvents(s) = {events[s][i].row : i \in {k \in I : \A j \in I :
            events[s][j].row.providerAttemptId = events[s][k].row.providerAttemptId => j <= k}}
    BY DEF LastAttemptEvents, IsAttemptEvent
  <2>4. LastAttemptEvents(s)' = {events'[s][i].row : i \in {k \in I' : \A j \in I' :
            events'[s][j].row.providerAttemptId = events'[s][k].row.providerAttemptId
               => j <= k}}
    BY DEF LastAttemptEvents, IsAttemptEvent
  <2> HIDE DEF I
  <2> QED BY <1>2, <2>1, <2>2, <2>3, <2>4
<1> QED BY <1>1, <1>2

\* An execution event is the session's last one.
LEMMA ExecutionEventIsLast ==
    ASSUME TablesTyped, NEW s \in Sessions, NEW e \in Event, Record(s, e),
           e.type = "execution_state_changed"
    PROVE  LastExecutionEvent(s)' = e
<1> DEFINE I == {i \in DOMAIN events[s] : IsExecutionEvent(s, i)}
<1>1. PICK n : n = Len(events[s]) + 1
  OBVIOUS
<1>2. /\ DOMAIN events'[s] = DOMAIN events[s] \cup {n} /\ events'[s][n] = e
      /\ \A i \in DOMAIN events[s] : events'[s][i] = events[s][i]
  BY <1>1, RecordAppends
<1>3. n \in Nat /\ I \subseteq Nat /\ \A i \in I : i < n
  BY <1>1 DEF TablesTyped
<1>4. I' = I \cup {n}
  BY <1>2 DEF IsExecutionEvent
<1>5. LastExecutionEvent(s)' = IF I' = {} THEN NULL
                               ELSE events'[s][CHOOSE i \in I' : \A j \in I' : j <= i]
  BY DEF LastExecutionEvent, IsExecutionEvent
<1> HIDE DEF I
<1>6. (CHOOSE i \in I' : \A j \in I' : j <= i) = n
  <2>1. n \in I' /\ \A j \in I' : j <= n
    BY <1>3, <1>4
  <2>2. \A i \in I' : (\A j \in I' : j <= i) => i = n
    BY <1>3, <1>4
  <2> QED BY <2>1, <2>2
<1> QED BY <1>2, <1>4, <1>5, <1>6

LEMMA OtherEventsKeepLast ==
    ASSUME TablesTyped, NEW s \in Sessions, NEW e \in Event, Record(s, e),
           NEW x \in Sessions, x # s \/ e.type # "execution_state_changed"
    PROVE  LastExecutionEvent(x)' = LastExecutionEvent(x)
<1>1. CASE x # s
  <2>1. events'[x] = events[x]
    BY <1>1, RecordAppends
  <2> QED BY <2>1 DEF LastExecutionEvent
<1>2. CASE x = s /\ e.type # "execution_state_changed"
  <2> DEFINE I == {i \in DOMAIN events[s] : IsExecutionEvent(s, i)}
  <2>1. I' = I
    BY <1>2, RecordAppends DEF IsExecutionEvent
  <2>2. \A i \in I : events'[s][i] = events[s][i]
    BY RecordAppends
  <2>3. I \in SUBSET Nat /\ Len(events[s]) \in Nat /\ \A i \in I : i <= Len(events[s])
    BY DEF TablesTyped
  <2>4. LastExecutionEvent(s)' = IF I' = {} THEN NULL
                                 ELSE events'[s][CHOOSE i \in I' : \A j \in I' : j <= i]
    BY DEF LastExecutionEvent, IsExecutionEvent
  <2>5. LastExecutionEvent(s) = IF I = {} THEN NULL
                                ELSE events[s][CHOOSE i \in I : \A j \in I : j <= i]
    BY DEF LastExecutionEvent, IsExecutionEvent
  <2> HIDE DEF I
  <2>6. I # {} => (CHOOSE i \in I : \A j \in I : j <= i) \in I
    BY <2>3, LargestExists
  <2> QED BY <1>2, <2>1, <2>2, <2>4, <2>5, <2>6
<1> QED BY <1>1, <1>2

-----------------------------------------------------------------------------
(* The operations.                                                         *)

\* An operation that records an execution event for s leaves the rest rebuilt.
LEMMA ExecutionEventRebuilds ==
    ASSUME TablesTyped, LogRebuildsTables, NEW t \in Token, NEW phase \in Phases,
           NEW reason \in ExecutionReasons \cup {NULL},
           Record(t.session, ExecutionEventOf(t, phase, reason)),
           session'[t.session] = [executionId |-> t.executionId, generation |-> t.generation,
                                  phase |-> phase, reason |-> reason],
           \A x \in Sessions \ {t.session} : session'[x] = session[x],
           UNCHANGED attempts
    PROVE  LogRebuildsTables'
<1> DEFINE s == t.session
<1>1. PICK e : e = ExecutionEventOf(t, phase, reason)
  OBVIOUS
<1>2. /\ s \in Sessions /\ e \in Event /\ Record(s, e)
      /\ e.type = "execution_state_changed"
      /\ e.executionId = t.executionId /\ e.generation = t.generation
      /\ e.phase = phase /\ e.reason = reason
  BY <1>1 DEF ExecutionEventOf, ExecutionEvent, Event, Token
<1>3. ASSUME NEW x \in Sessions PROVE AttemptsRebuilt(x)'
  <2>1. LastAttemptEvents(x)' = LastAttemptEvents(x)
    BY <1>2, OtherEventsKeepAttempts
  <2> QED BY <2>1, RebuiltParts DEF AttemptsRebuilt
<1>4. ASSUME NEW x \in Sessions, x # s PROVE RowRebuilt(x)'
  <2>1. LastExecutionEvent(x)' = LastExecutionEvent(x)
    BY <1>2, <1>4, OtherEventsKeepLast
  <2> QED BY <1>4, <2>1, RebuiltParts DEF RowRebuilt
<1>5. RowRebuilt(s)'
  <2>1. LastExecutionEvent(s)' = e
    BY <1>2, ExecutionEventIsLast
  <2> QED BY <1>2, <2>1 DEF RowRebuilt
<1> QED BY <1>3, <1>4, <1>5 DEF LogRebuildsTables, AttemptsRebuilt, RowRebuilt

\* So does one that records the new row of an attempt.
LEMMA AttemptEventRebuilds ==
    ASSUME TablesTyped, LogRebuildsTables, NEW s \in Sessions, NEW row \in AttemptRow,
           Record(s, AttemptEventOf(row)), UNCHANGED session,
           attempts' = [attempts EXCEPT ![s] =
               {r \in @ : r.providerAttemptId # row.providerAttemptId} \cup {row}]
    PROVE  LogRebuildsTables'
<1>1. PICK e : e = AttemptEventOf(row)
  OBVIOUS
<1>2. e \in Event /\ Record(s, e) /\ e.type = "provider_attempt_state_changed"
  BY <1>1 DEF AttemptEventOf, AttemptEvent, Event
<1>3. ASSUME NEW x \in Sessions PROVE RowRebuilt(x)'
  <2>1. LastExecutionEvent(x)' = LastExecutionEvent(x)
    BY <1>2, OtherEventsKeepLast
  <2> QED BY <2>1, RebuiltParts DEF RowRebuilt
<1>4. ASSUME NEW x \in Sessions, x # s PROVE AttemptsRebuilt(x)'
  <2>1. LastAttemptEvents(x)' = LastAttemptEvents(x)
    BY <1>2, <1>4, OtherEventsKeepAttempts
  <2>2. attempts'[x] = attempts[x]
    BY <1>4 DEF TablesTyped
  <2> QED BY <2>1, <2>2, RebuiltParts DEF AttemptsRebuilt
<1>5. AttemptsRebuilt(s)'
  <2>1. attempts'[s] = {r \in attempts[s] : r.providerAttemptId # row.providerAttemptId}
                          \cup {row}
    BY DEF TablesTyped
  <2>2. attempts[s] = LastAttemptEvents(s)
    BY RebuiltParts DEF AttemptsRebuilt
  <2> QED BY <2>1, <2>2, AttemptEventReplaces DEF AttemptsRebuilt
<1> QED BY <1>3, <1>4, <1>5 DEF LogRebuildsTables, AttemptsRebuilt, RowRebuilt

\* Each operation keeps the tables rebuilt.
LEMMA BeginRebuilds ==
    ASSUME Tables, LogRebuildsTables, NEW s \in Sessions,
           NEW requested \in ExecutionIds \cup {NULL}, NEW m, NEW f,
           BeginExecution(s, requested, m, f)
    PROVE  LogRebuildsTables'
<1>1. PICK e \in AcceptedIds(requested) :
         /\ session' = [session EXCEPT ![s] =
               [executionId |-> e, generation |-> session[s].generation + 1,
                phase |-> "RUNNING", reason |-> NULL]]
         /\ Record(s, ExecutionEventOf([session |-> s, executionId |-> e,
                          generation |-> session[s].generation + 1], "RUNNING", NULL))
  BY DEF BeginExecution
<1>2. PICK t : t = [session |-> s, executionId |-> e,
                    generation |-> session[s].generation + 1]
  OBVIOUS
<1>3. t \in Token /\ t.session = s /\ t.executionId = e
      /\ t.generation = session[s].generation + 1
  BY <1>1, <1>2 DEF Tables, TablesTyped, SessionRow, Token, AcceptedIds
<1>4. /\ session'[s] = [executionId |-> t.executionId, generation |-> t.generation,
                        phase |-> "RUNNING", reason |-> NULL]
      /\ \A x \in Sessions \ {s} : session'[x] = session[x]
      /\ Record(s, ExecutionEventOf(t, "RUNNING", NULL)) /\ UNCHANGED attempts
  BY <1>1, <1>2, <1>3 DEF Tables, TablesTyped, BeginExecution
<1>5. "RUNNING" \in Phases
  BY DEF Phases, ActivePhases
<1> QED BY <1>3, <1>4, <1>5, ExecutionEventRebuilds DEF Tables

LEMMA TransitionRebuilds ==
    ASSUME Tables, LogRebuildsTables, NEW t \in Token, NEW phase \in Phases,
           NEW reason \in ExecutionReasons \cup {NULL},
           TransitionExecution(t, phase, reason)
    PROVE  LogRebuildsTables'
<1>1. t.session \in Sessions /\ session[t.session] \in SessionRow
  BY DEF Token, Tables, TablesTyped
<1>2. session'[t.session] = [executionId |-> t.executionId, generation |-> t.generation,
                             phase |-> phase, reason |-> reason]
      /\ \A x \in Sessions \ {t.session} : session'[x] = session[x]
  BY <1>1 DEF TransitionExecution, MayTransition, IsCurrent, SessionRow, Tables, TablesTyped
<1> QED BY <1>2, ExecutionEventRebuilds DEF TransitionExecution, Tables

LEMMA BeginAttemptRebuilds ==
    ASSUME Tables, LogRebuildsTables, NEW t \in Token, NEW id \in AttemptIds, NEW p,
           BeginProviderAttempt(t, id, p)
    PROVE  LogRebuildsTables'
<1>1. PICK row : row = [executionId |-> t.executionId, generation |-> t.generation,
                        attempt |-> NextAttempt(t), providerAttemptId |-> id,
                        phase |-> "RUNNING", reason |-> NULL]
  OBVIOUS
<1>2. NextAttempt(t) \in Nat /\ t.session \in Sessions
  BY NextAttemptBound DEF Tables, Token
<1>3. row \in AttemptRow /\ row.providerAttemptId = id
  BY <1>1, <1>2 DEF AttemptRow, Token
<1>4. /\ Record(t.session, AttemptEventOf(row)) /\ UNCHANGED session
      /\ attempts' = [attempts EXCEPT ![t.session] = @ \cup {row}]
      /\ \A r \in attempts[t.session] : r.providerAttemptId # id
  BY <1>1 DEF BeginProviderAttempt
<1>5. attempts' = [attempts EXCEPT ![t.session] =
               {r \in @ : r.providerAttemptId # row.providerAttemptId} \cup {row}]
  <2>1. {r \in attempts[t.session] : r.providerAttemptId # row.providerAttemptId}
           = attempts[t.session]
    BY <1>3, <1>4
  <2> QED BY <1>4, <2>1
<1> QED BY <1>2, <1>3, <1>4, <1>5, AttemptEventRebuilds DEF Tables

LEMMA EndAttemptRebuilds ==
    ASSUME Tables, LogRebuildsTables, NEW t \in Token, NEW row,
           NEW reason \in AttemptReasons, TransitionProviderAttempt(t, row, reason)
    PROVE  LogRebuildsTables'
<1>1. PICK ended : ended = [row EXCEPT !.phase = "TERMINAL", !.reason = reason]
  OBVIOUS
<1>2. t.session \in Sessions /\ row \in attempts[t.session] /\ row \in AttemptRow
  BY DEF Token, TransitionProviderAttempt, AttemptsOf, Tables, TablesTyped
<1>3. ended \in AttemptRow /\ ended.providerAttemptId = row.providerAttemptId
  BY <1>1, <1>2 DEF AttemptRow
<1>4. /\ Record(t.session, AttemptEventOf(ended)) /\ UNCHANGED session
      /\ attempts' = [attempts EXCEPT ![t.session] = (@ \ {row}) \cup {ended}]
  BY <1>1 DEF TransitionProviderAttempt
<1>5. attempts[t.session] \ {row} =
         {r \in attempts[t.session] : r.providerAttemptId # ended.providerAttemptId}
  <2>1. \A r \in attempts[t.session] : r.providerAttemptId = row.providerAttemptId => r = row
    BY <1>2, LastRowsDiffer, RebuiltParts DEF AttemptsRebuilt, Tables
  <2> QED BY <1>2, <1>3, <2>1
<1> QED BY <1>2, <1>3, <1>4, <1>5, AttemptEventRebuilds DEF Tables

LEMMA SameTablesRebuilt ==
    ASSUME LogRebuildsTables, UNCHANGED <<session, attempts, events>>
    PROVE  LogRebuildsTables'
<1>1. ASSUME NEW s \in Sessions PROVE LastAttemptEvents(s)' = LastAttemptEvents(s)
  BY DEF LastAttemptEvents
<1>2. ASSUME NEW s \in Sessions PROVE LastExecutionEvent(s)' = LastExecutionEvent(s)
  BY DEF LastExecutionEvent
<1> QED BY <1>1, <1>2 DEF LogRebuildsTables

LEMMA NextRebuilds ==
    ASSUME IInv, LogRebuildsTables, Next
    PROVE  LogRebuildsTables'
<1>1. ASSUME NEW s \in Sessions, CallBegin(s) PROVE LogRebuildsTables'
  BY <1>1, BeginRebuilds, SameTablesRebuilt DEF CallBegin, RetryExecution, IInv
<1>2. ASSUME NEW s \in Sessions, NEW t \in Issued(s), CallAttempt(t) \/ CallTransition(t)
      PROVE  LogRebuildsTables'
  <2>1. t \in Token
    BY IssuedTyped DEF IInv
  <2>2. CASE CallAttempt(t)
    BY <2>1, <2>2, BeginAttemptRebuilds, EndAttemptRebuilds DEF CallAttempt, IInv
  <2>3. CASE CallTransition(t)
    BY <2>1, <2>3, TransitionRebuilds DEF CallTransition, Phases, IInv
  <2> QED BY <1>2, <2>2, <2>3
<1>3. CASE Crash \/ ScanOrphans \/ FinishRecovery
  BY <1>3, SameTablesRebuilt DEF Crash, ScanOrphans, FinishRecovery, ledgerTables
<1>4. ASSUME NEW t \in orphans, RecoverExecution(t) PROVE LogRebuildsTables'
  <2>1. t \in Token /\ TransitionExecution(t, "TERMINAL", "server_restart")
    BY <1>4 DEF RecoverExecution, IInv, ProcessTyped
  <2>2. "TERMINAL" \in Phases /\ "server_restart" \in ExecutionReasons \cup {NULL}
    BY ReasonAssumption DEF Phases
  <2> QED BY <2>1, <2>2, TransitionRebuilds DEF IInv
<1>5. ASSUME NEW t \in orphans, NEW row, RecoverAttempt(t, row) PROVE LogRebuildsTables'
  <2>1. t \in Token /\ TransitionProviderAttempt(t, row, "ambiguous")
    BY <1>5 DEF RecoverAttempt, IInv, ProcessTyped
  <2> QED BY <2>1, ReasonAssumption, EndAttemptRebuilds DEF IInv
<1> QED BY <1>1, <1>2, <1>3, <1>4, <1>5 DEF Next, Recover

-----------------------------------------------------------------------------
(* The theorem.                                                            *)

\* The event log alone rebuilds the tables, whoever called, crashed or recovered.
THEOREM LogIsComplete == Spec => []LogRebuildsTables
<1>1. Init => LogRebuildsTables
  BY DEF Init, LogRebuildsTables, LastAttemptEvents
<1>2. IInv /\ LogRebuildsTables /\ [Next]_vars => LogRebuildsTables'
  BY NextRebuilds, SameTablesRebuilt DEF vars
<1> QED BY <1>1, <1>2, Invariance, PTL DEF Spec


-----------------------------------------------------------------------------
(* The strengthening for the refinement.                                   *)

Logged(s) == {events[s][i] : i \in {j \in DOMAIN events[s] : IsExecutionEvent(s, j)}}

\* Every generation is in the log under one execution id, and every one but a
\* live current one with its end; an end has a reason.
Chronicled ==
    \A s \in Sessions :
        /\ \A l \in Logged(s) :
              /\ l.generation \in 1 .. session[s].generation
              /\ l.generation = session[s].generation => l.executionId = session[s].executionId
              /\ l.phase = "TERMINAL" => l.reason \in ExecutionReasons
              /\ \A k \in Logged(s) : k.generation = l.generation => k.executionId = l.executionId
        /\ \A g \in 1 .. session[s].generation : \E l \in Logged(s) :
              /\ l.generation = g
              /\ g < session[s].generation \/ session[s].phase = "TERMINAL" => l.phase = "TERMINAL"
        /\ session[s].phase = "NONE" <=> session[s].generation = 0

CallsNamed ==
    \A s \in Sessions : \A p, q \in attempts[s] :
        p.providerAttemptId = q.providerAttemptId => p = q

LInv == IInv /\ Chronicled /\ CallsNamed

-----------------------------------------------------------------------------
(* The log as a set of events.                                             *)

\* What the tables' types say of one session.
LEMMA RowTyped ==
    ASSUME Tables, NEW s \in Sessions
    PROVE  /\ session[s] \in SessionRow /\ session[s].generation \in Nat
           /\ Logged(s) \subseteq ExecutionEvent
           /\ \A r \in attempts[s] : r \in AttemptRow
<1>1. \A i \in DOMAIN events[s] : events[s][i] \in Event
  BY DEF Tables, TablesTyped
<1>2. \A i \in DOMAIN events[s] : IsExecutionEvent(s, i) => events[s][i] \in ExecutionEvent
  BY <1>1 DEF Event, AttemptEvent, IsExecutionEvent
<1> QED BY <1>2 DEF Logged, Tables, TablesTyped, SessionRow

\* Issued tokens are those of logged events.
LEMMA IssuedLogged ==
    ASSUME NEW s
    PROVE  Issued(s) = {[session |-> s, executionId |-> l.executionId,
                         generation |-> l.generation] : l \in Logged(s)}
BY DEF Issued, Logged, IsExecutionEvent

\* An execution event joins the set, an attempt's event does not.
LEMMA LogAdds ==
    ASSUME Tables, NEW s \in Sessions, NEW e \in Event, Record(s, e)
    PROVE  /\ \A x \in Sessions \ {s} : Logged(x)' = Logged(x)
           /\ Logged(s)' = IF e.type = "execution_state_changed" THEN Logged(s) \cup {e}
                           ELSE Logged(s)
<1>1. /\ \A x \in Sessions \ {s} : events'[x] = events[x]
      /\ DOMAIN events'[s] = DOMAIN events[s] \cup {Len(events[s]) + 1}
      /\ \A i \in DOMAIN events[s] : events'[s][i] = events[s][i]
      /\ events'[s][Len(events[s]) + 1] = e
  BY RecordAppends DEF Tables
<1>2. \A x \in Sessions \ {s} : Logged(x)' = Logged(x)
  BY <1>1 DEF Logged, IsExecutionEvent
<1>3. CASE e.type = "execution_state_changed"
  BY <1>1, <1>3 DEF Logged, IsExecutionEvent
<1>4. CASE e.type # "execution_state_changed"
  BY <1>1, <1>4 DEF Logged, IsExecutionEvent
<1> QED BY <1>2, <1>3, <1>4

-----------------------------------------------------------------------------
(* Each operation keeps the strengthening.                                 *)

LEMMA BeginChronicled ==
    ASSUME LInv, NEW s \in Sessions, NEW requested \in ExecutionIds \cup {NULL},
           NEW m \in ClientMsgIds \cup {NULL}, NEW f \in Fingerprints,
           BeginExecution(s, requested, m, f)
    PROVE  /\ Chronicled' /\ CallsNamed'
           /\ UNCHANGED attempts
           /\ \A x \in Sessions \ {s} : session'[x] = session[x]
           /\ session'[s].generation = session[s].generation + 1
           /\ session'[s].phase = "RUNNING" /\ session'[s].executionId \in ExecutionIds
           /\ \E e \in Event : Record(s, e) /\ \A t \in Token : ~EndsExecution(t, e)
<1>1. PICK e \in AcceptedIds(requested) :
         /\ session' = [session EXCEPT ![s] =
               [executionId |-> e, generation |-> session[s].generation + 1,
                phase |-> "RUNNING", reason |-> NULL]]
         /\ Record(s, ExecutionEventOf([session |-> s, executionId |-> e,
                          generation |-> session[s].generation + 1], "RUNNING", NULL))
  BY DEF BeginExecution
<1>2. PICK event : event = ExecutionEventOf([session |-> s, executionId |-> e,
                          generation |-> session[s].generation + 1], "RUNNING", NULL)
  OBVIOUS
<1>3. session[s].generation \in Nat /\ session \in [Sessions -> SessionRow] /\ e \in ExecutionIds
  BY <1>1, RowTyped DEF LInv, IInv, Tables, TablesTyped, AcceptedIds
<1>4. /\ event \in Event /\ event.type = "execution_state_changed"
      /\ event.generation = session[s].generation + 1 /\ event.executionId = e
      /\ event.phase = "RUNNING"
  BY <1>2, <1>3 DEF ExecutionEventOf, ExecutionEvent, Event, Phases, ActivePhases
<1>5. /\ session'[s].generation = session[s].generation + 1
      /\ session'[s].executionId = e /\ session'[s].phase = "RUNNING"
      /\ \A x \in Sessions \ {s} : session'[x] = session[x]
      /\ UNCHANGED attempts
  BY <1>1, <1>3 DEF BeginExecution
<1>6. /\ \A x \in Sessions \ {s} : Logged(x)' = Logged(x)
      /\ Logged(s)' = Logged(s) \cup {event}
  BY <1>1, <1>2, <1>4, LogAdds DEF LInv, IInv
<1>7. Chronicled'
  <2>1. ASSUME NEW x \in Sessions, x # s
        PROVE  session'[x] = session[x] /\ Logged(x)' = Logged(x)
    BY <1>5, <1>6, <2>1
  <2>2. \A g \in 1 .. session[s].generation : \E l \in Logged(s) :
           l.generation = g /\ l.phase = "TERMINAL"
    BY <1>3 DEF BeginExecution, MayBegin, LInv, Chronicled
  <2>3. \A l \in Logged(s) : /\ l.generation \in 1 .. session[s].generation
                             /\ l.phase = "TERMINAL" => l.reason \in ExecutionReasons
                             /\ \A k \in Logged(s) : k.generation = l.generation =>
                                                        k.executionId = l.executionId
    BY DEF LInv, Chronicled
  <2>4. \A l \in Logged(s)' :
           /\ l.generation \in 1 .. session'[s].generation
           /\ l.generation = session'[s].generation => l.executionId = session'[s].executionId
           /\ l.phase = "TERMINAL" => l.reason \in ExecutionReasons
           /\ \A k \in Logged(s)' : k.generation = l.generation => k.executionId = l.executionId
    BY <1>3, <1>4, <1>5, <1>6, <2>3
  <2>5. \A g \in 1 .. session'[s].generation : \E l \in Logged(s)' :
           /\ l.generation = g
           /\ g < session'[s].generation \/ session'[s].phase = "TERMINAL" => l.phase = "TERMINAL"
    BY <1>3, <1>4, <1>5, <1>6, <2>2
  <2>6. session'[s].phase = "NONE" <=> session'[s].generation = 0
    BY <1>3, <1>5
  <2> QED BY <1>5, <2>1, <2>4, <2>5, <2>6 DEF LInv, Chronicled
<1>8. CallsNamed'
  BY <1>5 DEF LInv, CallsNamed
<1>9. \A t \in Token : ~EndsExecution(t, event)
  BY <1>4 DEF EndsExecution
<1> QED BY <1>1, <1>2, <1>3, <1>4, <1>5, <1>7, <1>8, <1>9

\* An attempt's event changes nothing the log says of executions.
LEMMA AttemptChronicled ==
    ASSUME LInv, NEW s \in Sessions, NEW row \in AttemptRow,
           Record(s, AttemptEventOf(row)), UNCHANGED session
    PROVE  /\ Chronicled'
           /\ \E e \in Event : Record(s, e) /\ \A t \in Token : ~EndsExecution(t, e)
<1>1. PICK e : e = AttemptEventOf(row)
  OBVIOUS
<1>2. e \in Event /\ e.type = "provider_attempt_state_changed"
  BY <1>1 DEF AttemptEventOf, AttemptEvent, Event
<1>3. \A x \in Sessions : Logged(x)' = Logged(x)
  BY <1>1, <1>2, LogAdds DEF LInv, IInv
<1>4. Chronicled'
  BY <1>3 DEF LInv, Chronicled
<1>5. \A t \in Token : ~EndsExecution(t, e)
  BY <1>2 DEF EndsExecution
<1> QED BY <1>1, <1>2, <1>4, <1>5

LEMMA CallBegins ==
    ASSUME LInv, NEW t \in Token, NEW id \in AttemptIds, NEW allowParallel \in BOOLEAN,
           BeginProviderAttempt(t, id, allowParallel)
    PROVE  /\ Chronicled' /\ CallsNamed' /\ UNCHANGED session
           /\ session[t.session].phase = "RUNNING"
           /\ \A r \in attempts[t.session] : r.providerAttemptId # id
           /\ \E row \in AttemptRow :
                 /\ row.providerAttemptId = id /\ row.phase = "RUNNING"
                 /\ attempts' = [attempts EXCEPT ![t.session] = @ \cup {row}]
           /\ \E e \in Event : Record(t.session, e) /\ \A u \in Token : ~EndsExecution(u, e)
<1>1. PICK row : row = [executionId |-> t.executionId, generation |-> t.generation,
                        attempt |-> NextAttempt(t), providerAttemptId |-> id,
                        phase |-> "RUNNING", reason |-> NULL]
  OBVIOUS
<1>2. /\ t.session \in Sessions /\ t.executionId \in ExecutionIds /\ t.generation \in Nat
      /\ NextAttempt(t) \in Nat
  BY NextAttemptBound DEF Token, LInv, IInv, Tables
<1>3. row \in AttemptRow /\ row.providerAttemptId = id /\ row.phase = "RUNNING"
  BY <1>1, <1>2 DEF AttemptRow
<1>4. /\ attempts' = [attempts EXCEPT ![t.session] = @ \cup {row}]
      /\ Record(t.session, AttemptEventOf(row)) /\ UNCHANGED session
      /\ session[t.session].phase = "RUNNING"
      /\ \A r \in attempts[t.session] : r.providerAttemptId # id
  BY <1>1 DEF BeginProviderAttempt
<1>5. CallsNamed'
  <2>1. \A x \in Sessions : attempts'[x] = IF x = t.session THEN attempts[x] \cup {row}
                                           ELSE attempts[x]
    BY <1>2, <1>4 DEF LInv, IInv, Tables, TablesTyped
  <2> QED BY <1>3, <1>4, <2>1 DEF LInv, CallsNamed
<1> QED BY <1>2, <1>3, <1>4, <1>5, AttemptChronicled

LEMMA CallEnds ==
    ASSUME LInv, NEW t \in Token, NEW row, NEW reason \in AttemptReasons,
           TransitionProviderAttempt(t, row, reason)
    PROVE  /\ Chronicled' /\ CallsNamed' /\ UNCHANGED session
           /\ row \in attempts[t.session] /\ row.phase = "RUNNING"
           /\ \E ended \in AttemptRow :
                 /\ ended.providerAttemptId = row.providerAttemptId
                 /\ ended.phase = "TERMINAL"
                 /\ attempts' = [attempts EXCEPT ![t.session] = (@ \ {row}) \cup {ended}]
           /\ \E e \in Event : Record(t.session, e) /\ \A u \in Token : ~EndsExecution(u, e)
<1>1. PICK ended : ended = [row EXCEPT !.phase = "TERMINAL", !.reason = reason]
  OBVIOUS
<1>2. /\ t.session \in Sessions /\ row \in attempts[t.session] /\ row.phase = "RUNNING"
      /\ row \in AttemptRow
  BY RowTyped DEF Token, TransitionProviderAttempt, AttemptsOf, LInv, IInv
<1>3. /\ ended \in AttemptRow /\ ended.providerAttemptId = row.providerAttemptId
      /\ ended.phase = "TERMINAL"
  BY <1>1, <1>2 DEF AttemptRow
<1>4. /\ attempts' = [attempts EXCEPT ![t.session] = (@ \ {row}) \cup {ended}]
      /\ Record(t.session, AttemptEventOf(ended)) /\ UNCHANGED session
  BY <1>1 DEF TransitionProviderAttempt
<1>5. CallsNamed'
  <2>1. \A x \in Sessions : attempts'[x] = IF x = t.session THEN (attempts[x] \ {row}) \cup {ended}
                                           ELSE attempts[x]
    BY <1>2, <1>4 DEF LInv, IInv, Tables, TablesTyped
  <2>2. \A p, q \in (attempts[t.session] \ {row}) \cup {ended} :
           p.providerAttemptId = q.providerAttemptId => p = q
    BY <1>2, <1>3 DEF LInv, CallsNamed
  <2> QED BY <1>2, <2>1, <2>2 DEF LInv, CallsNamed
<1> QED BY <1>2, <1>3, <1>4, <1>5, AttemptChronicled

LEMMA TransitionChronicled ==
    ASSUME LInv, NEW t \in Token, NEW phase \in Phases,
           NEW reason \in ExecutionReasons \cup {NULL},
           phase = "TERMINAL" => reason \in ExecutionReasons,
           TransitionExecution(t, phase, reason)
    PROVE  /\ Chronicled' /\ CallsNamed' /\ UNCHANGED attempts
           /\ \A x \in Sessions \ {t.session} : session'[x] = session[x]
           /\ session'[t.session].phase = phase
           /\ session'[t.session].generation = session[t.session].generation
           /\ IsCurrent(t) /\ session[t.session].phase \in ActivePhases
           /\ phase = "TERMINAL" => RunningAttempts(t) = {}
           /\ Record(t.session, ExecutionEventOf(t, phase, reason))
           /\ ExecutionEventOf(t, phase, reason) \in Event
<1> DEFINE s == t.session
<1>1. PICK event : event = ExecutionEventOf(t, phase, reason)
  OBVIOUS
<1>2. s \in Sessions /\ t.executionId \in ExecutionIds /\ t.generation \in Nat
  BY DEF Token
<1>3. /\ event \in Event /\ event.type = "execution_state_changed"
      /\ event.executionId = t.executionId /\ event.generation = t.generation
      /\ event.phase = phase /\ event.reason = reason
  BY <1>1, <1>2 DEF ExecutionEventOf, ExecutionEvent, Event
<1>4. /\ session' = [session EXCEPT ![s].phase = phase, ![s].reason = reason]
      /\ Record(s, event) /\ UNCHANGED attempts
      /\ phase \in Transitions[session[s].phase]
      /\ IsCurrent(t)
      /\ phase = "TERMINAL" => RunningAttempts(t) = {}
  BY <1>1 DEF TransitionExecution, MayTransition
<1>5. session[s] \in SessionRow /\ session \in [Sessions -> SessionRow]
  BY <1>2 DEF LInv, IInv, Tables, TablesTyped
<1>6. session[s].phase \in ActivePhases
  BY <1>4, <1>5 DEF Transitions, SessionRow, Phases, ActivePhases
<1>7. /\ \A x \in Sessions \ {s} : session'[x] = session[x]
      /\ session'[s].phase = phase
      /\ session'[s].generation = session[s].generation
      /\ session'[s].executionId = session[s].executionId
      /\ session[s].generation = t.generation /\ session[s].executionId = t.executionId
  BY <1>2, <1>4, <1>5 DEF SessionRow, IsCurrent
<1>8. /\ \A x \in Sessions \ {s} : Logged(x)' = Logged(x)
      /\ Logged(s)' = Logged(s) \cup {event}
  BY <1>2, <1>3, <1>4, LogAdds DEF LInv, IInv
<1>9. Chronicled'
  <2>1. /\ \A l \in Logged(s) :
              /\ l.generation \in 1 .. session[s].generation
              /\ l.generation = session[s].generation => l.executionId = session[s].executionId
              /\ l.phase = "TERMINAL" => l.reason \in ExecutionReasons
              /\ \A k \in Logged(s) : k.generation = l.generation => k.executionId = l.executionId
        /\ \A g \in 1 .. session[s].generation : \E l \in Logged(s) :
              /\ l.generation = g
              /\ g < session[s].generation => l.phase = "TERMINAL"
        /\ session[s].generation \in Nat
    BY <1>2, <1>5 DEF LInv, Chronicled, SessionRow
  <2>2. t.generation \in 1 .. session[s].generation
    BY <1>2, <1>6, <1>7, <2>1 DEF LInv, Chronicled, ActivePhases
  <2>3. \A l \in Logged(s)' :
           /\ l.generation \in 1 .. session'[s].generation
           /\ l.generation = session'[s].generation => l.executionId = session'[s].executionId
           /\ l.phase = "TERMINAL" => l.reason \in ExecutionReasons
           /\ \A k \in Logged(s)' : k.generation = l.generation => k.executionId = l.executionId
    BY <1>3, <1>7, <1>8, <2>1, <2>2
  <2>4. \A g \in 1 .. session'[s].generation : \E l \in Logged(s)' :
           /\ l.generation = g
           /\ g < session'[s].generation \/ session'[s].phase = "TERMINAL" => l.phase = "TERMINAL"
    BY <1>3, <1>7, <1>8, <2>1, <2>2
  <2>5. session'[s].phase = "NONE" <=> session'[s].generation = 0
    BY <1>6, <1>7, <2>1, <2>2 DEF Phases, ActivePhases
  <2> QED BY <1>7, <1>8, <2>3, <2>4, <2>5 DEF LInv, Chronicled
<1>10. CallsNamed'
  BY <1>4 DEF LInv, CallsNamed
<1> QED BY <1>1, <1>3, <1>4, <1>6, <1>7, <1>9, <1>10

-----------------------------------------------------------------------------
(* What the runs read back.                                                *)

\* The choice of a run's token has one candidate.
LEMMA ChosenToken ==
    ASSUME NEW T, NEW g, NEW c \in T, c.generation = g,
           \A t \in T : t.generation = g => t = c
    PROVE  (CHOOSE t \in T : t.generation = g) = c
OBVIOUS

\* A run is the outcome of one token, before a step and after it.
LEMMA RunKept ==
    ASSUME LInv, Chronicled', NEW s \in Sessions, Logged(s) \subseteq Logged(s)',
           NEW g \in 1 .. session[s].generation, g \in 1 .. session'[s].generation
    PROVE  \E c \in Issued(s) : /\ c.generation = g
                                /\ RunsOf(s)[g] = TerminalReason(c)
                                /\ RunsOf(s)'[g] = TerminalReason(c)'
<1> DEFINE T == {[session |-> s, executionId |-> l.executionId,
                  generation |-> l.generation] : l \in Logged(s)}
<1>1. /\ \E l \in Logged(s) : l.generation = g
      /\ \A k, l \in Logged(s) : k.generation = l.generation => k.executionId = l.executionId
  BY DEF LInv, Chronicled
<1>2. PICK c \in T : c.generation = g /\ \A t \in T : t.generation = g => t = c
  <2>1. PICK k \in Logged(s) : k.generation = g
    BY <1>1
  <2>2. \A l \in Logged(s) : l.generation = g => l.executionId = k.executionId
    BY <1>1, <2>1
  <2> DEFINE c == [session |-> s, executionId |-> k.executionId, generation |-> g]
  <2>3. c \in T
    BY <2>1
  <2>4. \A t \in T : t.generation = g => t = c
    BY <2>1, <2>2
  <2> QED BY <2>3, <2>4
<1>3. Issued(s) = T
  BY IssuedLogged
<1>4. RunsOf(s)[g] = TerminalReason(c)
  <2>1. (CHOOSE t \in Issued(s) : t.generation = g) = c
    BY <1>2, <1>3, ChosenToken
  <2> QED BY <2>1 DEF RunsOf
<1>5. Issued(s)' = {[session |-> s, executionId |-> l.executionId,
                     generation |-> l.generation] : l \in Logged(s)'}
  BY DEF Issued, Logged, IsExecutionEvent
<1>6. \A k, l \in Logged(s)' : k.generation = l.generation => k.executionId = l.executionId
  BY DEF Chronicled
<1>7. c \in Issued(s)' /\ \A t \in Issued(s)' : t.generation = g => t = c
  BY <1>2, <1>5, <1>6
<1>8. RunsOf(s)'[g] = TerminalReason(c)'
  <2>1. (CHOOSE t \in Issued(s)' : t.generation = g) = c
    BY <1>2, <1>7, ChosenToken
  <2> QED BY <2>1 DEF RunsOf
<1> QED BY <1>2, <1>3, <1>4, <1>8

\* Where a token has no end in the log it has no outcome; otherwise its outcome
\* is the reason of one of its ends.
LEMMA OutcomeLogged ==
    ASSUME Tables, NEW t \in Token
    PROVE  /\ (\A l \in Logged(t.session) : ~EndsExecution(t, l)) => TerminalReason(t) = NULL
           /\ (\E l \in Logged(t.session) : EndsExecution(t, l)) =>
                 \E l \in Logged(t.session) : EndsExecution(t, l) /\ TerminalReason(t) = l.reason
<1> DEFINE x == t.session
           I == TerminalEvents(t)
           last == CHOOSE i \in I : \A j \in I : j <= i
<1>1. \A i \in I : events[x][i] \in Logged(x) /\ EndsExecution(t, events[x][i])
  BY DEF TerminalEvents, Logged, IsExecutionEvent, EndsExecution
<1>2. \A l \in Logged(x) : EndsExecution(t, l) => I # {}
  BY DEF TerminalEvents, Logged, IsExecutionEvent, EndsExecution
<1>3. ASSUME \A l \in Logged(x) : ~EndsExecution(t, l) PROVE TerminalReason(t) = NULL
  <2>1. TerminalEvents(t) = {}
    BY <1>1, <1>3
  <2> QED BY <2>1 DEF TerminalReason
<1>4. ASSUME I # {}
      PROVE  \E l \in Logged(x) : EndsExecution(t, l) /\ TerminalReason(t) = l.reason
  <2>1. I \in SUBSET Nat /\ Len(events[x]) \in Nat /\ \A j \in I : j <= Len(events[x])
    BY DEF Token, TerminalEvents, Tables, TablesTyped
  <2>2. \E i \in I : \A j \in I : j <= i
    <3> HIDE DEF I
    <3> QED BY <1>4, <2>1, LargestExists
  <2>3. last \in I
    BY <2>2
  <2>4. TerminalReason(t) = events[x][last].reason
    BY <1>4 DEF TerminalReason
  <2> HIDE DEF last
  <2> QED BY <1>1, <2>3, <2>4
<1> QED BY <1>2, <1>3, <1>4

\* A run is live exactly when it is the last one and its session is active.
LEMMA RunOutcome ==
    ASSUME LInv, NEW s \in Sessions, NEW g \in 1 .. session[s].generation
    PROVE  /\ RunsOf(s)[g] \in ExecutionReasons \cup {NULL}
           /\ RunsOf(s)[g] = NULL <=> (g = session[s].generation /\ session[s].phase # "TERMINAL")
<1>1. /\ \A l \in Logged(s) : l.phase = "TERMINAL" => l.reason \in ExecutionReasons
      /\ \A k, l \in Logged(s) : k.generation = l.generation => k.executionId = l.executionId
      /\ session[s].generation \in Nat
  BY RowTyped DEF LInv, IInv, Chronicled
<1>2. PICK k \in Logged(s) :
         /\ k.generation = g
         /\ g < session[s].generation \/ session[s].phase = "TERMINAL" => k.phase = "TERMINAL"
  BY DEF LInv, Chronicled
<1> DEFINE c == [session |-> s, executionId |-> k.executionId, generation |-> g]
<1>3. c \in Issued(s) /\ \A t \in Issued(s) : t.generation = g => t = c
  BY <1>1, <1>2, IssuedLogged
<1>4. c \in Token /\ c.session = s
  BY <1>3, IssuedTyped DEF LInv, IInv
<1>5. RunsOf(s)[g] = TerminalReason(c)
  <2>1. (CHOOSE t \in Issued(s) : t.generation = g) = c
    BY <1>3, ChosenToken
  <2> QED BY <2>1 DEF RunsOf
<1>6. \A l \in Logged(s) : EndsExecution(c, l) => l.reason \in ExecutionReasons
  BY <1>1 DEF EndsExecution
<1>7. CASE k.phase = "TERMINAL"
  <2>1. EndsExecution(c, k)
    BY <1>2, <1>7 DEF EndsExecution, Logged, IsExecutionEvent
  <2>2. RunsOf(s)[g] \in ExecutionReasons
    BY <1>4, <1>5, <1>6, <2>1, OutcomeLogged DEF LInv, IInv
  <2>3. ~(g = session[s].generation /\ session[s].phase # "TERMINAL")
    BY <1>2, <1>7 DEF LInv, IInv, Tables, LogNotAhead, Logged
  <2> QED BY <2>2, <2>3, NullAssumption
<1>8. CASE k.phase # "TERMINAL"
  <2>1. g = session[s].generation /\ session[s].phase # "TERMINAL"
    BY <1>1, <1>2, <1>8
  <2>2. \A l \in Logged(s) : ~EndsExecution(c, l)
    BY <2>1 DEF LInv, IInv, Tables, LogNotAhead, Logged, EndsExecution
  <2> QED BY <1>4, <1>5, <2>1, <2>2, OutcomeLogged DEF LInv, IInv
<1> QED BY <1>7, <1>8

\* Runs whose tokens keep their outcomes stay as they are.
LEMMA RunsStay ==
    ASSUME LInv, Chronicled', NEW s \in Sessions, Logged(s) \subseteq Logged(s)',
           session'[s].generation = session[s].generation,
           \A c \in Issued(s) : TerminalReason(c)' = TerminalReason(c)
    PROVE  RunsOf(s)' = RunsOf(s)
<1>1. \A g \in 1 .. session[s].generation : RunsOf(s)'[g] = RunsOf(s)[g]
  BY RunKept
<1> QED BY <1>1 DEF RunsOf

\* An event changes no run but the one it ends.
LEMMA EventKeepsRuns ==
    ASSUME LInv, Chronicled', NEW s \in Sessions, NEW e \in Event, Record(s, e),
           NEW x \in Sessions, x # s \/ \A t \in Token : ~EndsExecution(t, e),
           session'[x].generation = session[x].generation
    PROVE  RunsOf(x)' = RunsOf(x)
<1>1. Logged(x) \subseteq Logged(x)'
  BY LogAdds DEF LInv, IInv
<1>2. ASSUME NEW c \in Issued(x) PROVE TerminalReason(c)' = TerminalReason(c)
  <2>1. c \in Token /\ c.session = x
    BY IssuedTyped DEF LInv, IInv
  <2> QED BY <2>1, OtherEventsKeepOutcome DEF LInv, IInv, Tables
<1> QED BY <1>1, <1>2, RunsStay

-----------------------------------------------------------------------------
(* The steps of the abstract specification.                                *)

OpenCalls(s) == {r.providerAttemptId : r \in {x \in attempts[s] : x.phase = "RUNNING"}}
UsedCalls(s) == {r.providerAttemptId : r \in attempts[s]}

\* The runs of a session are a sequence, as long as its generation, and its
\* last run is live while the session is active.
LEMMA RunsRead ==
    ASSUME LInv, NEW s \in Sessions
    PROVE  /\ RunsOf(s) \in Seq(ExecutionReasons \cup {NULL})
           /\ Len(RunsOf(s)) = session[s].generation
           /\ Lifecycle!LiveRun(s) <=> session[s].phase \in ActivePhases
<1>1. session[s].generation \in Nat /\ session[s].phase \in Phases \cup {"NONE"}
  BY RowTyped DEF LInv, IInv, SessionRow
<1>2. DOMAIN RunsOf(s) = 1 .. session[s].generation
  BY DEF RunsOf
<1>3. RunsOf(s) \in [1 .. session[s].generation -> ExecutionReasons \cup {NULL}]
  <2>1. \A g \in 1 .. session[s].generation : RunsOf(s)[g] \in ExecutionReasons \cup {NULL}
    BY RunOutcome
  <2>2. RunsOf(s) = [g \in 1 .. session[s].generation |-> RunsOf(s)[g]]
    BY DEF RunsOf
  <2> QED BY <2>1, <2>2
<1>4. RunsOf(s) \in Seq(ExecutionReasons \cup {NULL}) /\ Len(RunsOf(s)) = session[s].generation
  BY <1>1, <1>3
<1>5. Lifecycle!LiveRun(s) <=>
         session[s].generation > 0 /\ RunsOf(s)[session[s].generation] = NULL
  BY <1>4 DEF Lifecycle!LiveRun
<1>6. session[s].phase = "NONE" <=> session[s].generation = 0
  BY DEF LInv, Chronicled
<1>7. CASE session[s].generation = 0
  BY <1>4, <1>5, <1>6, <1>7 DEF ActivePhases
<1>8. CASE session[s].generation > 0
  BY <1>1, <1>4, <1>5, <1>6, <1>8, RunOutcome DEF Phases, ActivePhases
<1> QED BY <1>1, <1>4, <1>7, <1>8

\* A function on the positions of q and one more is q with one element appended.
LEMMA Appended ==
    ASSUME NEW S, NEW n \in Nat, NEW q \in Seq(S), Len(q) = n, NEW v \in S,
           NEW r, DOMAIN r = 1 .. n + 1, r = [g \in DOMAIN r |-> r[g]],
           \A g \in 1 .. n : r[g] = q[g], r[n + 1] = v
    PROVE  r = Append(q, v)
<1>1. \A g \in 1 .. n : r[g] \in S
  BY ElementOfSeq
<1>2. \A g \in 1 .. n + 1 : g \in 1 .. n \/ g = n + 1
  OBVIOUS
<1>3. r \in [1 .. n + 1 -> S]
  BY <1>1, <1>2
<1>4. r \in Seq(S) /\ Len(r) = n + 1
  BY <1>3
<1>5. /\ Append(q, v) \in Seq(S) /\ Len(Append(q, v)) = n + 1
      /\ \A g \in 1 .. n : Append(q, v)[g] = q[g]
      /\ Append(q, v)[n + 1] = v
  BY AppendProperties
<1>6. \A g \in 1 .. Len(r) : r[g] = Append(q, v)[g]
  BY <1>2, <1>4, <1>5
<1> QED BY <1>4, <1>5, <1>6, SeqEqual

\* beginExecution starts a run.
LEMMA BeginStarts ==
    ASSUME LInv, NEW s \in Sessions, NEW requested \in ExecutionIds \cup {NULL},
           NEW m \in ClientMsgIds \cup {NULL}, NEW f \in Fingerprints,
           BeginExecution(s, requested, m, f)
    PROVE  Lifecycle!Start(s)
<1>1. /\ Chronicled' /\ UNCHANGED attempts
      /\ \A x \in Sessions \ {s} : session'[x] = session[x]
      /\ session'[s].generation = session[s].generation + 1
      /\ session'[s].phase = "RUNNING" /\ session'[s].executionId \in ExecutionIds
  BY BeginChronicled
<1>2. PICK e \in Event : Record(s, e) /\ \A t \in Token : ~EndsExecution(t, e)
  BY BeginChronicled
<1>3. session[s].generation \in Nat
  BY RowTyped DEF LInv, IInv
<1>4. ~Lifecycle!LiveRun(s)
  BY RunsRead DEF BeginExecution, MayBegin, ActivePhases
<1>5. \A x \in Sessions \ {s} : RunsOf(x)' = RunsOf(x)
  BY <1>1, <1>2, EventKeepsRuns
<1>6. RunsOf(s)' = Append(RunsOf(s), NULL)
  <2> DEFINE n == session[s].generation
  <2>1. \A c \in Token : TerminalReason(c)' = TerminalReason(c)
    BY <1>2, OtherEventsKeepOutcome DEF LInv, IInv, Tables
  <2>2. Logged(s) \subseteq Logged(s)'
    BY <1>2, LogAdds DEF LInv, IInv
  <2>3. \A g \in 1 .. n : RunsOf(s)'[g] = RunsOf(s)[g]
    <3>1. \A c \in Issued(s) : c \in Token
      BY IssuedTyped DEF LInv, IInv
    <3>2. \A g \in 1 .. n : g \in 1 .. session'[s].generation
      BY <1>1, <1>3
    <3> QED BY <1>1, <2>1, <2>2, <3>1, <3>2, RunKept
  <2>4. RunsOf(s)'[n + 1] = NULL
    <3>1. PICK id : id = session'[s].executionId
      OBVIOUS
    <3>2. PICK next : next = n + 1
      OBVIOUS
    <3> DEFINE c == [session |-> s, executionId |-> id, generation |-> next]
    <3>3. next \in 1 .. session'[s].generation
      BY <1>1, <1>3, <3>2
    <3>4. /\ \E l \in Logged(s)' : l.generation = next
          /\ \A l \in Logged(s)' : l.generation = next => l.executionId = id
      BY <1>1, <3>1, <3>2, <3>3 DEF Chronicled
    <3>5. Issued(s)' = {[session |-> s, executionId |-> l.executionId,
                         generation |-> l.generation] : l \in Logged(s)'}
      BY DEF Issued, Logged, IsExecutionEvent
    <3>6. c \in Issued(s)' /\ \A t \in Issued(s)' : t.generation = next => t = c
      BY <3>4, <3>5
    <3>7. RunsOf(s)'[next] = TerminalReason(c)'
      <4>1. (CHOOSE t \in Issued(s)' : t.generation = next) = c
        BY <3>6, ChosenToken
      <4> QED BY <3>3, <4>1 DEF RunsOf
    <3>8. c \in Token
      BY <1>1, <1>3, <3>1, <3>2 DEF Token
    <3>9. \A l \in Logged(s) : ~EndsExecution(c, l)
      BY <1>3, <3>2 DEF EndsExecution, LInv, Chronicled
    <3> QED BY <2>1, <3>2, <3>7, <3>8, <3>9, OutcomeLogged DEF LInv, IInv
  <2>5. RunsOf(s)' = [g \in 1 .. n + 1 |-> RunsOf(s)'[g]]
    BY <1>1 DEF RunsOf
  <2>6. RunsOf(s) \in Seq(ExecutionReasons \cup {NULL}) /\ Len(RunsOf(s)) = n
    BY RunsRead
  <2>7. PICK after, before : after = RunsOf(s)' /\ before = RunsOf(s)
    OBVIOUS
  <2> HIDE DEF n
  <2>8. n \in Nat
    BY <1>3 DEF n
  <2>9. DOMAIN after = 1 .. n + 1 /\ after = [g \in DOMAIN after |-> after[g]]
    BY <2>5, <2>7
  <2>10. (\A g \in 1 .. n : after[g] = before[g]) /\ after[n + 1] = NULL
    BY <2>3, <2>4, <2>7
  <2>11. /\ NULL \in ExecutionReasons \cup {NULL}
         /\ before \in Seq(ExecutionReasons \cup {NULL}) /\ Len(before) = n
    BY <2>6, <2>7
  <2>12. after = Append(before, NULL)
    BY <2>8, <2>9, <2>10, <2>11, Appended
  <2> QED BY <2>7, <2>12
<1> QED BY <1>1, <1>4, <1>5, <1>6 DEF Lifecycle!Start, Lifecycle!LiveRun

LEMMA AttemptOpens ==
    ASSUME LInv, NEW t \in Token, NEW id \in AttemptIds, NEW allowParallel \in BOOLEAN,
           BeginProviderAttempt(t, id, allowParallel)
    PROVE  Lifecycle!Open(t.session, id)
<1> DEFINE s == t.session
<1>1. /\ Chronicled' /\ UNCHANGED session
      /\ session[s].phase = "RUNNING"
      /\ \A r \in attempts[s] : r.providerAttemptId # id
  BY CallBegins
<1>2. PICK row \in AttemptRow :
         /\ row.providerAttemptId = id /\ row.phase = "RUNNING"
         /\ attempts' = [attempts EXCEPT ![s] = @ \cup {row}]
  BY CallBegins
<1>3. PICK e \in Event : Record(s, e) /\ \A u \in Token : ~EndsExecution(u, e)
  BY CallBegins
<1>4. s \in Sessions /\ attempts \in [Sessions -> SUBSET AttemptRow]
  BY DEF Token, LInv, IInv, Tables, TablesTyped
<1>5. \A x \in Sessions : RunsOf(x)' = RunsOf(x)
  BY <1>1, <1>3, <1>4, EventKeepsRuns
<1>6. Lifecycle!LiveRun(s)
  BY <1>1, <1>4, RunsRead DEF ActivePhases
<1>7. /\ \A x \in Sessions \ {s} : OpenCalls(x)' = OpenCalls(x) /\ UsedCalls(x)' = UsedCalls(x)
      /\ OpenCalls(s)' = OpenCalls(s) \cup {id} /\ UsedCalls(s)' = UsedCalls(s) \cup {id}
      /\ id \notin UsedCalls(s)
  BY <1>1, <1>2, <1>4 DEF OpenCalls, UsedCalls
<1> QED BY <1>4, <1>5, <1>6, <1>7 DEF Lifecycle!Open, Lifecycle!LiveRun, OpenCalls, UsedCalls

LEMMA AttemptCloses ==
    ASSUME LInv, NEW t \in Token, NEW row, NEW reason \in AttemptReasons,
           TransitionProviderAttempt(t, row, reason)
    PROVE  row.providerAttemptId \in AttemptIds
           /\ Lifecycle!Close(t.session, row.providerAttemptId)
<1> DEFINE s == t.session
<1>1. /\ Chronicled' /\ UNCHANGED session
      /\ row \in attempts[s] /\ row.phase = "RUNNING"
  BY CallEnds
<1>2. PICK ended \in AttemptRow :
         /\ ended.providerAttemptId = row.providerAttemptId
         /\ ended.phase = "TERMINAL"
         /\ attempts' = [attempts EXCEPT ![s] = (@ \ {row}) \cup {ended}]
  BY CallEnds
<1>3. PICK e \in Event : Record(s, e) /\ \A u \in Token : ~EndsExecution(u, e)
  BY CallEnds
<1>4. s \in Sessions /\ attempts \in [Sessions -> SUBSET AttemptRow]
  BY DEF Token, LInv, IInv, Tables, TablesTyped
<1>5. \A x \in Sessions : RunsOf(x)' = RunsOf(x)
  BY <1>1, <1>3, <1>4, EventKeepsRuns
<1>6. row.providerAttemptId \in AttemptIds
  BY <1>1, <1>4 DEF AttemptRow
<1>7. \A r \in attempts[s] : r.providerAttemptId = row.providerAttemptId => r = row
  BY <1>1, <1>4 DEF LInv, CallsNamed
<1>8. /\ \A x \in Sessions \ {s} : OpenCalls(x)' = OpenCalls(x) /\ UsedCalls(x)' = UsedCalls(x)
      /\ row.providerAttemptId \in OpenCalls(s)
      /\ OpenCalls(s)' = OpenCalls(s) \ {row.providerAttemptId}
      /\ UsedCalls(s)' = UsedCalls(s)
  <2>1. /\ \A x \in Sessions \ {s} : attempts'[x] = attempts[x]
        /\ attempts'[s] = (attempts[s] \ {row}) \cup {ended}
    BY <1>2, <1>4
  <2>2. UsedCalls(s)' = UsedCalls(s)
    BY <1>1, <1>2, <2>1 DEF UsedCalls
  <2>3. OpenCalls(s)' = OpenCalls(s) \ {row.providerAttemptId}
    BY <1>1, <1>2, <1>7, <2>1 DEF OpenCalls
  <2> QED BY <1>1, <2>1, <2>2, <2>3 DEF OpenCalls, UsedCalls
<1> QED BY <1>4, <1>5, <1>6, <1>8 DEF Lifecycle!Close, OpenCalls, UsedCalls

\* transitionExecution to TERMINAL finishes the live run; the other phases
\* change nothing a reader of the lifecycle sees.
LEMMA TransitionFinishes ==
    ASSUME LInv, NEW t \in Token, NEW phase \in Phases,
           NEW reason \in ExecutionReasons \cup {NULL},
           phase = "TERMINAL" => reason \in ExecutionReasons,
           TransitionExecution(t, phase, reason)
    PROVE  IF phase = "TERMINAL" THEN Lifecycle!Finish(t.session, reason)
           ELSE \A x \in Sessions : RunsOf(x)' = RunsOf(x)
<1> DEFINE s == t.session
<1>1. PICK e : e = ExecutionEventOf(t, phase, reason)
  OBVIOUS
<1>2. /\ Chronicled' /\ UNCHANGED attempts
      /\ session'[s].generation = session[s].generation
      /\ \A x \in Sessions \ {s} : session'[x] = session[x]
      /\ IsCurrent(t) /\ session[s].phase \in ActivePhases
      /\ phase = "TERMINAL" => RunningAttempts(t) = {}
      /\ Record(s, e) /\ e \in Event
  BY <1>1, TransitionChronicled
<1>3. s \in Sessions /\ session[s].generation \in Nat
  BY RowTyped DEF Token, LInv, IInv
<1>4. \A x \in Sessions \ {s} : RunsOf(x)' = RunsOf(x)
  BY <1>2, <1>3, EventKeepsRuns
<1>5. CASE phase # "TERMINAL"
  <2>1. \A u \in Token : ~EndsExecution(u, e)
    BY <1>1, <1>5 DEF EndsExecution, ExecutionEventOf
  <2>2. RunsOf(s)' = RunsOf(s)
    BY <1>2, <1>3, <2>1, EventKeepsRuns
  <2> QED BY <1>4, <1>5, <2>2
<1>6. CASE phase = "TERMINAL"
  <2> DEFINE n == session[s].generation
  <2>1. Lifecycle!LiveRun(s)
    BY <1>2, <1>3, RunsRead
  <2>2. OpenCalls(s) = {}
    <3>1. \A r \in attempts[s] : r.phase # "RUNNING"
      BY <1>2, <1>3, <1>6 DEF RunningAttempts, AttemptsOf, IsCurrent, LInv, IInv, Tables,
                             NoOrphanedAttempt
    <3> QED BY <3>1 DEF OpenCalls
  <2>3. n \in 1 .. n /\ n = t.generation
    BY <1>2, <1>3 DEF IsCurrent, LInv, Chronicled, ActivePhases
  <2>4. Logged(s) \subseteq Logged(s)'
    BY <1>2, <1>3, LogAdds DEF LInv, IInv
  <2>5. ASSUME NEW g \in 1 .. n, g # n PROVE RunsOf(s)'[g] = RunsOf(s)[g]
    <3>1. PICK c \in Issued(s) : /\ c.generation = g
                                 /\ RunsOf(s)[g] = TerminalReason(c)
                                 /\ RunsOf(s)'[g] = TerminalReason(c)'
      BY <1>2, <1>3, <2>4, RunKept
    <3>2. c \in Token /\ ~EndsExecution(c, e)
      BY <1>1, <1>3, <2>3, <2>5, <3>1, IssuedTyped
         DEF LInv, IInv, EndsExecution, ExecutionEventOf
    <3> QED BY <1>2, <1>3, <3>1, <3>2, OtherEventsKeepOutcome DEF LInv, IInv, Tables
  <2>6. RunsOf(s)'[n] = reason
    <3>1. PICK c \in Issued(s) : c.generation = n /\ RunsOf(s)'[n] = TerminalReason(c)'
      BY <1>2, <1>3, <2>3, <2>4, RunKept
    <3>2. c = t
      BY <1>2, <1>3, <2>3, <3>1, IssuedLogged DEF IsCurrent, LInv, Chronicled, Token
    <3>3. TerminalReason(t)' = reason
      BY <1>6, EndSetsOutcome DEF LInv, IInv
    <3> QED BY <3>1, <3>2, <3>3
  <2>7. RunsOf(s)' = [RunsOf(s) EXCEPT ![n] = reason]
    <3>1. RunsOf(s)' = [g \in 1 .. n |-> RunsOf(s)'[g]]
      BY <1>2 DEF RunsOf
    <3>2. DOMAIN RunsOf(s) = 1 .. n
      BY DEF RunsOf
    <3> QED BY <2>5, <2>6, <3>1, <3>2
  <2>8. Len(RunsOf(s)) = n
    BY <1>3, RunsRead
  <2> QED BY <1>2, <1>3, <1>4, <1>6, <2>1, <2>2, <2>7, <2>8
          DEF Lifecycle!Finish, Lifecycle!LiveRun, OpenCalls
<1> QED BY <1>5, <1>6

-----------------------------------------------------------------------------
(* The refinement.                                                         *)

AbstractStep == [Lifecycle!Next]_Lifecycle!lifecycle

\* What keeps every run and every attempt is a stuttering step.
LEMMA Stutters ==
    ASSUME \A s \in Sessions : RunsOf(s)' = RunsOf(s), UNCHANGED attempts
    PROVE  AbstractStep
BY DEF AbstractStep, Lifecycle!lifecycle

\* So is a step that leaves the rows, the attempts and the log alone.
LEMMA SameTables ==
    ASSUME LInv, UNCHANGED <<session, attempts, events>>
    PROVE  Chronicled' /\ CallsNamed' /\ AbstractStep
<1>1. Chronicled' /\ CallsNamed'
  BY DEF LInv, Chronicled, CallsNamed, Logged, IsExecutionEvent
<1>2. ASSUME NEW s \in Sessions PROVE RunsOf(s)' = RunsOf(s)
  <2>1. Logged(s)' = Logged(s)
    BY DEF Logged, IsExecutionEvent
  <2>2. \A c \in Issued(s) : TerminalReason(c)' = TerminalReason(c)
    BY SameLogSameOutcome
  <2> QED BY <1>1, <2>1, <2>2, RunsStay
<1> QED BY <1>1, <1>2, Stutters

\* Each operation keeps the strengthening and is a step of the lifecycle.
LEMMA BeginImplements ==
    ASSUME LInv, NEW s \in Sessions, NEW requested \in ExecutionIds \cup {NULL},
           NEW m \in ClientMsgIds \cup {NULL}, NEW f \in Fingerprints,
           BeginExecution(s, requested, m, f)
    PROVE  Chronicled' /\ CallsNamed' /\ AbstractStep
<1>1. Chronicled' /\ CallsNamed'
  BY BeginChronicled
<1>2. Lifecycle!Start(s)
  BY BeginStarts
<1> QED BY <1>1, <1>2 DEF AbstractStep, Lifecycle!Next

LEMMA AttemptImplements ==
    ASSUME LInv, NEW t \in Token, NEW id \in AttemptIds, NEW allowParallel \in BOOLEAN,
           BeginProviderAttempt(t, id, allowParallel)
    PROVE  Chronicled' /\ CallsNamed' /\ AbstractStep
<1>1. Chronicled' /\ CallsNamed'
  BY CallBegins
<1>2. Lifecycle!Open(t.session, id) /\ t.session \in Sessions
  BY AttemptOpens DEF Token
<1> QED BY <1>1, <1>2 DEF AbstractStep, Lifecycle!Next

LEMMA EndImplements ==
    ASSUME LInv, NEW t \in Token, NEW row, NEW reason \in AttemptReasons,
           TransitionProviderAttempt(t, row, reason)
    PROVE  Chronicled' /\ CallsNamed' /\ AbstractStep
<1>1. Chronicled' /\ CallsNamed'
  BY CallEnds
<1>2. /\ row.providerAttemptId \in AttemptIds /\ t.session \in Sessions
      /\ Lifecycle!Close(t.session, row.providerAttemptId)
  BY AttemptCloses DEF Token
<1> QED BY <1>1, <1>2 DEF AbstractStep, Lifecycle!Next

LEMMA TransitionImplements ==
    ASSUME LInv, NEW t \in Token, NEW phase \in Phases,
           NEW reason \in ExecutionReasons \cup {NULL},
           phase = "TERMINAL" => reason \in ExecutionReasons,
           TransitionExecution(t, phase, reason)
    PROVE  Chronicled' /\ CallsNamed' /\ AbstractStep
<1>1. Chronicled' /\ CallsNamed' /\ UNCHANGED attempts
  BY TransitionChronicled
<1>2. CASE phase = "TERMINAL"
  <2>1. Lifecycle!Finish(t.session, reason) /\ t.session \in Sessions
    BY <1>2, TransitionFinishes DEF Token
  <2> QED BY <1>1, <1>2, <2>1 DEF AbstractStep, Lifecycle!Next
<1>3. CASE phase # "TERMINAL"
  BY <1>1, <1>3, TransitionFinishes, Stutters
<1> QED BY <1>2, <1>3

LEMMA CallsImplement ==
    ASSUME LInv, NEW s \in Sessions,
           CallBegin(s) \/ \E t \in Issued(s) : CallAttempt(t) \/ CallTransition(t)
    PROVE  Chronicled' /\ CallsNamed' /\ AbstractStep
<1>1. \A t \in Issued(s) : t \in Token
  BY IssuedTyped DEF LInv, IInv
<1>2. CASE CallBegin(s)
  <2>1. PICK requested \in ExecutionIds \cup {NULL}, f \in Fingerprints,
             m \in ClientMsgIds \cup {NULL} :
          BeginExecution(s, requested, m, f) \/ RetryExecution(s, requested, m, f)
    BY <1>2 DEF CallBegin
  <2> QED BY <2>1, BeginImplements, SameTables DEF RetryExecution
<1>3. ASSUME NEW t \in Issued(s), CallAttempt(t)
      PROVE  Chronicled' /\ CallsNamed' /\ AbstractStep
  BY <1>1, <1>3, AttemptImplements, EndImplements DEF CallAttempt
<1>4. ASSUME NEW t \in Issued(s), CallTransition(t)
      PROVE  Chronicled' /\ CallsNamed' /\ AbstractStep
  <2>1. PICK phase \in Phases, reason \in ExecutionReasons \cup {NULL} :
          /\ phase = "TERMINAL" => reason \in ExecutionReasons
          /\ TransitionExecution(t, phase, reason)
    BY <1>4 DEF CallTransition, Phases, ActivePhases
  <2> QED BY <1>1, <2>1, TransitionImplements
<1> QED BY <1>2, <1>3, <1>4

LEMMA RecoveryImplements ==
    ASSUME LInv, Crash \/ Recover
    PROVE  Chronicled' /\ CallsNamed' /\ AbstractStep
<1>1. orphans \subseteq Token
  BY DEF LInv, IInv, ProcessTyped
<1>2. CASE Crash \/ ScanOrphans \/ FinishRecovery
  BY <1>2, SameTables DEF Crash, ScanOrphans, FinishRecovery, ledgerTables
<1>3. ASSUME NEW t \in orphans, RecoverExecution(t)
      PROVE  Chronicled' /\ CallsNamed' /\ AbstractStep
  <2>1. /\ TransitionExecution(t, "TERMINAL", "server_restart")
        /\ "TERMINAL" \in Phases /\ "server_restart" \in ExecutionReasons
    BY <1>3, ReasonAssumption DEF RecoverExecution, Phases
  <2> QED BY <1>1, <2>1, TransitionImplements
<1>4. ASSUME NEW t \in orphans, NEW row, RecoverAttempt(t, row)
      PROVE  Chronicled' /\ CallsNamed' /\ AbstractStep
  BY <1>1, <1>4, ReasonAssumption, EndImplements DEF RecoverAttempt
<1> QED BY <1>2, <1>3, <1>4 DEF Recover

LEMMA InitImplements == Init => LInv /\ Lifecycle!Init
<1> SUFFICES ASSUME Init PROVE LInv /\ Lifecycle!Init
  OBVIOUS
<1>1. IInv
  BY InitEstablishesIInv
<1>2. \A s \in Sessions : /\ session[s].generation = 0 /\ session[s].phase = "NONE"
                          /\ events[s] = <<>> /\ attempts[s] = {}
  BY DEF Init
<1>3. Chronicled /\ CallsNamed
  BY <1>2 DEF Chronicled, CallsNamed, Logged
<1>4. \A s \in Sessions : RunsOf(s) = <<>>
  BY <1>2 DEF RunsOf
<1> QED BY <1>1, <1>2, <1>3, <1>4 DEF LInv, Lifecycle!Init

\* The ledger implements the lifecycle a reader relies on: whatever stale
\* callers, crashes and recoveries do, a session reads as a sequence of runs of
\* which only the last may be live, a finished run keeps its outcome, no run
\* finishes over an open call, and no call id is used twice.
THEOREM LedgerImplementsLifecycle == Spec => ImplementsLifecycle
<1>1. LInv /\ [Next]_vars => LInv' /\ AbstractStep
  <2> SUFFICES ASSUME LInv, [Next]_vars PROVE LInv' /\ AbstractStep
    OBVIOUS
  <2>1. CASE Next
    <3>1. IInv'
      BY <2>1, CallsKeepIInv, RecoveryKeepsIInv DEF Next, LInv
    <3>2. Chronicled' /\ CallsNamed' /\ AbstractStep
      BY <2>1, CallsImplement, RecoveryImplements DEF Next
    <3> QED BY <3>1, <3>2 DEF LInv
  <2>2. CASE UNCHANGED vars
    <3>1. IInv'
      BY <2>2, UnchangedTables DEF vars, ledgerTables, IInv, ProcessTyped, LInv
    <3>2. Chronicled' /\ CallsNamed' /\ AbstractStep
      BY <2>2, SameTables DEF vars
    <3> QED BY <3>1, <3>2 DEF LInv
  <2> QED BY <2>1, <2>2
<1> QED BY <1>1, InitImplements, PTL
        DEF Spec, ImplementsLifecycle, Lifecycle!Spec, AbstractStep
=============================================================================
