# Mitzo: TLA+ specifications, model checking and proofs

Mitzo is a self-hosted workspace for AI conversations: a TypeScript server that
runs agents and keeps every conversation in SQLite, and web and iOS clients that
send prompts over HTTP and follow the conversations over an event stream. What
is hard about it is not computation but *delivery and bookkeeping under
failure*: a prompt must start one execution although requests are lost and
repeated; a paid provider call whose answer was lost must not be repeated
silently; a restarted server must end what its dead predecessor left behind; a
phone that loses its connection at any moment must end up with the whole
conversation on screen, in order and once; a sandbox that was paid for must be
neither leaked nor given another conversation's credentials; a scheduled prompt
must not run more often than it may; and a conversation whose driver walked away
must be taken up or ended. This directory specifies those parts.

- [Inventory](#inventory)
- [Modules](#modules)
- [Runs and bounds](#runs-and-bounds)
- [Fairness](#fairness)
- [Proofs](#proofs)
- [Disagreements found](#disagreements-found)
- [What is not modelled](#what-is-not-modelled)
- [Plan](#plan)

Run `tlc -config X.cfg M` for a run; `tlapm` on `ExecutionLedgerProofs.tla`,
`ReasoningRunsProofs.tla`, `SendDeliveryProofs.tla`, `EventDeliveryProofs.tla`,
`WarmPoolProofs.tla`, `SessionPromptsProofs.tla`, `SessionLifetimeProofs.tla` and
`Extrema.tla` checks the proofs. `PROJECT.json` lists the components, the runs
with their properties, the source lines each definition translates, one mutation
per property that breaks it, the hazards and the theorems. Operators whose comment starts with "Fault:"
are those mutations; no specification uses them.

## Inventory

| Part | State | Operations | What is hard | What makes it correct |
| --- | --- | --- | --- | --- |
| **Execution ledger** `packages/protocol/src/execution-ledger.ts` | per session the current execution (id, generation, phase, reason), admissions by client message, provider attempts, and the event log | beginExecution, beginProviderAttempt, transitionProviderAttempt, transitionExecution, recoverOrphanedExecutions | stale tokens, retries of superseded commands, parallel attempts, a crash between two transactions of recovery | one execution per message; no attempt without its execution; outcomes never change; log and tables agree; recovery ends everything |
| **Reasoning commands** `server/fusion-admission.ts`, `deliberate-admission.ts`, `harness/src/reasoning/` | the map of active runs, an abort flag per run, on top of the ledger | start, provider call, stop, completion, retry | continuations interleave at every await; stop against late answers; writes that throw; unknown outcomes of paid calls | each phase sent once; uncertain work repeated only with confirmation; a stop fences; callers agree; runs end |
| **Prompt delivery** `client/src/send-outbox.ts`, `server/send-command.ts`, `chat-rest-handler.ts`, `provider-execution.ts` | client queue in memory and in storage, one attempt, back-off; server receipts, admissions in progress | enqueue, pump, hand-off, stop, rejectAll, reload; admit, retain, dispatch, recover | lost, late and repeated requests; storage that fails; reloads, lost logins; server crashes after the prompt was retained | one dispatch per command, in order, in one conversation; an acceptance is backed; interruptions surface; every prompt settles |
| **Event delivery** `harness/src/connection-registry.ts`, `client/src/applied-delivery.ts`, `applied-event-acks.ts`, `sse-connection.ts` and the restore in `store.ts` | server: cursor, forwarded mark, boundary and snapshot offer; client: cursor, buffer, pending offer, acknowledgement batches, transcript reads | append, retry, reconnect, switch, acknowledge, restore, time out | stream, REST reads, acknowledgements and control requests pass each other; buffers overflow; restores race with the stream | shown in order and once; cursors honest; nothing given up; the client catches up |
| **Session registry** `harness/src/session-registry.ts` with `server/chat.ts`, `query-loop.ts`, `ws-handler-v2.ts` | the ordered map of running sessions, marks (attached, suspended, closing by the user), timers per key, the stored state | start, register, join, hand over, suspend, disconnect, reconnect, stop, close, unwind | keys are reused by the next run of a connection while timers, aborts and unwinding loops of the last one are still about | marks and timers belong to the entry of their key; who leaves is succeeded or the session ends |
| **Warm sandbox pool** `server/openshell-warm-pool.ts`, `-runtime.ts`, `-host.ts` | a durable ledger of settings, sandbox records and one reserved operation; rows of operator requests | settings, prepare, remove, replace, recheck, claim, recover a claim, fill, expire, restart | effects on the gateway land late, twice removed from their caller, or never; a crash between effect and record | no sandbox is leaked or shared; credentials only reach their owner; the ceiling holds; the pool comes back |
| **Session prompts, timers** `server/session-prompt-store.ts`, `-service.ts`, `-dispatch.ts`, removal in `session-resource-removal.ts` | timers with revisions, deliveries, the sweep and its cursor, dispatches, closed sessions | create, change, run now, sweep, claim, admit, reconcile, remove a session | a timer changes or a session is removed during a delivery; restarts between claim and receipt | run limits hold; what is reported failed did not run; removal settles; nobody starves |
| Tool guard, permission handler | phase budgets, abort signals, pending approvals | run, enter phase, time out; ask, answer, grant | time-out against late settlement | settles once; no effect after retirement |
| Session service | child sessions and their states | allocate, start, cancel, recover | cancellation against completion | a confirmed stop is final (the server never constructs it) |
| Chat and provider loops, client reducers, workspaces, OpenShell, tasks, Symposium, Telos, connections, notifications | see `PROJECT.json` | | mostly provider or file-system I/O, or CRUD | |

How they interact: a client *sends* through its outbox to the server's admission,
which begins an execution in the ledger (ordinary prompts through
`admitProviderDispatch`, /fuse and /deliberate through their admission modules).
Prompts that nobody types, of timers and of other sessions, come to the same
admission from the scheduler, and their receipts tell it what became of them. An
ordinary prompt joins the live run of its conversation or starts one, which the
session registry records under the key of the connection that asked; a run on a
managed host starts in a sandbox of the warm pool when there is one. Executions
append events to the session's log. The connection registry forwards the log to
every connection; the client applies, acknowledges and shows it. Ledger,
receipts, timers and deliveries share one SQLite database, whose transactions
are the atomic steps; the pool has a database of its own; everything else on the
server is one JavaScript process that interleaves at awaits.

## Modules

**ExecutionLedger** models `execution-ledger.ts`. `session`, `attempts` and
`admissions` are the tables, `events` the log, `replies` a history of the answers
callers got. One action per transaction (`BeginExecution`, `RetryExecution`,
`BeginProviderAttempt`, `TransitionProviderAttempt`, `TransitionExecution`),
called with any token that was ever issued, since callers may be stale. `Crash`
kills the process; `Recover` performs one transaction of
`recoverOrphanedExecutions` after the other and may crash in between.

**ExecutionLifecycle** is what a reader of a session relies on: a sequence of
runs of which at most the last is live, final outcomes, no run finishing over an
open call. `ExecutionLedger!ImplementsLifecycle` is the refinement: the outcome
of a run is read *from the log by generation*, as `getExecutionTerminalReason`
does, not from the row of the current execution.

**ReasoningRuns** extends the ledger with the processes of the two commands. A
stretch of code without an await is one step; where such a stretch has several
transactions (admission, cancellation) it is a `turn`, in which only a crash or a
write that throws can come between. `Stages` and `NextStages` describe the
orchestrator: which phases run in parallel and what may follow; `MCFusion` and
`MCDeliberation` give them the two commands' shapes. A provider's answer is a
success or a failure. `dispatched`, `lost`, `confirmed` and `told` record what
happened outside the program and are read only by properties.

**SendDelivery** is the outbox against the admission of `/send`. The client is
`queue` (memory), `saved` (storage), `attempt` (the pass of `pump` in progress
and its step), `timer` and `active`. `late` holds requests whose attempt was
given up and that may still arrive; a request in flight may be handled, answered
and its answer lost. On the server, `receipts` is the table, `live` the map of
admissions in progress, `dispatching` what `onRetained` has or has not released.
Time is not measured: a timer may fire whenever it is set. The receipt's payload
comparison is modelled by the session of the request, which is all that differs
between two requests of one command.

**EventDelivery** is one client, one server connection and one session. `link` is
the registry's record, `stream` the messages on the way, `posts` the control
requests (a chain: one at a time), the single acknowledgements and the snapshot
acknowledgements; `acks` is the batcher; `view` the store with its transcript
reads in progress. Sequence numbers are those of the session, so that an event's
predecessor is the number before it. `Drain` is written once and used by each
handler that calls it, with the store refusing an event as the alternative. A
transcript read is two steps, the server's answer (`ReadAnswered`) and its
installation, between which anything may arrive. The merge of a transcript with
events that streamed meanwhile is modelled by its result on events.

The event stream, the transcript reads, the acknowledgements and the control
requests travel on connections of their own (the server speaks HTTP/1.1,
`server/index.ts` 39-40 and 400-402), so the model lets each overtake the others;
only the stream and the chain of control requests keep their order. A transcript
that is newer than an offer may thus be installed before the offer arrives. The
client then takes events above the offer for duplicates and acknowledges them
(`applied-delivery.ts:212`), and confirming the offer takes its cursor back before
them. `overtaken` is history: the cursor the client had when that happened. The
events of the model are the pieces of a message that is streaming, which a bounded
restore rebuilds from its transcript (`store.ts` 1095-1108); complete messages are
kept by the merge and recognised when they are delivered again
(`slices/messages.ts` 745-755).

**WarmPool** is the pool's ledger with the controller process and the gateway.
`settings`, `records`, `busy` and `rows` are durable; `op` is the operation the
process runs, a step (`pc`) per stretch between awaits; `sandbox` is what the
gateway holds and `flight` the calls that may still take effect there, after
their caller timed out or died. `Work` has one action per write of the ledger or
call: a record is written before its sandbox is asked for, that creation was
sent before it is sent, its receipt before readiness is awaited, and ownership
before an account is attached. `Fail` is the error path of every await;
`Restart` is `recoverInterrupted` under the host lock. Whether a spare is too
old is left open, as is the order in which an operator and the timer come.

**SessionPrompts** is the store of timers and deliveries (`store`), the removal
rows (`removal`, `closed`), the command owner's receipts (`receipts`) and what the
scheduler keeps in memory: the sweep per recipient, the dispatch under way, the
page cursor, the removals in preparation. Transactions are functions on the
tables (`Finished`, `Reserved`, `Withdrawn`), so that a sweep that reconciles,
schedules and reads its page is one step, as it is in the code. A dispatch has an
await before each of `Inspected`, `Prepared`, `Admit`, and asks again after each
whether it is still current. Of a timer's revision only the comparison with the
one a delivery was reserved under is kept (`moved`). `Finished` settles several
deliveries at once where the code goes through them one by one: a timer has one
delivery outstanding, so that none of them sees what another did.

**SessionLifetime** is one stored conversation and everyone who may drive it.
`sessions` is the registry's map in order of registration, `marks` its sets of
keys and its pending timers, `closeTimers` the time-outs of closes by the user,
which no one holds; `run` the executions of `startChat` with their phase, owner,
controller and the session their loop owns; `state` the stored state. A key is
the connection and the conversation, so that runs of one connection share it:
this is what the properties are about. `Forget`, `Detached`, `Reattached`,
`Suspended` and `Abort` are the registry's methods; every handler is one action
that includes the registry calls it makes. The outbox sends one prompt of a
queue at a time (`Waiting`).

**Extrema** has what the proofs need of `Min` and `Max`. **MC...** modules give
the constants small values.

## Runs and bounds

| Run | Checks | Bounds, and why they are enough |
| --- | --- | --- |
| `execution_ledger` | `TypeOK`, `NoOrphanedAttempt`, `OneExecutionPerMessage`, `LogRebuildsTables`, `OutcomeIsFinal`, `ImplementsLifecycle` | one session (sessions share nothing but the recovery loop), two executions and generations so that one is superseded, two attempts to be parallel, one message with two fingerprints, six log events, one crash |
| `fusion` | `ReasoningTypeOK`, `CompletionAgreed`, `StopFences`, `RunsSettle`, `RecoveryCompletes` | one command with a parallel panel of two, judge and synthesis, a stop, a retry with another fingerprint, one failing write, two crashes so that one hits recovery |
| `deliberation` | `DispatchedAtMostOnce`, `UncertainWorkConfirmed`, `StopReachesLiveRun` | two successive commands with two messages, so that the end of an old run meets a new one; one crash, one failing write |
| `send_order` | `DeliveryTypeOK`, `DispatchedOnce`, `AcceptanceHolds`, `DispatchedInOrder`, `InterruptionsSurface`, `ReviewedRetained` | two prompts of one draft, the first provider-bound, the second a reviewed command; storage may refuse any write; one disruption (stop, lost login, reload), one crash |
| `send_liveness` | `PromptsSettle`, `FollowUpsShareSession` | two ordinary prompts, one disruption, one crash; requests may be lost without bound |
| `send_lost_login` | `RejectedNotDispatched` (violated) | the same with no crash |
| `event_delivery` | `EventTypeOK`, `RenderedInOrder`, `CursorIsShown`, `NothingGivenUp`, `CatchesUp` | two events in batches of one, so that a new event waits behind a full batch that is sent again; one opening of the conversation, one disruption (it may lose the link, or return to the foreground and read the transcript again), a buffer of one event so that it overflows. Opening again and a second return while a replay runs are left to `event_reassert`, the proofs and the larger instances below |
| `event_reassert` | `ReassertedApplication` (violated) | batches of one, no disruption: nothing fails and nothing overtakes |
| `warm_pool` | `PoolTypeOK`, `SandboxesAccounted`, `AttachmentsOwned`, `CreatesWithinTarget`, `TargetReached` | two records, so that a sandbox is replaced while the first is uncertain, targets of one and two; two accounts, one of which is the wrong one; two recipes, so that a restart makes spares obsolete; one operator request, one crash |
| `session_prompts` | `PromptTypeOK`, `AdmittedWithinLimit`, `FailedNeverRan`, `RemovalSettles`, `Drained` | two sessions (sender and recipient, or two recipients), one timer that may run once, two deliveries and pages of one, so that a page can be filled by another recipient; two changes of a timer, one removal, one crash |
| `session_lifetime` | `SessionTypeOK`, `KeysOwned`, `LeavingEnds` | two connections to hand over between, two runs so that a key is reused, one suspension or close |
| `session_replaced` | `ReplacementUntouched` (violated) | one connection, two runs, no suspension or close |

Every bound is a constant named `Max...` (or `Batch`, `BufferCap`, `PageSize`) and
guards the one action it limits. What a larger bound would add is repetition:
each mechanism (supersession, overflow, boundary, offer, retry, retirement,
reconciliation, reuse of a key) occurs within these. A suspension *and* a close
of one run are beyond the bound of `session_lifetime`. Larger instances of
`event_delivery` take longer than a run may and were checked once, without error:
all its properties with three events in batches of two (771,159 states), and its
invariants with two disruptions (1,186,823) and with two openings (2,204,737). In `execution_ledger` and
`deliberation` ids are symmetric; runs with liveness properties declare no
symmetry. Runs say `CHECK_DEADLOCK FALSE` because the bounds, and users who do
nothing more, let the system stop.

What the properties say, and why they could be wrong:

- `OneExecutionPerMessage`, `OutcomeIsFinal`: retries and stale tokens of
  superseded generations read the same tables as the current one.
- `LogRebuildsTables`: the admissions of outcomes read the log, the guards read
  the tables; every transaction must keep both.
- `CompletionAgreed`: what a caller is told, what a retry reads later and the
  durable record agree on success, under stop, crash and failing writes.
- `UncertainWorkConfirmed`: whatever happened to the calls of an execution, a new
  one starts after unknown provider work only with confirmation.
- `StopReachesLiveRun`: a run that can still call a provider is the one a stop
  finds, also when an older run of the session ends late.
- `AcceptanceHolds`, `InterruptionsSurface`: an acceptance the client showed is
  backed by what the server has, or its failure is surfaced after a restart.
- `DispatchedInOrder`: through back-off, stop, lost login and reload.
- `FollowUpsShareSession`: prompts composed before the session of the draft is known
  go to the conversation its first prompt opened. The first prompt must have been
  accepted and nothing else: had it failed as well (accepted, forgotten by a reload
  that came before the hand-off was stored, refused when it was sent again because
  its dispatch had failed by then), the next prompt opens a conversation and later
  ones may be addressed to either.
- `ReviewedRetained`: at every moment a reviewed command the server may have is
  in storage or was answered.
- `CursorIsShown`: the cursor the client would advertise matches the screen, also
  when a restored transcript is newer or older than the offer it confirms.
- `NothingGivenUp`: whatever the server's cursor covers is applied by the client,
  or in the transcript of an offer the client has acknowledged and waits to have
  confirmed. `Applied` counts what was applied before an overtaken offer took the
  client's cursor back; that this is the only way for the cursor to fall behind the
  server's is what the property says. With the cursor alone it is violated.
- `CatchesUp`: an open conversation ends up with every event on screen, unless the
  client reports an error or is stuck in one of two ways: `GivenUp` (an overtaken
  offer took the cursor behind the server's, which does not send those events again)
  and `Unacknowledged` (the server re-sends what the client does not acknowledge
  again, and newer events wait behind that batch; see `event_reassert`). Both last
  until the next event or reconnect at most, both are reached within the bounds, and
  without either exception the property is violated.
- `SandboxesAccounted`, `AttachmentsOwned`: a create, a delete or an attachment
  lands long after the operation that sent it has failed and its record was
  rechecked, recovered or retired.
- `CreatesWithinTarget`: counts what exists or may yet exist, not what the ledger
  believes. `TargetReached`: no failed call or crash leaves the ledger reserved.
- `AdmittedWithinLimit`, `FailedNeverRan`: runs are counted when a delivery is
  finished, which may be after a crash, a pause, a resume and a run by hand.
- `RemovalSettles`: a dispatch that has passed its last check is still on its way
  when the removal of its session begins.
- `Drained`: a recipient that is found busy for ever must not use up the page.
- `KeysOwned`: what is left of a run is gone from every set and map before the
  next run under its key is registered. `LeavingEnds`: over suspension, return,
  close-out and reuse, nobody's session stays behind for ever.

## Fairness

- Ledger: the recovery loop goes on (`Recover`); it runs synchronously in the
  `server.listen` callback (`server/index.ts` 1449-1463). Crashes are bounded, so a
  restarted process eventually completes it.
- Reasoning: continuations run, a `turn` ends, provider calls answer or fail. The
  providers are called with time-outs of their own, which justifies the last.
  Users' commands and stops are not fair. `RunsSettle` excuses executions only
  after a failed write, which the code leaves to the next restart by design.
- Sending: timers fire and promises settle; a dispatch ends. Strong fairness of
  handling, answering and hand-off says that a request repeated for ever is not
  lost every time. `PromptsSettle` speaks of an active outbox; whether someone
  starts it again is the user's affair.
- Events: each party continues (weak fairness of the welcome, of control requests,
  stream, transcript reads and acknowledgements), the periodic retry runs, and
  the gap timer fires although traffic comes and goes (strong fairness: a real
  timer, once armed, is not reset by traffic it does not concern). Time-outs fire
  freely when nothing is under way and otherwise spend the budget of disruptions:
  they are 15 and 30 seconds long. `view.error` stands for a failure the user is
  shown.
- Pool: an operation goes on or fails (its awaits are bounded by a signal or the
  command line's time-out), the service manager restarts the process, the
  reconcile timer comes. The gateway is not fair: a call may be on its way for ever.
- Prompts: sweeps and dispatches go on; the command owner is not fair, a prompt it
  took may stay open.
- Sessions: of the timers pending under a key one fires in the end. Nothing else is
  fair, neither the provider nor the users nor the loops.

## Proofs

The modules named `...Proofs` prove, for any sets of sessions, ids, messages,
reasons, stages, phases, drafts, conversations, accounts, services, recipes, sizes,
requests, timers, limits, connections, batches and buffers and any bounds (from the
assumptions at the head of `ExecutionLedger`, `ReasoningRuns`, `SendDelivery`,
`EventDelivery`, `WarmPool`, `SessionPrompts` and `SessionLifetime`):

| Theorem | States |
| --- | --- |
| `ExecutionLedgerProofs!Invariance` | `Spec => []IInv` |
| `TypeCorrectness` | `Spec => []TypeOK` |
| `AttemptsNeverOrphaned` | a running attempt belongs to the session's current, live execution |
| `MessagesStartOneExecution` | all answers for one message name one execution and one fingerprint |
| `OutcomesAreFinal` | the outcome read from the log never changes once set |
| `LogIsComplete` | the event log alone rebuilds the tables |
| `LedgerImplementsLifecycle` | `Spec => ImplementsLifecycle`, the refinement |
| `ReasoningRunsProofs!ReasoningInvariance` | `ReasoningSpec => []RInv` |
| `ReasoningTypes` | `ReasoningSpec => []ReasoningTypeOK` |
| `CallsDispatchedAtMostOnce` | a provider phase of an admitted run is sent at most once |
| `LostWorkConfirmed` | work of unknown outcome is run again only after the user confirmed it |
| `StopsReachLiveRuns` | a stop that was asked for finds the run while it lives |
| `CallersAgreeOnCompletion` | everybody told that a run completed was told the same |
| `StopsFence` | after a stop no further provider call of the run is sent |
| `SendDeliveryProofs!DeliveryInvariance` | `DeliverySpec => []DInv` |
| `DeliveryTypes` | `DeliverySpec => []DeliveryTypeOK` |
| `DispatchOnce` | a command is dispatched at most once |
| `AcceptancesHold` | an acceptance that was shown has a receipt with its session, and a dispatch |
| `OrderKept` | prompts that were accepted and nothing else were dispatched in order |
| `InterruptionsSurfaced` | once the server serves, no interrupted command counts as delivered |
| `ReviewedKept` | a reviewed command the server may have is answered or in storage |
| `ConversationsShared` | the prompts of a draft are in the conversation its first one opened |
| `EventDeliveryProofs!EventInvariance` | `EventSpec => []EInv` |
| `EventTypes` | `EventSpec => []EventTypeOK`; the buffer stays within its capacity |
| `ScreenInOrder` | the screen shows a gapless prefix of the session, each event once |
| `CursorsShown` | the cursor a settled client would advertise is what its screen shows |
| `NothingIsGivenUp` | the server's cursor covers only what the client has applied since it connected, or has acknowledged to restore; only an overtaken offer takes the client's cursor behind it |
| `WarmPoolProofs!Invariance` | `PoolSpec => []IInv` |
| `PoolTypes` | `PoolSpec => [](PoolTypeOK /\ AtHand)`: types, and what an operation relies on after an await still holds |
| `NoSandboxLeaked` | whatever exists or may yet exist at the gateway is on a record not let go |
| `CredentialsOwned` | attached providers belong to the account of the record's one conversation |
| `CreatesBounded` | a create is sent only while fewer spares than the target exist or may come to |
| `SessionPromptsProofs!Invariance` | `PromptSpec => []IInv` |
| `PromptTypes` | `PromptSpec => []PromptTypeOK` |
| `LimitsHold` | a timer never obtains more admissions than its run limit |
| `ReportedFailedNeverRan` | a delivery reported failed or cancelled was never admitted |
| `RemovalsSettle` | a session whose removal is prepared has no delivery outstanding |
| `SessionLifetimeProofs!LifetimeInvariance` | `LifetimeSpec => []LInv` |
| `LifetimeTypes` | `LifetimeSpec => []SessionTypeOK` |
| `KeysStayOwned` | marks, timers and a live controller under a key are those of its one entry |

**The ledger.** None of the properties is inductive. `NoOrphanedAttempt` needs that
rows are named by their key (`RowsNamed`: otherwise ending one attempt could
disturb another) and `AttemptsNumbered`, which bounds the attempt numbers by the
length of the log; that bound is also why the `MAX(attempt_number) + 1` of a new
attempt exists, since a maximum over an unbounded set need not.
`OneExecutionPerMessage` needs `RepliesAdmitted`: every answer is still in the
admissions table. `OutcomeIsFinal` needs `LogNotAhead`: no event of the log carries
a generation beyond the session's, and once the log holds the end of the current
generation the row is terminal. `Tables`
is their conjunction and `IInv` adds the state of the process. Each transaction
has a lemma that it keeps `Tables`; `CallsKeepIInv` and `RecoveryKeepsIInv` combine
them for callers and for crash and recovery; the temporal theorems follow by PTL.
`OutcomesAreFinal` shows that a new event changes the outcome of an execution
only if it is the live one, whose outcome is not set.

**The log and the lifecycle.** `LogRebuildsTables` is inductive once `IInv` is known: an
execution event becomes the session's last one, and an attempt's event takes the
place of the attempt's earlier ones (`AttemptEventReplaces`), which is what the
transaction does to the attempt's row. The refinement needs more: that the log is
not ahead of the tables does not say that it is complete. `Chronicled` says that
every generation up to the current one is in the log under one execution id, and
each but a live current one with its end and a reason; `CallsNamed` that an attempt
id stands for one attempt. Then the outcome of a run is read through one token
before and after a step (`RunKept`), `NULL` exactly for the live run (`RunOutcome`).
`beginExecution` is `Start`, an attempt's two transactions are `Open` and `Close`,
a transition to TERMINAL is `Finish` (the last open call is closed because a running
attempt belongs to the current execution, `NoOrphanedAttempt`), everything else
stutters.

**The runs.** `RInv` puts the bookkeeping of the process beside the ledger's `IInv`.
`Base` types it and gives every run of the map an execution in the tables;
`ExecutionsNumbered`, `AttemptsNamed` and `RunsNamed` say that an execution, an attempt
and a run are found under one name. `TurnCurrent` and `Registered` say that a run that
holds its turn is the map's, with the current live execution of its session, and
`StopMarked` that an aborted run is one whose stop was asked for. With
`DispatchesRecorded` (what was sent is an attempt in the tables, of the phase that was
sent) these bound the dispatches: an attempt is opened before a call is sent, and
one phase has one attempt per execution. `InFlightKept`, `LostMarked` and
`AmbiguityConfirmed` follow a call whose answer is lost: as long as nobody recorded its
end it counts as uncertain, also through a crash, and an execution after it was
begun with the confirmation. `TellingsHold` compares what each caller was told with
the tables. The ledger's operations enter through what they may do to them
(`ExecutionsKept`, `AdmissionsGrow`, `IdsKept`, `OpenKept`, `NoNewDoubt`, `NoOutcome`, `VerdictsKept`,
`FencesKept`), so that an action of a run is one ledger operation and one small change of
the run (`RunsNarrowed`, `ProgressKept`). `StopFences` is the action property
from `FencesKept`: no step takes a stop back from a run that was dispatched.

**The outbox.** `DInv` relates five places that know of a message: the queue, its
stored copy, the requests (in the attempt, late, or turned into a row: `Asked`), the
rows with the dispatches, and what the user was shown. `Queues`: both copies list
composed messages in order, and only a reviewed head is marked. `MarksKept`: a
mark is in the storage too, and a reviewed command that was tried is marked until an
answer was shown, which is `ReviewedRetained`. `RowsDispatched`: a row stands for one
dispatch. `Acceptances`: what was shown, and the answer about to be shown, is
`Backed`, by a row whose session no later step takes away. For the order, a
message is `Passed` when it was accepted, when the user was told something else
(`Spoilt`), or when it was forgotten unanswered (`Lost`, by a reload without storage);
all three are for ever, and `InTurn` says that a message is tried only when all
before it are passed. Hence a new dispatch overtook only what was spoilt or lost
(`Overtaken`), although a late request for it may still arrive. `DraftShared` follows
the session of a draft through the queue, the storage and the requests: a later
entry is addressed to the conversation of the first or still waits behind it. Most
steps are `Quiet`, that is, the queue says what it said; `QuietKeeps` covers them, and
the five that add or remove entries have lemmas of their own. On the server one row
changes (`RowStepKeeps`) or one is added (`AdmissionKeeps`).

**The events.** Screen, cursor and transcript agree only because of what may still
change them, so `EInv` relates all of it. `TranscriptSays`: of the events beyond the
point a transcript reaches, those noted since the read began are exactly those up to the
cursor, so that its installation continues the screen (`InstalledIs`, `PrefixGrows`).
`OfferSays`: under an acknowledged offer the screen shows what was restored, the offer
or, if it is more, the transcript installed meanwhile, which is what confirming the
offer then takes for covered; `ScreenSays` is the same without an offer, and implies
`CursorIsShown`. None of this assumes that requests arrive in order. `OfferAhead` says
that an offer on its way has a newer id than every offer or acknowledgement the client
knows of, and that while one is on its way the server's cursor is within `Applied`,
the larger of the client's cursor and the one it had when an older offer came
(`overtaken`). With `SnapshotsSay` (an acknowledgement that the server
would still accept is of the offer the client waits for) it gives `Kept`, which is
`NothingGivenUp`. `CountOK` counts the offers, so that their ids exist. The parts of
`EInv` are operators of the values they relate, not of the variables: a handler commits
a transcript and then drains the buffer, and `DrainKeeps` and `CommitKeeps` are about
clients between the two that no state holds. On the server one lemma (`ServerKeeps`)
covers every handler that changes the record and sends durable events, one
(`DropKeeps`) every way to lose the connection.

**The pool.** What is at the gateway and what the ledger says of it are related by
`World`: `AccountedFor` (a sandbox or a create under way has a record that says
creation was sent, is not let go, and says so again once its receipt is known),
`Owned` (an attachment is within the account of the record's conversation) and
`AssignedStates` (only records with a conversation are claiming or claimed).
`AtHand` says, per step of the running operation, what it may rely on after its
await: that its record is still as it left it, that no create is under way for a
record about to be removed, which providers it may still attach. `Room` says that
a create about to be sent has a slot. `IInv` is the conjunction with the types.
The proof goes in two halves: steps of the ledger while the gateway rests, and
steps of the gateway while the ledger rests. `Careful` is all that the first may
do to the records and `Honest` all that the second may do to sandboxes and
calls; each is shown to keep `World`, and every action to be one or the other.
`CreatesBounded` is the action property from `Room`.

**The prompts.** A transaction of the store is a function on its tables, so the
part of `IInv` about them, `Sound`, speaks of any tables, receipts, closed sessions
and removals, and a sweep that reconciles, schedules and reads its page is proved
by two lemmas on functions. `Held` says that a timer names its one outstanding
delivery: without it `finish()` would count a run twice. `Counted` and `Limited` say
that accepted runs are counted and that a live timer, or one with an outstanding
delivery, has a run left; with `Held` they bound the admissions, which may be one
ahead of the count. `Evident` relates receipts to rows: an admission leaves its
delivery dispatching, uncertain or accepted, which is `FailedNeverRan`. `Quiet` (a
closed session has no pending delivery and no live timer) and `Resolved` are what
a removal needs. `Queued` and `InHand` say that what the sweep has still to take up
and what is being dispatched is nobody else's: hence a claimed delivery is still
claimed after the await, and `PrepareEnds` settles only what no dispatch holds.
`Rewritten` covers every transaction that changes rows, `Grown` every one that
adds some, and `Released` every step that takes nothing up.

**The registry.** `KeysOwned` is not inductive: an entry may be a run whose loop follows
another entry, and then its end would leave its own entry, with an ended controller,
behind. `LInv` says of every entry that it is `Standing`: it has begun and is not
over, it is not aborted before it unwinds, and its loop owns it and no other. The
last holds because a loop takes what is registered under its key, and a key has one
entry (`EntriesUnique`); so `Unwind` either finds its entry or the run has none. Keys
belong to connections (`Keyed`), and every mark and timer to an entry (`MarksOwned`).
`DeletedSays` and `RegisteredSays` say what the map's `delete` and `set` leave; `ForgetKeeps`
covers the steps that take an entry away, `MarkingKeeps` those that mark one (all
marks of a handler are `MarksOf` one key), `RunKeeps` those of a loop. That a
*replacement* is removed by the old loop (finding 3) contradicts none of this: the
entry goes with all its marks.

Only model-checked: all liveness (`RunsSettle`, `RecoveryCompletes`, `PromptsSettle`,
`CatchesUp`, `TargetReached`, `Drained`, `LeavingEnds`), since fairness and ENABLED are
beyond the prover. Every safety property that a passing run checks is also proved. What
`Ascending`, `Reach` and the other CHOOSE definitions yield is proved for the sets the
invariant allows (runs of consecutive events), not for all sets, which would take an
induction. The inductive invariants were model-checked before they were proved; that
of the events holds in the 823,609 states with three events, one opening and one
disruption (batches of two, a buffer of two) and in the 2,271,494 states with two events,
two openings and one disruption (a buffer of one).

## Disagreements found

Each is a run that TLC ends with the violation.

1. `send_lost_login`, property `RejectedNotDispatched` (`send-outbox.ts:376`). `rejectAll` treats only the request in
   flight as uncertain. A prompt in back-off after a lost answer is reported as
   failed with the advice to retry, although `docs/design/prompt-delivery.md:42-43`
   calls it ambiguous and the server may have executed it; composing it again
   uses a new command id.
2. `event_reassert` (`applied-event-acks.ts:57`). A watched conversation is opened
   again. Events that arrive between the answer of its transcript read and its
   installation are applied and their acknowledgement is sent; the switch that
   follows, once handled, takes the server's cursor back to the transcript. The server then sends those events
   again; the client means to acknowledge them again (`applied-delivery.ts:213-214`)
   but the batcher drops what it queued before, so they are re-sent for ever, and
   if they are a full batch newer events wait behind its boundary until the
   connection is replaced. Nothing is lost or reordered.
3. `session_replaced` (`query-loop.ts:1954`). A stop removes the registry entry at
   once, while the stopped loop is still unwinding. A prompt sent meanwhile on the
   same connection registers a new run under the same key; the old loop, aborted
   and without a current owner, removes *that*. The new loop leaves its iteration
   at the next event of its provider. `query-loop.ts:290-291` and `chat.ts:3260-3262`
   say a loop follows its own session and never a replacement that reuses an id.

Further divergences were met while modelling and are not runs:

- `docs/design/session-delivery-lifetimes.md:43-48` says that a selection cannot
  invalidate a pending offer, also before the offer arrives locally; a switch sent
  by `performPost` (`sse-connection.ts:961`) between the replay request and the
  arrival of its offer still carries its cursor and cancels the offer on the
  server. The refused acknowledgement costs a reconnect.
- `docs/diagnostics/codex-startup-replay-2026-10-26.md:88` says that the recovery of a
  receipt does not acknowledge missing events. While an offer is pending that a newer
  transcript overtook, `applied-delivery.ts:212` acknowledges events that the restore
  of that offer then takes from the screen: the server does not send them again until
  the next event shows the gap or the client reconnects (`GivenUp`).
- A run whose stream closes (or that is unwatched) while it prepares is registered
  as attached to a closed connection, and nothing detaches it, although the
  comment at `ws-handler-v2.ts:1267-1270` relies on the watch to find it. For this
  reason `LeavingEnds` speaks of sessions that *were* left, not of these.
- A reconnect while the stored state is CLOSING or ENDED removes a live registry
  entry without aborting it (`ws-handler-v2.ts:359-369`); `remove()` is documented
  for queries that finished naturally.
- Two connections can start two runs of one conversation at once: only start-ups
  under the same key exclude each other.
- A run that ends before its first event never writes ENDED (`query-loop.ts:1971`
  asks for a resolved session), and a conversation left in CREATED by a crash is
  not recovered.
- The time-out of a close by the user is not tied to that close: it may end a
  session that was taken up again and closed anew under the same key.
- A delete that lands late is not fenced against a record's later life; in the pool
  no record is used again after it was sent, so nothing depends on it.

## What is not modelled

Within the modelled parts:

- Ledger: `REQUIRES_ACTION` and its client states are phases like the code's, but
  what the user is asked is not. Timestamps are left out.
- Reasoning: the content of prompts and answers, costs and budgets (the budget only
  decides which stage may follow), the events shown while a run goes on.
- Sending: the local first-command mode, receipts read back (`receiptReads`), the
  Symposium exclusion, and the replay of a /fuse or /deliberate receipt, whose
  admission is ReasoningRuns. Two tabs of one browser share storage in reality;
  here there is one.
- Events: several connections and sessions; unwatching and the retirement of
  sessions; clients and servers without acknowledgements; a transport whose `send`
  throws in the middle of a batch; the limit of 500 unacknowledged events; loss of
  the login. A session the user leaves stays tracked in the background, as it does
  while its delivery is pending. Sessions are taken to be active.
- Pool: failing writes of its own database (such as that of a request's row,
  `openshell-warm-pool.ts:343`), and a signal that has expired before the operation
  had its first await; ages (a spare may be too old at any time), the comparison of request bodies
  (a key admitted once is refused afterwards), the legacy runtime authority,
  connection accounts and hosts that are not enrolled, and what a conversation does
  with its sandbox after the claim.
- Prompts: idempotent request identifiers, the cap of 200 timers, the batches of
  four recipients (all recipients proceed), intervals (`later` becomes `due` at any
  time), the turns of group participants. A revoked login is one of the failures of
  `Refused` and `Rejected`. A recipient may answer busy at any time and does so while
  it has an open prompt. `close()` with its drain is a crash. Reservations are read
  in the order they were made: `INSERT OR REPLACE` of a pending row keeps its place.
- Sessions: observers and the legacy socket (`detach()` ignores observers),
  conversations that have no id yet, contributor runs, publication owners, the
  buffer of suspended clients, interrupts, restart of the server, `rekey` (no caller),
  and the mark `closingOut`, which only decides the wording of an artifact. The
  revision that orders a transport's announcements is left out: they may arrive late.

The tool guard and the permission handler share a clock between nested guards and
need a timed model of their own. The session service is constructed only by its
tests. The remaining parts of the repository and the reason for each are in
`PROJECT.json` under "components".

## Plan

Order of work: the parts whose failure loses work or money come first.

1. *Done:* ExecutionLedger with ExecutionLifecycle, ReasoningRuns, SendDelivery,
   EventDelivery, WarmPool, SessionPrompts and SessionLifetime, each with its proofs.
2. ToolGuard (settles once, budgets; timed), PermissionHandler (time-out against
   answers), LocalFirstCommand (pumpLocal, reconcile, retire) beside SendDelivery.
   SessionPrompts composes with the receipts of SendDelivery, PermissionHandler
   with ToolGuard.
3. Abstract specifications: an at-most-once executor that SendDelivery,
   SessionPrompts and ReasoningRuns implement, and a prefix-delivery channel that
   EventDelivery implements.
4. Proofs: the steps of those refinements; that the outcome of a run in ReasoningRuns
   is the one its callers were told also through ExecutionLifecycle.
