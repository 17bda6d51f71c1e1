--------------------------- MODULE SendDelivery ----------------------------
(***************************************************************************)
(* Delivery of prompts from the client's outbox                            *)
(* (packages/client/src/send-outbox.ts, the legacy {type: send} outbox) to *)
(* the server's durable receipts (server/send-command.ts, the /send route, *)
(* and the receipt rows of the EventStore).                                *)
(*                                                                         *)
(* The outbox sends only its head, one request at a time, and repeats the  *)
(* same command until it gets a receipt or a definitive refusal.  Requests *)
(* and answers may be lost or late; an abandoned request may reach the     *)
(* server long after the client gave up on it.  The client may be stopped, *)
(* reloaded or lose its login, and the server may crash, at any await.     *)
(*                                                                         *)
(* Time is not modelled: a retry timer may fire at any moment (which is    *)
(* also what wake() does to it) and a request may time out at any moment.  *)
(***************************************************************************)
EXTENDS Integers, Sequences, FiniteSets

CONSTANTS
    Msgs,          \* client message ids, numbered in the order they are composed
    Reviewed,      \* commands with a reviewed source: kept durably until a receipt
    ProviderBound, \* commands whose dispatch admits an execution in the ledger
    Scope,         \* the draft a message was composed in
    NULL,          \* no session yet (sessionId: null), or nothing
    MaxEntries,    \* capacity of the outbox (100 in the code)
    StorageFails,  \* whether writes of the client's storage may fail
    MaxDisruptions, \* bound: stops, lost logins and reloads of the client
    MaxCrashes     \* bound: crashes of the server

ASSUME MsgsAssumption == Msgs \subseteq Nat /\ NULL \notin Msgs
ASSUME ReviewedAssumption == Reviewed \subseteq Msgs /\ ProviderBound \subseteq Msgs
ASSUME ScopeAssumption == DOMAIN Scope = Msgs
ASSUME DeliveryBoundAssumption ==
    /\ MaxEntries \in Nat
    /\ StorageFails \in BOOLEAN
    /\ MaxDisruptions \in Nat /\ MaxCrashes \in Nat

VARIABLES
    client,       \* the outbox and its storage
    composed,     \* messages handed to enqueue()
    told,         \* per message, the outcomes the user was shown
    acceptedIn,   \* per message, the sessions named by the receipts shown
    disruptions,  \* stops, lost logins and reloads so far
    late,         \* requests the client abandoned that may still arrive
    receipts,     \* per message, its row of send_commands, or NULL
    dispatching,  \* commands with an admission in progress (pendingAsyncAcceptances)
    live,         \* commands dispatched by this server process
    dispatched,   \* the dispatches so far, in order
    server,       \* "up" or "recovering"
    crashes

shown == <<told, acceptedIn>>
clientVars == <<client, composed, shown, disruptions, late>>
serverVars == <<receipts, dispatching, live, dispatched, server, crashes>>
deliveryVars == <<clientVars, serverVars>>

-----------------------------------------------------------------------------
(* Types.  randomUUID() names a new session after its first message.       *)

Sessions == Msgs
Entry == [msg : Msgs, sid : Sessions \cup {NULL}, uncertain : BOOLEAN]
Request == [msg : Msgs, sid : Sessions \cup {NULL}]
Answer == [status : {"accepted", "refused", "unavailable"}, session : Sessions \cup {NULL}]

\* "prepare": before fetch; "sent": on its way; "held": the server admits it;
\* "lost": the server that held it is gone; "answered"; "handoff": the receipt
\* was shown and the entry is about to be dropped.
Steps == {"prepare", "sent", "held", "lost", "answered", "handoff"}
Attempt == [step : Steps, answer : Answer \cup {NULL}]
Client == [queue : Seq(Entry), saved : Seq(Entry), active : BOOLEAN, timer : BOOLEAN,
           attempt : Attempt \cup {NULL}]
Receipt == [sid : Sessions \cup {NULL}, session : Sessions \cup {NULL}, error : BOOLEAN,
            preparing : BOOLEAN, prompted : BOOLEAN, admitted : BOOLEAN]

\* "Nothing" is no value of any type.
ASSUME AbsentAssumption == NULL \notin Answer /\ NULL \notin Attempt /\ NULL \notin Receipt

DeliveryTypeOK ==
    /\ client \in Client
    /\ composed \subseteq Msgs
    /\ told \in [Msgs -> SUBSET {"accepted", "failed", "uncertain", "rejected"}]
    /\ acceptedIn \in [Msgs -> SUBSET (Sessions \cup {NULL})]
    /\ disruptions \in 0..MaxDisruptions
    /\ late \subseteq Request
    /\ receipts \in [Msgs -> Receipt \cup {NULL}]
    /\ dispatching \subseteq live /\ live \subseteq Msgs
    /\ dispatched \in Seq(Msgs)
    /\ server \in {"up", "recovering"}
    /\ crashes \in 0..MaxCrashes
    /\ client.attempt # NULL => client.queue # <<>>

-----------------------------------------------------------------------------
(* The outbox.  Each operator gives the set of clients a call may leave:   *)
(* storage is best effort.                                                 *)

Head1 == Head(client.queue)
Fetching == client.attempt # NULL /\ client.attempt.step \in {"sent", "held", "lost", "answered"}

Persist(c) == {[c EXCEPT !.saved = c.queue]} \cup (IF StorageFails THEN {c} ELSE {})

\* Fault: a failed attempt lets the next entry go first.
BackoffRotating(c) ==
    [c EXCEPT !.attempt = NULL, !.timer = c.active, !.queue = Append(Tail(@), Head(@))]

\* The catch block: the same entry is tried again later.
Backoff(c) == [c EXCEPT !.attempt = NULL, !.timer = c.active]

\* pump() up to its first await.  A reviewed command is first retained as
\* possibly accepted; if it cannot be, it is not sent.
Pump(c) ==
    IF ~c.active \/ c.attempt # NULL \/ c.timer \/ c.queue = <<>> THEN {c}
    ELSE LET trying == [c EXCEPT !.attempt = [step |-> "prepare", answer |-> NULL]]
             marked == [trying EXCEPT !.queue[1].uncertain = TRUE]
         IN IF c.queue[1].msg \in Reviewed /\ ~c.queue[1].uncertain
            THEN {[marked EXCEPT !.saved = marked.queue]}
                     \cup (IF StorageFails THEN {Backoff(trying)} ELSE {})
            ELSE {trying}

\* Fault: a finished attempt does not release the next entry.
PersistOnly(c) == Persist(c)

\* The end of an attempt: persist, then pump.
PersistAndPump(c) == UNION {Pump(d) : d \in Persist(c)}

\* Fault: the follow-ups keep waiting for a session of their own.
InheritNone(rest, entry, session) == rest

\* Follow-ups of the same draft inherit the session of an accepted first message.
Inherit(rest, entry, session) ==
    [i \in DOMAIN rest |->
        IF entry.sid = NULL /\ session # NULL /\ rest[i].sid = NULL
           /\ Scope[rest[i].msg] = Scope[entry.msg] /\ rest[i].msg \notin Reviewed
        THEN [rest[i] EXCEPT !.sid = session] ELSE rest[i]]

\* A request whose attempt is given up may still be on its way.
Abandon ==
    late' = IF client.attempt # NULL /\ client.attempt.step = "sent"
            THEN late \cup {[msg |-> Head1.msg, sid |-> Head1.sid]}
            ELSE late

Show(m, outcome) == told' = [told EXCEPT ![m] = @ \cup {outcome}]

-----------------------------------------------------------------------------
(* Client handlers.                                                        *)

\* The session a new message of m's draft is addressed to: one already shown.
Addressed(m) ==
    LET known == (UNION {acceptedIn[n] : n \in {x \in composed : Scope[x] = Scope[m]}}) \ {NULL}
    IN IF known = {} \/ m \in Reviewed THEN {NULL} ELSE known

Enqueue(m) ==
    /\ m \notin composed
    /\ \A n \in Msgs : n < m => n \in composed
    /\ Len(client.queue) < MaxEntries
    /\ \E sid \in Addressed(m) :
         LET entry == [msg |-> m, sid |-> sid, uncertain |-> FALSE]
             added == [client EXCEPT !.queue = Append(@, entry)]
         IN \E c \in Persist(added) :
              /\ m \in Reviewed => c.saved = c.queue
              /\ client' \in Pump(c)
    /\ composed' = composed \cup {m}
    /\ UNCHANGED <<shown, disruptions, late, serverVars>>

Start ==
    /\ ~client.active
    /\ client' \in Pump([client EXCEPT !.active = TRUE])
    /\ UNCHANGED <<composed, shown, disruptions, late, serverVars>>

Disrupt == disruptions < MaxDisruptions /\ disruptions' = disruptions + 1

\* A request in flight may still be answered.
Stop ==
    /\ Disrupt
    /\ client.active
    /\ client' = [client EXCEPT !.active = FALSE, !.timer = FALSE]
    /\ UNCHANGED <<composed, shown, late, serverVars>>

TimerFires ==
    /\ client.timer
    /\ client' \in Pump([client EXCEPT !.timer = FALSE])
    /\ UNCHANGED <<composed, shown, disruptions, late, serverVars>>

\* Fault: a reviewed command that waits for its next attempt is given up.
RetainedInFlight(queue, inFlight) ==
    IF inFlight /\ queue[1].msg \in Reviewed
    THEN <<[queue[1] EXCEPT !.uncertain = TRUE]>> ELSE <<>>

\* What a lost login leaves in the queue: reviewed commands already tried.
Retained(queue, inFlight) ==
    LET Kept(i) == /\ queue[i].msg \in Reviewed
                   /\ queue[i].uncertain \/ (inFlight /\ i = 1)
        kept == {i \in DOMAIN queue : Kept(i)}
    IN [k \in 1..Cardinality(kept) |->
           [queue[CHOOSE i \in kept : Cardinality({j \in kept : j <= i}) = k]
               EXCEPT !.uncertain = TRUE]]

\* rejectAll: the login is gone; the entry in flight is uncertain, all others
\* are reported as failed ("rejected" here, to tell it from a server's refusal).
RejectAll ==
    LET q == client.queue
        inFlight == client.attempt # NULL
        Ambiguous(i) == q[i].uncertain \/ (inFlight /\ i = 1)
    IN /\ q # <<>>
       /\ Disrupt
       /\ client' \in Persist([client EXCEPT !.queue = Retained(q, inFlight),
                                 !.active = FALSE, !.timer = FALSE, !.attempt = NULL])
       /\ told' = [m \in Msgs |-> told[m] \cup
              {IF Ambiguous(i) THEN "uncertain" ELSE "rejected" :
                  i \in {j \in DOMAIN q : q[j].msg = m}}]
       /\ Abandon
       /\ UNCHANGED <<composed, acceptedIn, serverVars>>

\* A reload forgets everything but the storage.
Reload ==
    /\ Disrupt
    /\ client' = [queue |-> client.saved, saved |-> client.saved, active |-> FALSE,
                  timer |-> FALSE, attempt |-> NULL]
    /\ client' # client
    /\ Abandon
    /\ UNCHANGED <<composed, shown, serverVars>>

\* The storage is flushed; unless stopped meanwhile, the head is sent.
Fetch ==
    /\ client.attempt # NULL
    /\ client.attempt.step = "prepare"
    /\ client' = IF client.active THEN [client EXCEPT !.attempt.step = "sent"]
                 ELSE [client EXCEPT !.attempt = NULL]
    /\ UNCHANGED <<composed, shown, disruptions, late, serverVars>>

\* Time-out, lost connection, 429 or 5xx, a malformed receipt, a failing flush,
\* or an observer of the receipt that throws.
AttemptFails ==
    /\ \/ Fetching
       \/ StorageFails /\ client.attempt # NULL
    /\ client' = Backoff(client)
    /\ Abandon
    /\ UNCHANGED <<composed, shown, disruptions, serverVars>>

\* A definitive refusal drops the entry and releases the next one.
Refused ==
    /\ client.attempt # NULL
    /\ client.attempt.step = "answered"
    /\ client.attempt.answer.status = "refused"
    /\ client' \in PersistAndPump([client EXCEPT !.queue = Tail(@), !.attempt = NULL])
    /\ Show(Head1.msg, "failed")
    /\ UNCHANGED <<composed, acceptedIn, disruptions, late, serverVars>>

\* The receipt is shown first, the entry dropped when the storage is flushed.
Accepted ==
    /\ client.attempt # NULL
    /\ client.attempt.step = "answered"
    /\ client.attempt.answer.status = "accepted"
    /\ client' = [client EXCEPT !.attempt.step = "handoff"]
    /\ Show(Head1.msg, "accepted")
    /\ acceptedIn' = [acceptedIn EXCEPT ![Head1.msg] = @ \cup {client.attempt.answer.session}]
    /\ UNCHANGED <<composed, disruptions, late, serverVars>>

HandOff ==
    /\ client.attempt # NULL
    /\ client.attempt.step = "handoff"
    /\ client' \in PersistAndPump(
           [client EXCEPT !.queue = Inherit(Tail(@), Head1, client.attempt.answer.session),
                          !.attempt = NULL])
    /\ UNCHANGED <<composed, shown, disruptions, late, serverVars>>

-----------------------------------------------------------------------------
(* The server: acceptSendCommandAsync behind POST /send.                   *)

Answered(status, session) == [status |-> status, session |-> session]

\* Fault: a failed receipt does not count, the command is dispatched again.
KnownUnlessFailed(m) == receipts[m] # NULL /\ (receipts[m].error => m \in dispatching)

\* A receipt exists: the command is never dispatched again.
Known(m) == receipts[m] # NULL

\* What a request is answered; NULL while the admission is in progress.
Reply(m, sid) ==
    LET refused == Answered("refused", NULL)
        accepted == Answered("accepted", receipts[m].session)
    IN IF ~Known(m) THEN NULL
       ELSE IF receipts[m].sid # sid THEN refused
       ELSE IF m \in dispatching THEN IF receipts[m].prompted THEN accepted ELSE NULL
       ELSE IF receipts[m].error THEN refused ELSE accepted

\* A new command: its row is inserted before it is dispatched.
Admission(m, sid) ==
    IF Known(m) THEN UNCHANGED <<receipts, dispatching, live, dispatched>>
    ELSE /\ receipts' = [receipts EXCEPT ![m] =
                [sid |-> sid, session |-> IF sid = NULL THEN m ELSE sid, error |-> FALSE,
                 preparing |-> TRUE, prompted |-> FALSE, admitted |-> FALSE]]
         /\ dispatching' = dispatching \cup {m}
         /\ live' = live \cup {m}
         /\ dispatched' = Append(dispatched, m)

ReceiveCurrent ==
    /\ server = "up"
    /\ client.attempt # NULL
    /\ client.attempt.step = "sent"
    /\ LET answer == Reply(Head1.msg, Head1.sid)
       IN client' = [client EXCEPT !.attempt =
              [step |-> IF answer = NULL THEN "held" ELSE "answered", answer |-> answer]]
    /\ Admission(Head1.msg, Head1.sid)
    /\ UNCHANGED <<composed, shown, disruptions, late, server, crashes>>

\* Nobody waits for the answer any more.
ReceiveLate(r) ==
    /\ server = "up"
    /\ r \in late
    /\ late' = late \ {r}
    /\ Admission(r.msg, r.sid)
    /\ UNCHANGED <<client, composed, shown, disruptions, server, crashes>>

\* Turned away before acceptance: validation, login or runtime binding (refused),
\* back-pressure or a fault of the server (unavailable).
TurnAway ==
    /\ client.attempt # NULL
    /\ client.attempt.step = "sent"
    /\ \E status \in {"refused", "unavailable"} :
          client' = [client EXCEPT !.attempt =
              [step |-> "answered", answer |-> Answered(status, NULL)]]
    /\ UNCHANGED <<composed, shown, disruptions, late, serverVars>>

\* Answers the request that waits for the admission of m, if the client still does.
Settle(m, answer) ==
    client' = IF client.attempt # NULL /\ client.attempt.step = "held" /\ Head1.msg = m
              THEN [client EXCEPT !.attempt = [step |-> "answered", answer |-> answer]]
              ELSE client

\* The exact user_message is durable: the receipt need not wait for the startup.
RetainPrompt(m) ==
    /\ m \in live
    /\ receipts[m].session # NULL
    /\ ~receipts[m].prompted
    /\ receipts' = [receipts EXCEPT ![m].prompted = TRUE]
    /\ Settle(m, Answered("accepted", receipts[m].session))
    /\ UNCHANGED <<composed, shown, disruptions, late, dispatching, live, dispatched,
                   server, crashes>>

\* The dispatch admits an execution bound to the command.
AdmitExecution(m) ==
    /\ m \in dispatching \cap ProviderBound
    /\ ~receipts[m].admitted
    /\ receipts' = [receipts EXCEPT ![m].admitted = TRUE]
    /\ UNCHANGED <<clientVars, dispatching, live, dispatched, server, crashes>>

EndDispatch(m) ==
    /\ m \in dispatching
    /\ dispatching' = dispatching \ {m}
    /\ UNCHANGED <<composed, shown, disruptions, late, live, dispatched, server, crashes>>

DispatchSucceeds(m) ==
    /\ EndDispatch(m)
    /\ ~receipts[m].error
    /\ receipts' = [receipts EXCEPT ![m].preparing = FALSE]
    /\ Settle(m, Answered("accepted", receipts[m].session))

\* Fault: the row keeps the session allocated for the command.
NativeKeepsSession(m) ==
    /\ EndDispatch(m)
    /\ ~receipts[m].prompted /\ ~receipts[m].admitted /\ ~receipts[m].error
    /\ receipts' = [receipts EXCEPT ![m].preparing = FALSE]
    /\ Settle(m, Answered("accepted", NULL))

\* A native command needs no conversation: its row loses the session.
DispatchNative(m) ==
    /\ EndDispatch(m)
    /\ ~receipts[m].prompted /\ ~receipts[m].admitted /\ ~receipts[m].error
    /\ receipts' = [receipts EXCEPT ![m].preparing = FALSE, ![m].session = NULL]
    /\ Settle(m, Answered("accepted", NULL))

\* The dispatch throws, or reported an error meanwhile.
DispatchFails(m) ==
    /\ EndDispatch(m)
    /\ receipts' = [receipts EXCEPT ![m].error = TRUE]
    /\ Settle(m, Answered("refused", NULL))

\* The dispatch's transport reports an error, possibly long after acceptance.
ReportError(m) ==
    /\ m \in live
    /\ ~receipts[m].error
    /\ receipts' = [receipts EXCEPT ![m].error = TRUE]
    /\ UNCHANGED <<clientVars, dispatching, live, dispatched, server, crashes>>

-----------------------------------------------------------------------------
(* Crash and recovery of the server.                                       *)

\* Fault: the table of admissions in progress outlives the process.
CrashKeepingAdmissions ==
    /\ crashes < MaxCrashes
    /\ crashes' = crashes + 1
    /\ server' = "recovering"
    /\ live' = {}
    /\ client' = IF client.attempt # NULL /\ client.attempt.step = "held"
                 THEN [client EXCEPT !.attempt.step = "lost"] ELSE client
    /\ UNCHANGED <<composed, shown, disruptions, late, receipts, dispatching, dispatched>>

CrashServer ==
    /\ crashes < MaxCrashes
    /\ crashes' = crashes + 1
    /\ server' = "recovering"
    /\ dispatching' = {}
    /\ live' = {}
    /\ client' = IF client.attempt # NULL /\ client.attempt.step = "held"
                 THEN [client EXCEPT !.attempt.step = "lost"] ELSE client
    /\ UNCHANGED <<composed, shown, disruptions, late, receipts, dispatched>>

\* Fault: a prompt that is durable counts as delivered although its startup was not
\* confirmed.
InterruptedWithoutPrompt(m) ==
    /\ receipts[m] # NULL
    /\ ~receipts[m].error /\ receipts[m].session # NULL /\ ~receipts[m].admitted
    /\ ~receipts[m].prompted

\* No evidence of delivery.  Admitted executions recover in the ledger.
Interrupted(m) ==
    /\ receipts[m] # NULL
    /\ ~receipts[m].error /\ receipts[m].session # NULL /\ ~receipts[m].admitted
    /\ receipts[m].preparing \/ ~receipts[m].prompted

\* recoverPendingSendCommands, row by row, before the server listens.
RecoverReceipt(m) ==
    /\ server = "recovering"
    /\ Interrupted(m)
    /\ receipts' = [receipts EXCEPT ![m].error = TRUE]
    /\ UNCHANGED <<clientVars, dispatching, live, dispatched, server, crashes>>

Serve ==
    /\ server = "recovering"
    /\ \A m \in Msgs : ~Interrupted(m)
    /\ server' = "up"
    /\ UNCHANGED <<clientVars, receipts, dispatching, live, dispatched, crashes>>

-----------------------------------------------------------------------------
(* The specification.                                                      *)

DeliveryInit ==
    /\ client = [queue |-> <<>>, saved |-> <<>>, active |-> FALSE, timer |-> FALSE,
                 attempt |-> NULL]
    /\ composed = {}
    /\ told = [m \in Msgs |-> {}]
    /\ acceptedIn = [m \in Msgs |-> {}]
    /\ disruptions = 0
    /\ late = {}
    /\ receipts = [m \in Msgs |-> NULL]
    /\ dispatching = {}
    /\ live = {}
    /\ dispatched = <<>>
    /\ server = "up"
    /\ crashes = 0

ClientStep == Fetch \/ AttemptFails \/ Refused \/ Accepted \/ HandOff \/ TimerFires

ServerStep(m) ==
    \/ RetainPrompt(m) \/ AdmitExecution(m) \/ ReportError(m)
    \/ DispatchSucceeds(m) \/ DispatchNative(m) \/ DispatchFails(m)
    \/ RecoverReceipt(m)

DeliveryNext ==
    \/ \E m \in Msgs : Enqueue(m) \/ ServerStep(m)
    \/ Start \/ Stop \/ RejectAll \/ Reload
    \/ ClientStep
    \/ ReceiveCurrent \/ TurnAway
    \/ \E r \in late : ReceiveLate(r)
    \/ CrashServer \/ Serve

\* Promises settle, timers fire and every dispatch ends; a request that is
\* repeated for ever is handled in the end, and its answer arrives in the end.
Fairness ==
    /\ WF_deliveryVars(ClientStep)
    /\ WF_deliveryVars(Serve \/ \E m \in Msgs : RecoverReceipt(m))
    /\ \A m \in Msgs : WF_deliveryVars(DispatchSucceeds(m) \/ DispatchNative(m) \/ DispatchFails(m))
    /\ SF_deliveryVars(ReceiveCurrent)
    /\ SF_deliveryVars(Accepted \/ Refused)
    /\ SF_deliveryVars(HandOff)

DeliverySpec == DeliveryInit /\ [][DeliveryNext]_deliveryVars /\ Fairness

-----------------------------------------------------------------------------
(* Properties.                                                             *)

\* "This is one durable command dispatch per message ID": whatever is repeated,
\* reloaded, late or lost, and wherever the server crashes, a command is
\* dispatched at most once.
DispatchedOnce ==
    \A i, j \in DOMAIN dispatched : dispatched[i] = dispatched[j] => i = j

\* An acceptance shown to the user is backed by the server for ever: the command
\* has a receipt, it was dispatched, and every receipt shown names its session.
AcceptanceHolds ==
    \A m \in Msgs : \A s \in acceptedIn[m] :
        /\ receipts[m] # NULL /\ receipts[m].session = s
        /\ \E i \in DOMAIN dispatched : dispatched[i] = m

\* "The client outbox submits in order": of two messages whose only outcome is
\* acceptance, the one composed first was dispatched first.
DispatchedInOrder ==
    \A i, j \in DOMAIN dispatched :
        (i < j /\ told[dispatched[i]] = {"accepted"} /\ told[dispatched[j]] = {"accepted"})
            => dispatched[i] < dispatched[j]

\* The first message of a draft in which nothing is reviewed.
Opens(m) == \A n \in Msgs : Scope[n] = Scope[m] => m <= n /\ n \notin Reviewed

\* Follow-ups composed in a draft before its session was known end up in the
\* conversation its first message opened, never in one of their own: as long as
\* the user saw nothing but the acceptance of the first message and it did not
\* fail later, every other command of the draft that has a conversation is in it.
FollowUpsShareSession ==
    \A m, n \in Msgs :
        (/\ Opens(m) /\ m # n /\ Scope[m] = Scope[n]
         /\ told[m] = {"accepted"} /\ ~receipts[m].error /\ receipts[m].session # NULL
         /\ receipts[n] # NULL /\ receipts[n].session # NULL)
            => receipts[n].session = receipts[m].session

\* A reviewed command the server may have is never forgotten: it was answered
\* definitively or it is still in the client's storage, also after a lost login,
\* a reload or a failing write.
ReviewedRetained ==
    \A m \in Reviewed :
        (receipts[m] # NULL /\ told[m] \cap {"accepted", "failed"} = {})
            => \E i \in DOMAIN client.saved : client.saved[i].msg = m

\* "Commands without evidence of delivery are surfaced as interrupted": once the
\* server serves, every receipt that is not failed is in the hands of this
\* process, needed no conversation, is owned by an admitted execution, or has its
\* prompt and a confirmed startup.
InterruptionsSurface ==
    server = "up" =>
        \A m \in Msgs \ live :
            receipts[m] # NULL =>
                \/ receipts[m].error
                \/ receipts[m].session = NULL
                \/ receipts[m].admitted
                \/ receipts[m].prompted /\ ~receipts[m].preparing

\* A prompt in the outbox does not stay there while the outbox is active.
PromptsSettle ==
    \A m \in Msgs :
        (\E i \in DOMAIN client.queue : client.queue[i].msg = m)
            ~> (~client.active \/ \A i \in DOMAIN client.queue : client.queue[i].msg # m)

\* "A malformed successful response remains ambiguous ... because the server may
\* already have executed it" (docs/design/prompt-delivery.md): a prompt reported
\* as rejected at a lost login was not dispatched.
RejectedNotDispatched ==
    \A i \in DOMAIN dispatched : "rejected" \notin told[dispatched[i]]

=============================================================================
