-------------------------- MODULE SessionLifetime --------------------------
(***************************************************************************)
(* Who drives a conversation, and when its driver ends: the registry of    *)
(* running sessions (packages/harness/src/session-registry.ts), the start, *)
(* close-out and detachment of a chat (server/chat.ts), the ownership kept *)
(* by its query loop (server/query-loop.ts), and the handlers that route   *)
(* connections to it (server/ws-handler-v2.ts, server/chat-event-stream.ts,*)
(* server/app.ts).                                                         *)
(*                                                                         *)
(* One stored conversation that has run before.  A run is one execution of *)
(* startChat.  A run's key in the registry is the connection that asked    *)
(* for it together with the conversation, so runs asked for by one         *)
(* connection share a key; here the connection stands for that key.  What  *)
(* runs between two awaits is one step.  Timers have no length: a timer    *)
(* that is pending may fire at any moment.                                 *)
(***************************************************************************)
EXTENDS Integers, Sequences, FiniteSets, SequencesExt

CONSTANTS
    Connections,     \* streams, each open until it ends
    NULL,
    MaxRuns,         \* bound: executions of startChat
    MaxNotices       \* bound: announcements and closes by the owner's client

ASSUME LifetimeAssumption ==
    /\ NULL \notin Connections
    /\ MaxRuns \in Nat \ {0}
    /\ MaxNotices \in Nat

VARIABLES
    open,        \* the connections that have not ended
    watching,    \* the connections that watch the conversation
    run,         \* the executions of startChat
    sessions,    \* the registry's map: runs, in the order of registration
    marks,       \* the registry's sets of keys and of pending timers
    closeTimers, \* keys with a time-out of a close by the user, held by no one
    state,       \* the conversation's state in the event store
    notices      \* announcements and closes so far

registry == <<sessions, marks>>
vars == <<open, watching, run, registry, closeTimers, state, notices>>

Runs == 1 .. MaxRuns

States == {"CREATED", "STARTING", "ACTIVE", "DETACHED", "SUSPENDED",
           "CLOSING", "ENDED"}

Timers == {"detachTimers", "closeoutTimers", "suspendTimers"}
MarkNames == {"attached", "suspended", "userClosing"} \cup Timers

\* A run is routed, prepares, is registered ("created"), has called its provider
\* ("starting"), has had an answer ("active"), has left its iteration
\* ("unwinding") and is over.
Phases == {"idle", "routed", "preparing", "created", "starting", "active",
           "unwinding", "over"}

Run == [phase : Phases, key : Connections \cup {NULL},
        owner : Connections \cup {NULL},       \* ownerConnectionId, transport
        aborted : BOOLEAN,                     \* its AbortController
        owned : Runs \cup {NULL},              \* the loop's ownedSession
        resolved : BOOLEAN]                    \* resolvedSessionId is known

NotBegun == [phase |-> "idle", key |-> NULL, owner |-> NULL,
             aborted |-> FALSE, owned |-> NULL, resolved |-> FALSE]
Over == [NotBegun EXCEPT !.phase = "over"]      \* no step reads more of it

Key(r) == run[r].key
In(phases) == {r \in Runs : run[r].phase \in phases}

\* findBySessionId: the first entry of the conversation.
Found == IF sessions = <<>> THEN NULL ELSE sessions[1]
Entry(k) == {r \in ToSet(sessions) : Key(r) = k}
IsAttached(k) == k \in marks.attached
IsSuspended(k) == k \in marks.suspended
Open(c) == c \in open

\* A preparation whose controller is live holds its key among the startups.
Startups == {r \in In({"preparing"}) : ~run[r].aborted}

-----------------------------------------------------------------------------
(* The registry.                                                           *)

With(m, names, k) == [n \in MarkNames |-> IF n \in names THEN m[n] \cup {k} ELSE m[n]]
Without(m, names, k) == [n \in MarkNames |-> IF n \in names THEN m[n] \ {k} ELSE m[n]]

\* The map's delete and set: a key that is set again keeps its place.
Deleted(k) ==
    IF Entry(k) = {} THEN sessions
    ELSE RemoveAt(sessions, CHOOSE i \in DOMAIN sessions : Key(sessions[i]) = k)
Registered(r) ==
    IF Entry(Key(r)) = {} THEN Append(sessions, r)
    ELSE [i \in DOMAIN sessions |-> IF Key(sessions[i]) = Key(r) THEN r ELSE sessions[i]]

\* Fault: the close by the user is not forgotten.
ForgetKeepingClose(k) ==
    /\ sessions' = Deleted(k)
    /\ marks' = Without(marks, MarkNames \ {"userClosing"}, k)

Forget(k) ==
    /\ sessions' = Deleted(k)
    /\ marks' = Without(marks, MarkNames, k)

\* The runs `victims` lose their controller.
Aborting(victims) ==
    [r \in Runs |-> IF r \in victims THEN [run[r] EXCEPT !.aborted = TRUE] ELSE run[r]]

\* What abort(k) ends: the entry under the key and its preparation.
Victims(k) == Entry(k) \cup {r \in Startups : Key(r) = k}

Detached(m, k) ==
    IF k \in m.suspended THEN m
    ELSE With(Without(m, {"attached", "closeoutTimers"}, k), {"detachTimers"}, k)

Reattached(m, k) ==
    With(Without(m, MarkNames, k), {"attached"}, k)

Suspended(m, k) ==
    With(Without(m, {"detachTimers"}, k), {"suspended", "suspendTimers"}, k)

\* reattachChat, and the handler's note of the new owner.
Reattach(r, c) ==
    /\ marks' = Reattached(marks, Key(r))
    /\ run' = [run EXCEPT ![r].owner = c]
    /\ state' = "ACTIVE"

-----------------------------------------------------------------------------
(* Connections.                                                            *)

\* The stream closes: a session it drives is detached, unless it is suspended.
\* Only a watched conversation is looked for.
Disconnect(c) ==
    /\ Open(c)
    /\ open' = open \ {c}
    /\ watching' = watching \ {c}
    /\ IF /\ c \in watching
          /\ Found # NULL
          /\ run[Found].owner = c
          /\ IsAttached(Key(Found)) /\ ~IsSuspended(Key(Found))
       THEN marks' = Detached(marks, Key(Found)) /\ state' = "DETACHED"
       ELSE UNCHANGED <<marks, state>>
    /\ UNCHANGED <<run, sessions, closeTimers, notices>>

Unwatch(c) ==
    /\ Open(c) /\ c \in watching
    /\ watching' = watching \ {c}
    /\ UNCHANGED <<open, run, registry, closeTimers, state, notices>>

\* The conversation is opened in a connected client.
Switch(c) ==
    /\ Open(c)
    /\ watching' = watching \cup {c}
    /\ IF /\ Found # NULL
          /\ state \notin {"ENDED", "CLOSING"}
          /\ \/ ~Open(run[Found].owner)
             \/ run[Found].owner = c /\ ~IsAttached(Key(Found))
       THEN Reattach(Found, c)
       ELSE UNCHANGED <<run, marks, state>>
    /\ UNCHANGED <<open, sessions, closeTimers, notices>>

\* A client resumes the conversation on this connection; it may name the owner
\* as the connection it replaces.
Reconnect(c) ==
    /\ Open(c)
    /\ watching' = watching \cup {c}
    /\ \/ /\ Found = NULL
          /\ UNCHANGED <<run, registry, state>>
       \/ /\ Found # NULL /\ state \in {"ENDED", "CLOSING"}
          /\ Forget(Key(Found))
          /\ UNCHANGED <<run, state>>
       \/ /\ Found # NULL /\ state \notin {"ENDED", "CLOSING"}
          /\ \E replaces \in BOOLEAN :
                IF \/ run[Found].owner = c /\ ~IsAttached(Key(Found))
                   \/ ~Open(run[Found].owner)
                   \/ run[Found].owner # c /\ replaces
                THEN Reattach(Found, c)
                ELSE /\ marks' = Without(marks, {"suspended", "suspendTimers"}, Key(Found))
                     /\ state' = IF IsSuspended(Key(Found)) /\ state = "SUSPENDED"
                                 THEN "ACTIVE" ELSE state
                     /\ UNCHANGED run
          /\ UNCHANGED sessions
    /\ UNCHANGED <<open, closeTimers, notices>>

\* The owner's client announces, on its stream or by a beacon that arrives after
\* its end, that it goes to the background.
Suspend(c) ==
    /\ notices < MaxNotices
    /\ Found # NULL /\ run[Found].owner = c
    /\ notices' = notices + 1
    /\ marks' = Suspended(marks, Key(Found))
    /\ state' = "SUSPENDED"
    /\ UNCHANGED <<open, watching, run, sessions, closeTimers>>

-----------------------------------------------------------------------------
(* Commands.                                                               *)

\* The first prompt of a connection has to be admitted before its next: the
\* client's outbox waits for the answer.
Waiting(c) == \E r \in In({"routed", "preparing", "created"}) : Key(r) = c

\* A prompt for a live session joins it; a driver that is not connected, or a
\* connection that is not the driver, takes over.  A retry of a prompt that was
\* accepted before leaves a connected driver in place.
Join(c) ==
    /\ Open(c) /\ ~Waiting(c)
    /\ Found # NULL /\ state \notin {"ENDED", "CLOSING"}
    /\ watching' = watching \cup {c}
    /\ \E duplicate \in BOOLEAN :
          IF \/ run[Found].owner # c /\ (~duplicate \/ ~Open(run[Found].owner))
             \/ run[Found].owner = c /\ ~IsAttached(Key(Found))
          THEN Reattach(Found, c)
          ELSE UNCHANGED <<run, marks, state>>
    /\ UNCHANGED <<open, sessions, closeTimers, notices>>

\* Any other prompt starts a run; what is left of a session is stopped first.
Start(c) ==
    /\ Open(c) /\ ~Waiting(c)
    /\ Found = NULL \/ state \in {"ENDED", "CLOSING"}
    /\ watching' = watching \cup {c}
    /\ \E r \in In({"idle"}) :
          /\ \A s \in In({"idle"}) : r <= s
          /\ LET stopped == IF Found = NULL THEN run ELSE Aborting(Victims(Key(Found)))
             IN run' = [stopped EXCEPT ![r].phase = "routed", ![r].key = c, ![r].owner = c]
    /\ IF Found = NULL THEN UNCHANGED registry ELSE Forget(Key(Found))
    /\ UNCHANGED <<open, closeTimers, state, notices>>

\* The user stops the conversation: every preparation registered for it, and its
\* first entry.
Stop(c) ==
    /\ Open(c)
    /\ Found # NULL \/ Startups # {}
    /\ run' = Aborting(Startups \cup (IF Found = NULL THEN {} ELSE Entry(Key(Found))))
    /\ IF Found = NULL THEN UNCHANGED registry ELSE Forget(Key(Found))
    /\ UNCHANGED <<open, watching, closeTimers, state, notices>>

\* The owner closes the conversation; a plain time-out will abort what is then
\* registered under the key, if its user still closes it.
Close(c) ==
    /\ Open(c)
    /\ Found # NULL /\ run[Found].owner = c
    /\ marks' = With(marks, {"userClosing"}, Key(Found))
    /\ notices < MaxNotices
    /\ notices' = notices + 1
    /\ closeTimers' = closeTimers \cup {Key(Found)}
    /\ UNCHANGED <<open, watching, run, sessions, state>>

-----------------------------------------------------------------------------
(* Runs.                                                                   *)

\* The account is verified and the preparation can be stopped from now on.
RegisterStartup(r) ==
    /\ run[r].phase = "routed"
    /\ run' = [run EXCEPT ![r].phase = "preparing"]
    /\ UNCHANGED <<open, watching, registry, closeTimers, state, notices>>

Register(r) ==
    /\ run[r].phase = "preparing" /\ ~run[r].aborted
    /\ run' = [run EXCEPT ![r].phase = "created"]
    /\ sessions' = Registered(r)
    /\ marks' = With(marks, {"attached"}, Key(r))
    /\ state' = "CREATED"
    /\ UNCHANGED <<open, watching, closeTimers, notices>>

PrepareFails(r) ==
    /\ run[r].phase \in {"routed", "preparing"}
    /\ run' = [run EXCEPT ![r] = Over]
    /\ UNCHANGED <<open, watching, registry, closeTimers, state, notices>>

\* The provider is called and the query loop starts.  After the awaits since its
\* registration nothing asks whether the run still holds its key: the loop owns
\* what is registered there.
StartQuery(r) ==
    /\ run[r].phase = "created"
    /\ run' = [run EXCEPT ![r].phase = "starting",
                          ![r].owned = IF Entry(Key(r)) = {} THEN NULL
                                       ELSE CHOOSE s \in Entry(Key(r)) : TRUE]
    /\ state' = "STARTING"
    /\ UNCHANGED <<open, watching, registry, closeTimers, notices>>

\* Fault: a start that failed leaves its entry.
StartFailsLeavingEntry(r) ==
    /\ run[r].phase = "created"
    /\ run' = [run EXCEPT ![r] = Over]
    /\ UNCHANGED <<open, watching, registry, closeTimers, state, notices>>

\* The start fails; an entry that is still its own is retired.  A failure to
\* compile the context (chat.ts:2339-2355) does not ask whose it is: it ends the
\* conversation and whatever is registered under the key.
StartFails(r) ==
    /\ run[r].phase = "created"
    /\ \/ /\ run' = [Aborting(Victims(Key(r))) EXCEPT ![r] = Over]
          /\ Forget(Key(r))
          /\ state' = "ENDED"
       \/ /\ r \notin Entry(Key(r))
          /\ run' = [run EXCEPT ![r] = Over]
          /\ UNCHANGED <<registry, state>>
    /\ UNCHANGED <<open, watching, closeTimers, notices>>

\* currentOwnerSession: the loop's session is still registered.
IsCurrent(r) == run[r].owned \in ToSet(sessions)

\* An event of the provider; a loop whose session is gone leaves its iteration.
Receive(r) ==
    /\ run[r].phase \in {"starting", "active"}
    /\ IF IsCurrent(r)
       THEN /\ run[r].phase = "starting"
            /\ run' = [run EXCEPT ![r].phase = "active", ![r].resolved = TRUE]
            /\ state' = "ACTIVE"
       ELSE /\ run' = [run EXCEPT ![r].phase = "unwinding"]
            /\ UNCHANGED state
    /\ UNCHANGED <<open, watching, registry, closeTimers, notices>>

\* The provider's stream ends: by itself, by an error, because no first event
\* came in time, or because the controller was aborted.
StreamEnds(r) ==
    /\ run[r].phase \in {"starting", "active"}
    /\ \E late \in {FALSE, run[r].phase = "starting"} :
          run' = [run EXCEPT ![r].phase = "unwinding", ![r].aborted = @ \/ late]
    /\ UNCHANGED <<open, watching, registry, closeTimers, state, notices>>

\* The loop's last block.  An aborted loop removes what is registered under its
\* key, and every loop that was answered writes the end of the conversation.
Unwind(r) ==
    /\ run[r].phase = "unwinding"
    /\ run' = [run EXCEPT ![r] = Over]
    /\ IF IsCurrent(r) \/ (run[r].aborted /\ run[r].owned # NULL)
       THEN Forget(Key(r))
       ELSE UNCHANGED registry
    /\ state' = IF run[r].resolved THEN "ENDED" ELSE state
    /\ UNCHANGED <<open, watching, closeTimers, notices>>

-----------------------------------------------------------------------------
(* Timers.                                                                 *)

\* SessionRegistry.abort.
Abort(k) ==
    /\ run' = Aborting(Victims(k))
    /\ Forget(k)

\* Detached for long: the session is asked to close out, and gets a deadline.
DetachFires(k) ==
    /\ k \in marks.detachTimers
    /\ LET rest == Without(marks, {"detachTimers"}, k)
       IN IF Entry(k) # {} /\ ~IsAttached(k)
          THEN /\ marks' = With(rest, {"closeoutTimers"}, k)
               /\ state' = "CLOSING"
          ELSE marks' = rest /\ UNCHANGED state
    /\ UNCHANGED <<open, watching, run, sessions, closeTimers, notices>>

CloseoutFires(k) ==
    /\ k \in marks.closeoutTimers
    /\ IF Entry(k) # {} /\ ~IsAttached(k)
       THEN Abort(k)
       ELSE /\ marks' = Without(marks, {"closeoutTimers"}, k)
            /\ UNCHANGED <<run, sessions>>
    /\ UNCHANGED <<open, watching, closeTimers, state, notices>>

\* Fault: the session comes out of its suspension and is not detached.
SuspendFiresOnly(k) ==
    /\ k \in marks.suspendTimers
    /\ marks' = Without(marks, {"suspended", "suspendTimers"}, k)
    /\ UNCHANGED <<open, watching, run, sessions, closeTimers, state, notices>>

SuspendFires(k) ==
    /\ k \in marks.suspendTimers
    /\ marks' = Detached(Without(marks, {"suspended", "suspendTimers"}, k), k)
    /\ UNCHANGED <<open, watching, run, sessions, closeTimers, state, notices>>

CloseFires(k) ==
    /\ k \in closeTimers
    /\ closeTimers' = closeTimers \ {k}
    /\ IF Entry(k) # {} /\ k \in marks.userClosing
       THEN Abort(k)
       ELSE UNCHANGED <<run, registry>>
    /\ UNCHANGED <<open, watching, state, notices>>

-----------------------------------------------------------------------------
Init ==
    /\ open = Connections
    /\ watching = {}
    /\ run = [r \in Runs |-> NotBegun]
    /\ sessions = <<>>
    /\ marks = [n \in MarkNames |-> {}]
    /\ closeTimers = {}
    /\ state = "ENDED"
    /\ notices = 0

Fires(k) == DetachFires(k) \/ CloseoutFires(k) \/ SuspendFires(k) \/ CloseFires(k)

Next ==
    \/ \E c \in Connections :
          \/ Disconnect(c) \/ Unwatch(c)
          \/ Switch(c) \/ Reconnect(c) \/ Suspend(c)
          \/ Join(c) \/ Start(c) \/ Stop(c) \/ Close(c)
          \/ Fires(c)
    \/ \E r \in Runs :
          \/ RegisterStartup(r) \/ Register(r) \/ PrepareFails(r)
          \/ StartQuery(r) \/ StartFails(r)
          \/ Receive(r) \/ StreamEnds(r) \/ Unwind(r)

\* While a key has timers pending, one of them fires in the end.
LifetimeSpec == Init /\ [][Next]_vars /\ \A k \in Connections : WF_vars(Fires(k))

-----------------------------------------------------------------------------
SessionTypeOK ==
    /\ open \subseteq Connections
    /\ watching \subseteq open
    /\ run \in [Runs -> Run]
    /\ sessions \in Seq(In({"created", "starting", "active", "unwinding"}))
    /\ marks \in [MarkNames -> SUBSET Connections]
    /\ closeTimers \subseteq Connections
    /\ state \in States
    /\ notices \in 0 .. MaxNotices

\* Whatever is left of an earlier run under the same key never reaches the next:
\* the marks and timers of a key belong to the entry it has now, an entry is the
\* only one of its key, and its controller is live.
KeysOwned ==
    /\ \A n \in MarkNames : \A k \in marks[n] : Entry(k) # {}
    /\ \A i, j \in DOMAIN sessions : Key(sessions[i]) = Key(sessions[j]) => i = j
    /\ \A r \in ToSet(sessions) : run[r].aborted => run[r].phase = "unwinding"

\* Its driver left, went to the background or closed the conversation: through
\* suspension, return, close-out and reuse of the key, the session is taken up by
\* a connection that is open, or is gone in the end.
LeftBehind(k) ==
    /\ Entry(k) # {}
    /\ ~IsAttached(k) \/ IsSuspended(k) \/ k \in marks.userClosing
TakenUp(k) ==
    /\ \E r \in Entry(k) : Open(run[r].owner)
    /\ ~LeftBehind(k)
LeavingEnds == \A k \in Connections : LeftBehind(k) ~> (Entry(k) = {} \/ TakenUp(k))

\* query-loop.ts:290-291 and chat.ts:3260-3262: a loop follows its own session, never
\* a replacement that happens to reuse its key, and the end of one run does not
\* end another.
ReplacementUntouched ==
    [][\A r \in Runs : Unwind(r) =>
          \A s \in ToSet(sessions) : s # r => s \in ToSet(sessions')]_vars
=============================================================================
