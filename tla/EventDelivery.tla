---------------------------- MODULE EventDelivery ----------------------------
(***************************************************************************)
(* Delivery of a session's durable events to one browser client:           *)
(* packages/client/src/applied-delivery.ts behind sse-connection.ts, with  *)
(* the transcript reads of store.ts that share its cursor, against         *)
(* packages/harness/src/connection-registry.ts and handleReconnect.        *)
(*                                                                         *)
(* A streamed event is shown only if its predecessor is the client's       *)
(* cursor.  After a reconnect the server offers a snapshot: the client     *)
(* restores the transcript up to it over REST, acknowledges it, and only   *)
(* then does the stream resume.  Stream, REST answers, acknowledgements    *)
(* and control requests are independent and pass each other; the user      *)
(* opens and leaves the conversation meanwhile.                            *)
(*                                                                         *)
(* Sequence numbers are those of the session, so that the predecessor of   *)
(* an event is the number before it.  Event stream, transcript reads and   *)
(* requests use connections of their own and may overtake each other; only *)
(* the stream and the queue of control requests keep their order.          *)
(***************************************************************************)
EXTENDS Integers, Sequences, FiniteSets, FiniteSetsExt

CONSTANTS
    NULL,          \* an absent value
    Batch,         \* SYNC_BATCH_LIMIT, also the size of an acknowledgement batch
    BufferCap,     \* MAX_BUFFERED_EVENTS
    MaxEvents,     \* bound: durable events of the session
    MaxOpens,      \* bound: openings of the conversation by the user
    MaxDisruptions \* bound: lost links, failures, resumes and early time-outs

ASSUME EventBoundAssumption ==
    /\ Batch \in Nat \ {0} /\ BufferCap \in Nat \ {0}
    /\ MaxEvents \in Nat /\ MaxOpens \in Nat /\ MaxDisruptions \in Nat
ASSUME EventNullAssumption == NULL \notin Nat

VARIABLES
    client,      \* SseConnection and AppliedDelivery
    acks,        \* AppliedEventAcks of the session, or NULL
    view,        \* the store: the conversation on screen and its transcript reads
    stream,      \* messages on their way to the client, in order
    posts,       \* requests on their way to the server or back
    link,        \* the ConnectionRegistry's record of the client's connection
    durable,     \* number of durable events
    opens,
    disruptions

clientVars == <<client, acks, view>>
eventVars == <<clientVars, stream, posts, link, durable, opens, disruptions>>

-----------------------------------------------------------------------------
(* Types.                                                                  *)

Seqs == 0..MaxEvents
Events == 1..MaxEvents
OfferIds == 0..(MaxDisruptions + MaxOpens + 2)

\* "restored" is restoredThrough, 0 if undefined; "held" is waitingForSnapshot.
\* "overtaken" is history: the cursor that the client had when an older offer came.
SnapshotOffer == [cursor : Seqs, id : OfferIds, acked : BOOLEAN, installed : Seqs]
Client == [up : BOOLEAN, connected : BOOLEAN, replaying : BOOLEAN, dirty : BOOLEAN,
           tracked : BOOLEAN, cursor : Seqs, events : SUBSET Events, held : BOOLEAN,
           offer : SnapshotOffer \cup {NULL}, restored : Seqs, overtaken : Seqs]
Acks == [pending : SUBSET Events, highest : Seqs, superseded : Seqs,
         batch : SUBSET Events, answer : {"none", "applied", "refused"}]
\* "through" and "id" belong to a bounded read; "cursor" is what the server answered.
Read == [kind : {"open", "refresh", "bounded"}, through : Seqs, id : OfferIds,
         cursor : Seqs \cup {NULL}, live : SUBSET Events]
\* "error": the user is told that history or a switch failed and may retry.
View == [open : BOOLEAN, rendered : Seq(Events) \cup {NULL}, read : Read \cup {NULL},
         background : [cursor : Seqs, id : OfferIds] \cup {NULL}, error : BOOLEAN]
Message == [event : Events] \cup [cursor : Seqs, id : OfferIds]
Control == [kind : {"replay", "switch"}, cursor : Seqs \cup {NULL},
            step : {"queued", "sent", "done"}]
SnapshotAck == [cursor : Seqs, id : OfferIds, answer : {"none", "applied", "refused"}]
Posts == [control : Seq(Control), singles : Seq(Events), snapshots : SUBSET SnapshotAck]
Link == [watched : BOOLEAN, applied : BOOLEAN, cursor : Seqs, forwarded : Seqs,
         boundary : Seqs, offer : [cursor : Seqs, id : OfferIds] \cup {NULL}, offers : OfferIds]

ASSUME EventAbsentAssumption ==
    NULL \notin SnapshotOffer \cup Read \cup [cursor : Seqs, id : OfferIds]

EventTypeOK ==
    /\ client \in Client
    /\ acks \in Acks \cup {NULL}
    /\ view \in View
    /\ stream \in Seq(Message)
    /\ posts \in Posts
    /\ link \in Link
    /\ durable \in Seqs /\ disruptions \in 0..MaxDisruptions
    /\ link.cursor <= durable /\ link.forwarded <= durable
    /\ Cardinality(client.events) <= BufferCap
    /\ acks # NULL => acks.batch \cap acks.pending = {}

-----------------------------------------------------------------------------
(* The server's side: retryDelivery and broadcast.                         *)

Larger(a, b) == IF a > b THEN a ELSE b
Smaller(a, b) == IF a < b THEN a ELSE b

NoLink == [watched |-> FALSE, applied |-> FALSE, cursor |-> 0, forwarded |-> 0,
           boundary |-> 0, offer |-> NULL, offers |-> 0]
NoPosts == [control |-> <<>>, singles |-> <<>>, snapshots |-> {}]

\* How many of d durable events a retry after "from" sends.
Missed(l, from, d) ==
    IF l.offer # NULL \/ from >= d THEN 0 ELSE Smaller(d - from, Batch)

EventsFrom(from, n) == [i \in 1..n |-> [event |-> from + i]]

\* The record after such a retry.
Retried(l, from, d) ==
    LET n == Missed(l, from, d)
        last == from + n
    IN IF l.offer # NULL THEN l
       ELSE [l EXCEPT !.boundary = IF n = Batch /\ l.applied THEN last ELSE 0,
                      !.forwarded = IF n = 0 THEN @ ELSE Larger(@, last),
                      !.cursor = IF n = 0 \/ l.applied THEN @ ELSE Larger(@, last)]

\* The client's end of the connection is closed: what is on its way is void.
Disconnect ==
    /\ stream' = <<>>
    /\ posts' = NoPosts
    /\ acks' = NULL
    /\ link' = NoLink

Disrupt == disruptions < MaxDisruptions /\ disruptions' = disruptions + 1

-----------------------------------------------------------------------------
(* AppliedDelivery.                                                        *)

Fenced(c) == c.offer # NULL \/ c.held

\* Fault: buffered events are applied as they come.
ReachPastGaps(c) ==
    IF Fenced(c) \/ c.events = {} THEN c.cursor
    ELSE Max(c.events)

\* How far the buffered events lead on from the cursor.
Reach(c) ==
    IF Fenced(c) THEN c.cursor
    ELSE CHOOSE n \in c.cursor..MaxEvents :
             /\ (c.cursor + 1)..n \subseteq c.events
             /\ n + 1 \notin c.events

\* The cursor moves on to n; covered events leave the buffer.
Advanced(c, n) ==
    [c EXCEPT !.cursor = n, !.events = {e \in @ : e > n},
              !.restored = IF n >= @ THEN 0 ELSE @]

\* Events in their order.
Ascending(events) ==
    [i \in 1..Cardinality(events) |->
        CHOOSE e \in events : Cardinality({x \in events : x <= e}) = i]

\* The events of an advance to n that the store is given: a restored
\* transcript covers the others.
Delivered(c, n) == Ascending({e \in c.events : Larger(c.cursor, c.restored) < e /\ e <= n})

\* ... shown, if the conversation is on screen, and noted for a pending read.
Noted(r, events) == [r EXCEPT !.live = @ \cup {events[i] : i \in DOMAIN events}]
Shown(v, events) ==
    IF ~v.open THEN v
    ELSE [v EXCEPT !.rendered = IF @ = NULL THEN NULL ELSE @ \o events,
                   !.read = IF @ = NULL THEN NULL ELSE Noted(@, events)]

\* AppliedEventAcks.flush: one batch at a time is on its way.
Flushed(a) ==
    LET first == {e \in a.pending : Cardinality({x \in a.pending : x < e}) < Batch}
    IN IF a.batch # {} THEN a
       ELSE [a EXCEPT !.pending = @ \ first, !.batch = first, !.answer = "none"]

\* AppliedEventAcks.enqueue for each event of a set.
Enqueued(a, events) ==
    LET old == IF a = NULL THEN [pending |-> {}, highest |-> 0, superseded |-> 0,
                                 batch |-> {}, answer |-> "none"] ELSE a
        new == {e \in events : e > old.highest}
    IN IF events = {} THEN a
       ELSE Flushed([old EXCEPT !.pending = @ \cup new,
                                !.highest = IF new = {} THEN @
                                            ELSE Max(new)])

Down(c) == [c EXCEPT !.up = FALSE, !.connected = FALSE]

\* Fault: one event too many is buffered.
OverflowsLate(events) == Cardinality(events) > BufferCap + 1

Overflows(events) == Cardinality(events) > BufferCap

\* drain(): events are applied and acknowledged one by one, until the store
\* refuses one and the connection is replaced.
Drain(c, v, queue, p, s) ==
    \/ /\ client' = Advanced(c, Reach(c))
       /\ view' = Shown(v, Delivered(c, Reach(c)))
       /\ acks' = IF c.up THEN Enqueued(queue, (c.cursor + 1)..Reach(c)) ELSE NULL
       /\ posts' = p
       /\ stream' = s
       /\ UNCHANGED <<link, disruptions>>
    \/ \E n \in c.cursor..(Reach(c) - 1) :
          /\ n + 1 > c.restored
          /\ Disrupt
          /\ client' = LET a == Advanced(c, n)
                       IN Down(IF Overflows(a.events)
                               THEN [a EXCEPT !.events = {}] ELSE a)
          /\ view' = Shown(v, Delivered(c, n))
          /\ Disconnect

\* Fault: a committed transcript moves the cursor although an offer is pending.
CommitThroughOffer(c, v, a, n, p) ==
    LET done == [c EXCEPT !.restored = 0, !.cursor = Larger(@, n),
                          !.events = {e \in @ : e > Larger(c.cursor, n)}]
    IN Drain([done EXCEPT !.offer = IF @ = NULL THEN @ ELSE [@ EXCEPT !.installed = n]],
             v, a, p, stream)

\* commitTranscript after a transcript up to n is installed, with p to be sent
\* after it.  Under an offer only the coverage is noted.
Commit(c, v, a, n, p) ==
    LET committed == Larger(n, c.cursor)
        done == [c EXCEPT !.restored = 0, !.cursor = committed,
                          !.events = {e \in @ : e > committed}]
        noted == IF c.offer = NULL THEN c ELSE [c EXCEPT !.offer.installed = n]
    IN IF Fenced(c)
       THEN /\ client' = noted /\ view' = v /\ acks' = a /\ posts' = p
            /\ UNCHANGED <<stream, link, disruptions>>
       ELSE Drain(done, v, a,
                  IF committed > 0 /\ c.up
                  THEN [p EXCEPT !.singles = Append(@, committed)] ELSE p,
                  stream)

-----------------------------------------------------------------------------
(* The user: switchSession, leaving, returning to the foreground.          *)

ReadOf(kind, through, id) ==
    [kind |-> kind, through |-> through, id |-> id, cursor |-> NULL, live |-> {}]

\* queueControl: control requests of a connection are sent one after the other.
Queued(kind, n) == [kind |-> kind, cursor |-> n, step |-> "queued"]
WithControl(p, request) == [p EXCEPT !.control = Append(@, request)]

\* The conversation is shown empty and its transcript read over REST.
Open ==
    /\ opens < MaxOpens
    /\ opens' = opens + 1
    /\ client' = [client EXCEPT !.tracked = TRUE]
    /\ view' = [view EXCEPT !.open = TRUE, !.rendered = NULL, !.error = FALSE,
                            !.read = ReadOf("open", 0, 0)]
    /\ posts' = IF client.connected THEN WithControl(posts, Queued("switch", NULL)) ELSE posts
    /\ UNCHANGED <<acks, stream, link, durable, disruptions>>

\* Another conversation is shown; a prompt still to be delivered keeps this one
\* tracked in the background.
Leave ==
    /\ view.open
    /\ view' = [view EXCEPT !.open = FALSE, !.rendered = NULL, !.read = NULL]
    /\ UNCHANGED <<client, acks, stream, posts, link, durable, opens, disruptions>>

\* _foreground: the transcript is read again unless a read is under way.
Refresh ==
    /\ view.open /\ view.read = NULL
    /\ Disrupt
    /\ view' = [view EXCEPT !.read = ReadOf("refresh", 0, 0)]
    /\ UNCHANGED <<client, acks, stream, posts, link, durable, opens>>

-----------------------------------------------------------------------------
(* The connection: welcome, loss, the reconnect request.                   *)

Replaying(c) == \E i \in DOMAIN posts.control : posts.control[i].kind = "replay"

\* doReconnectPost captures the cursor and holds chained events back.
Welcome ==
    /\ ~client.up
    /\ client' = [client EXCEPT !.up = TRUE, !.connected = ~client.tracked,
                     !.replaying = client.tracked, !.dirty = FALSE,
                     !.events = {}, !.held = FALSE, !.offer = NULL, !.restored = 0,
                     !.overtaken = 0]
    /\ acks' = NULL
    /\ posts' = IF client.tracked
                THEN WithControl(NoPosts, Queued("replay", client.cursor)) ELSE NoPosts
    /\ link' = NoLink
    /\ stream' = <<>>
    /\ view' = [view EXCEPT !.background = NULL]
    /\ UNCHANGED <<durable, opens, disruptions>>

\* The stream breaks, a request fails, or the server restarts.
LinkDrops ==
    /\ client.up
    /\ Disrupt
    /\ client' = Down(client)
    /\ view' = [view EXCEPT !.background = NULL]
    /\ Disconnect
    /\ UNCHANGED <<durable, opens>>

\* The page returns to the foreground and its stream survived.
Resume ==
    /\ client.connected /\ client.tracked
    /\ Disrupt
    /\ IF Replaying(client)
       THEN /\ client' = [client EXCEPT !.dirty = TRUE]
            /\ UNCHANGED posts
       ELSE /\ client' = [client EXCEPT !.replaying = TRUE]
            /\ posts' = WithControl(posts, Queued("replay", client.cursor))
    /\ UNCHANGED <<acks, view, stream, link, durable, opens>>

\* A switch drops the cursor of its transcript if a snapshot is pending by now.
SendControl ==
    /\ posts.control # <<>>
    /\ Head(posts.control).step = "queued"
    /\ posts' = [posts EXCEPT !.control[1].step = "sent",
                     !.control[1].cursor =
                         IF posts.control[1].kind = "switch" /\ Fenced(client) THEN NULL ELSE @]
    /\ UNCHANGED <<clientVars, stream, link, durable, opens, disruptions>>

\* Fault: the offer is made before the cursor of the connection is reset.
OfferedBeforeReset(l, lastSeq, d) ==
    [l EXCEPT !.watched = TRUE, !.applied = TRUE, !.cursor = lastSeq, !.forwarded = lastSeq,
              !.boundary = 0, !.offer = NULL, !.offers = @ + 1]

\* handleReconnect: enableAppliedCursor, then offerSnapshot at the high-water mark.
Offered(l, lastSeq, d) ==
    [l EXCEPT !.watched = TRUE, !.applied = TRUE, !.cursor = lastSeq, !.forwarded = lastSeq,
              !.boundary = 0, !.offer = [cursor |-> d, id |-> l.offers + 1],
              !.offers = @ + 1]

HandleReplay ==
    /\ posts.control # <<>>
    /\ Head(posts.control).kind = "replay" /\ Head(posts.control).step = "sent"
    /\ link' = Offered(link, Head(posts.control).cursor, durable)
    /\ stream' = Append(stream, [cursor |-> durable, id |-> link.offers + 1])
    /\ posts' = [posts EXCEPT !.control[1].step = "done"]
    /\ UNCHANGED <<clientVars, durable, opens, disruptions>>

ReplayReturns ==
    /\ posts.control # <<>>
    /\ Head(posts.control).kind = "replay" /\ Head(posts.control).step = "done"
    /\ IF client.dirty
       THEN /\ client' = [client EXCEPT !.dirty = FALSE, !.replaying = TRUE]
            /\ posts' = WithControl([posts EXCEPT !.control = Tail(@)],
                                    Queued("replay", client.cursor))
       ELSE /\ client' = [client EXCEPT !.connected = TRUE]
            /\ posts' = [posts EXCEPT !.control = Tail(@)]
    /\ UNCHANGED <<acks, view, stream, link, durable, opens, disruptions>>

\* handleSwitchSession: a transcript cursor makes the client acknowledge what it
\* applies from there; without one a new watch starts at the high-water mark.
HandleSwitch ==
    /\ posts.control # <<>>
    /\ Head(posts.control).kind = "switch" /\ Head(posts.control).step = "sent"
    /\ LET n == Head(posts.control).cursor
           watching == [link EXCEPT !.watched = TRUE]
       IN link' = IF n # NULL
                  THEN [watching EXCEPT !.applied = TRUE, !.offer = NULL, !.cursor = n,
                                        !.forwarded = n, !.boundary = 0]
                  ELSE IF link.watched THEN link
                  ELSE [watching EXCEPT !.cursor = durable, !.forwarded = durable,
                                        !.boundary = 0]
    /\ posts' = [posts EXCEPT !.control = Tail(@)]
    /\ UNCHANGED <<clientVars, stream, durable, opens, disruptions>>

\* A switch that fails is not repeated: the user is told.
SwitchFails ==
    /\ posts.control # <<>>
    /\ Head(posts.control).kind = "switch" /\ Head(posts.control).step = "sent"
    /\ Disrupt
    /\ posts' = [posts EXCEPT !.control = Tail(@)]
    /\ view' = [view EXCEPT !.error = view.open \/ @]
    /\ UNCHANGED <<client, acks, stream, link, durable, opens>>

-----------------------------------------------------------------------------
(* Events.                                                                 *)

\* An event becomes durable; a live one is broadcast at once.  Internal ones
\* are left to the retry that the next live one causes.
AppendEvent(live) ==
    /\ durable < MaxEvents
    /\ durable' = durable + 1
    /\ LET silent == ~live \/ ~client.up \/ ~link.watched \/ link.offer # NULL
           gap == link.applied /\ durable > link.forwarded
       IN IF silent \/ (gap /\ link.boundary # 0) THEN UNCHANGED <<stream, link>>
          ELSE IF gap
          THEN /\ stream' = stream \o EventsFrom(link.forwarded,
                                          Missed(link, link.forwarded, durable + 1))
               /\ link' = Retried(link, link.forwarded, durable + 1)
          ELSE /\ stream' = Append(stream, [event |-> durable + 1])
               /\ link' = [link EXCEPT !.forwarded = Larger(@, durable + 1),
                              !.cursor = IF link.applied THEN @ ELSE Larger(@, durable + 1)]
    /\ UNCHANGED <<clientVars, posts, opens, disruptions>>

\* The five-second timer; it is slow compared with the stream.
PeriodicSync ==
    /\ client.up /\ link.watched
    /\ stream = <<>>
    /\ stream' = EventsFrom(link.cursor, Missed(link, link.cursor, durable))
    /\ link' = Retried(link, link.cursor, durable)
    /\ UNCHANGED <<clientVars, posts, durable, opens, disruptions>>

\* receive(): an event at or below the cursor is acknowledged again, the next
\* one applied, any other buffered; a full buffer replaces the connection.
ReceiveEvent ==
    /\ stream # <<>> /\ "event" \in DOMAIN Head(stream)
    /\ LET e == Head(stream).event
           c == IF client.replaying THEN [client EXCEPT !.held = TRUE, !.restored = 0]
                ELSE client
           buffered == [c EXCEPT !.events = @ \cup {e}]
       IN IF e <= c.cursor
          THEN /\ client' = c
               /\ acks' = Enqueued(acks, {e})
               /\ stream' = Tail(stream)
               /\ UNCHANGED <<view, posts, link, disruptions>>
          ELSE IF Fenced(c) \/ e # c.cursor + 1
          THEN IF Overflows(buffered.events)
               THEN /\ client' = Down([c EXCEPT !.events = {}, !.held = FALSE,
                                          !.offer = NULL, !.restored = 0])
                    /\ Disconnect
                    /\ UNCHANGED <<view, disruptions>>
               ELSE /\ client' = buffered
                    /\ stream' = Tail(stream)
                    /\ UNCHANGED <<acks, view, posts, link, disruptions>>
          ELSE Drain(buffered, view, acks, posts, Tail(stream))
    /\ UNCHANGED <<durable, opens>>

\* A snapshot is offered: its transcript is read, on screen or in background.
ReceiveOffer ==
    /\ stream # <<>> /\ "id" \in DOMAIN Head(stream)
    /\ LET o == Head(stream)
       IN /\ client' = [client EXCEPT !.replaying = FALSE, !.held = FALSE, !.restored = 0,
                           !.overtaken = IF o.cursor < client.cursor
                                         THEN Larger(@, client.cursor) ELSE @,
                           !.offer = [cursor |-> o.cursor, id |-> o.id, acked |-> FALSE,
                                      installed |-> 0]]
          /\ acks' = IF acks = NULL THEN NULL
                     ELSE [acks EXCEPT !.superseded = Larger(@, o.cursor),
                                       !.highest = Larger(@, o.cursor),
                                       !.pending = {e \in @ : e > o.cursor}]
          /\ view' = IF view.open
                     THEN [view EXCEPT !.read = ReadOf("bounded", o.cursor, o.id),
                                       !.background = NULL, !.error = FALSE]
                     ELSE [view EXCEPT !.background = [cursor |-> o.cursor, id |-> o.id]]
    /\ stream' = Tail(stream)
    /\ UNCHANGED <<posts, link, durable, opens, disruptions>>

-----------------------------------------------------------------------------
(* Transcript reads.                                                       *)

Prefix(n) == [i \in 1..n |-> i]

\* The durable prefix, then what was shown since the read began.
Installed(n, live) == Prefix(n) \o Ascending({e \in live : e > n})

\* acknowledgeSnapshot for the exact offer, once.
Matching(c, id) == c.up /\ c.offer # NULL /\ c.offer.id = id
Acknowledged(c, id) ==
    IF Matching(c, id) THEN [c EXCEPT !.offer.acked = TRUE] ELSE c
WithAcknowledgement(p, c, id) ==
    IF ~Matching(c, id) \/ c.offer.acked THEN p
    ELSE [p EXCEPT !.snapshots =
             @ \cup {[cursor |-> c.offer.cursor, id |-> id, answer |-> "none"]}]

\* The server reads the whole transcript ...
ReadAnswered ==
    /\ view.read # NULL
    /\ view.read.kind # "bounded" /\ view.read.cursor = NULL
    /\ view' = [view EXCEPT !.read.cursor = durable]
    /\ UNCHANGED <<client, acks, stream, posts, link, durable, opens, disruptions>>

\* ... and the client installs it.  An opening then asks the server to continue
\* from there.
ReadInstalls ==
    /\ view.read # NULL
    /\ view.read.kind # "bounded" /\ view.read.cursor # NULL
    /\ LET n == view.read.cursor
           shown == [view EXCEPT !.rendered = Installed(n, view.read.live), !.read = NULL]
           switch == Queued("switch", IF Fenced(client) THEN NULL ELSE n)
       IN Commit(client, shown, acks, n,
                 IF view.read.kind = "open" /\ client.connected
                 THEN WithControl(posts, switch) ELSE posts)
    /\ UNCHANGED <<durable, opens>>

\* The transcript up to the offer is installed and the offer acknowledged.
BoundedInstalls ==
    /\ view.read # NULL
    /\ view.read.kind = "bounded"
    /\ LET n == view.read.through
           shown == [view EXCEPT !.rendered = Installed(n, view.read.live), !.read = NULL]
       IN Commit(Acknowledged(client, view.read.id), shown, acks, n,
                 WithAcknowledgement(posts, client, view.read.id))
    /\ UNCHANGED <<durable, opens>>

\* The same for a conversation not on screen when it was offered.  If it is by
\* now, this prefix replaces what any other read has shown or will show.
BackgroundInstalls ==
    /\ view.background # NULL
    /\ LET k == view.background
           done == [view EXCEPT !.background = NULL]
           shown == IF view.open THEN [done EXCEPT !.rendered = Prefix(k.cursor), !.read = NULL]
                    ELSE done
       IN Commit(Acknowledged(client, k.id), shown, acks, k.cursor,
                 WithAcknowledgement(posts, client, k.id))
    /\ UNCHANGED <<durable, opens>>

\* Only the failure of a read in the background replaces the connection.
ReadFails ==
    /\ Disrupt
    /\ \/ /\ view.read # NULL
          /\ view' = [view EXCEPT !.read = NULL, !.error = view.read.kind # "refresh" \/ @]
          /\ UNCHANGED <<client, acks, stream, posts, link>>
       \/ /\ view.background # NULL
          /\ view' = [view EXCEPT !.background = NULL]
          /\ client' = Down(client)
          /\ Disconnect
    /\ UNCHANGED <<durable, opens>>

-----------------------------------------------------------------------------
(* Acknowledgements.                                                       *)

\* An accepted acknowledgement of everything up to n.  If that was the end of a
\* full batch, the next one follows.
AcceptUpTo(n) ==
    IF link.boundary # 0 /\ n >= link.boundary
    THEN LET moved == [link EXCEPT !.cursor = n, !.boundary = 0]
         IN /\ link' = Retried(moved, n, durable)
            /\ stream' = stream \o EventsFrom(n, Missed(moved, n, durable))
    ELSE /\ link' = [link EXCEPT !.cursor = n]
         /\ UNCHANGED stream

Acknowledging == link.applied /\ link.watched /\ link.offer = NULL

\* The events of a batch after the cursor are exactly the next ones.
NothingSkipped(cursor, batch) ==
    \A e \in batch : e > cursor => \A d \in (cursor + 1)..e : d \in batch

\* ackAppliedEvents
HandleAck ==
    /\ acks # NULL
    /\ acks.batch # {} /\ acks.answer = "none"
    /\ LET last == Max(acks.batch)
       IN IF Acknowledging /\ NothingSkipped(link.cursor, acks.batch)
          THEN /\ acks' = [acks EXCEPT !.answer = "applied"]
               /\ IF last > link.cursor THEN AcceptUpTo(last) ELSE UNCHANGED <<link, stream>>
          ELSE /\ acks' = [acks EXCEPT !.answer = "refused"]
               /\ UNCHANGED <<link, stream>>
    /\ UNCHANGED <<client, view, posts, durable, opens, disruptions>>

\* A refusal replaces the connection unless a snapshot has made it irrelevant.
AckReturns ==
    /\ acks # NULL
    /\ acks.batch # {} /\ acks.answer # "none"
    /\ IF acks.answer = "refused" /\ \E e \in acks.batch : e > acks.superseded
       THEN /\ client' = Down(client)
            /\ view' = [view EXCEPT !.background = NULL]
            /\ Disconnect
       ELSE /\ acks' = Flushed([acks EXCEPT !.batch = {}])
            /\ UNCHANGED <<client, view, stream, posts, link>>
    /\ UNCHANGED <<durable, opens, disruptions>>

\* ackAppliedEvent for a committed transcript; its answer is not looked at.
HandleSingle ==
    /\ posts.singles # <<>>
    /\ posts' = [posts EXCEPT !.singles = Tail(@)]
    /\ LET n == Head(posts.singles)
       IN IF Acknowledging /\ n = link.cursor + 1 THEN AcceptUpTo(n)
          ELSE UNCHANGED <<link, stream>>
    /\ UNCHANGED <<clientVars, durable, opens, disruptions>>

\* ackAppliedSnapshot: the fence is lifted and the events behind it follow.
HandleSnapshotAck(s) ==
    /\ s \in posts.snapshots /\ s.answer = "none"
    /\ IF link.applied /\ link.offer = [cursor |-> s.cursor, id |-> s.id]
       THEN LET moved == [link EXCEPT !.cursor = s.cursor, !.forwarded = s.cursor, !.offer = NULL]
            IN /\ link' = Retried(moved, s.cursor, durable)
               /\ stream' = stream \o EventsFrom(s.cursor, Missed(moved, s.cursor, durable))
               /\ posts' = [posts EXCEPT !.snapshots =
                                (@ \ {s}) \cup {[s EXCEPT !.answer = "applied"]}]
       ELSE /\ posts' = [posts EXCEPT !.snapshots =
                             (@ \ {s}) \cup {[s EXCEPT !.answer = "refused"]}]
            /\ UNCHANGED <<link, stream>>
    /\ UNCHANGED <<clientVars, durable, opens, disruptions>>

\* Fault: what was installed beyond the offer is forgotten.
ConfirmedForgetting(c) ==
    [c EXCEPT !.restored = 0, !.offer = NULL, !.cursor = c.offer.cursor,
              !.events = {e \in @ : e > c.offer.cursor}]

\* confirmSnapshot: events the screen already covers are applied without being
\* shown again.
Confirmed(c) ==
    [c EXCEPT !.restored = IF c.offer.installed > c.offer.cursor THEN c.offer.installed ELSE 0,
              !.offer = NULL, !.cursor = c.offer.cursor,
              !.events = {e \in @ : e > c.offer.cursor}]

SnapshotAckReturns(s) ==
    /\ s \in posts.snapshots /\ s.answer # "none"
    /\ LET left == [posts EXCEPT !.snapshots = @ \ {s}]
       IN IF ~Matching(client, s.id)
          THEN /\ posts' = left
               /\ UNCHANGED <<clientVars, stream, link, disruptions>>
          ELSE IF s.answer = "applied"
          THEN Drain(Confirmed(client), view, acks, left, stream)
          ELSE /\ client' = Down(client)
               /\ view' = [view EXCEPT !.background = NULL]
               /\ Disconnect
               /\ UNCHANGED disruptions
    /\ UNCHANGED <<durable, opens>>

-----------------------------------------------------------------------------
(* The gap timer and the specification.                                    *)

Armed == client.up /\ (Fenced(client) \/ client.events # {})

\* Nothing is on its way: the time-outs are long compared with the network.
Quiet ==
    /\ stream = <<>> /\ posts = NoPosts
    /\ acks # NULL => acks.batch = {}
    /\ view.read = NULL /\ view.background = NULL

GapTimer ==
    /\ Armed
    /\ \/ Quiet /\ UNCHANGED disruptions
       \/ ~Quiet /\ Disrupt
    /\ client' = Down(client)
    /\ view' = [view EXCEPT !.background = NULL]
    /\ Disconnect
    /\ UNCHANGED <<durable, opens>>

EventInit ==
    /\ client = [up |-> TRUE, connected |-> TRUE, replaying |-> FALSE, dirty |-> FALSE,
                 tracked |-> FALSE, cursor |-> 0, events |-> {}, held |-> FALSE,
                 offer |-> NULL, restored |-> 0, overtaken |-> 0]
    /\ acks = NULL
    /\ view = [open |-> FALSE, rendered |-> NULL, read |-> NULL, background |-> NULL,
               error |-> FALSE]
    /\ stream = <<>> /\ posts = NoPosts /\ link = NoLink
    /\ durable = 0 /\ opens = 0 /\ disruptions = 0

\* The queue of control requests, the event stream, the transcript reads and the
\* acknowledgements, each with its two ends.
ControlStep == SendControl \/ HandleReplay \/ HandleSwitch \/ ReplayReturns
StreamStep == ReceiveEvent \/ ReceiveOffer
ReadStep == ReadAnswered \/ ReadInstalls \/ BoundedInstalls \/ BackgroundInstalls
AckStep ==
    \/ HandleAck \/ AckReturns \/ HandleSingle
    \/ \E s \in posts.snapshots : HandleSnapshotAck(s) \/ SnapshotAckReturns(s)

Environment ==
    \/ Open \/ Leave \/ Refresh \/ Resume
    \/ \E live \in BOOLEAN : AppendEvent(live)
    \/ LinkDrops \/ SwitchFails \/ ReadFails

EventNext ==
    \/ Welcome \/ ControlStep \/ StreamStep \/ ReadStep \/ AckStep
    \/ Environment \/ PeriodicSync \/ GapTimer

EventSpec == EventInit /\ [][EventNext]_eventVars

\* Each channel moves, and the timers fire; users, faults and the conversation
\* need not do anything.  The gap timer runs on while other traffic comes and
\* goes: strong fairness.
EventFairness ==
    /\ WF_eventVars(Welcome) /\ WF_eventVars(ControlStep) /\ WF_eventVars(StreamStep)
    /\ WF_eventVars(ReadStep) /\ WF_eventVars(AckStep)
    /\ WF_eventVars(PeriodicSync) /\ SF_eventVars(GapTimer)

FairEventSpec == EventSpec /\ EventFairness

-----------------------------------------------------------------------------
(* Properties.                                                             *)

\* What is on screen is a gapless prefix of the session, each event once,
\* whatever the transcripts and the stream brought in which order.
RenderedInOrder ==
    view.rendered # NULL => view.rendered = Prefix(Len(view.rendered))

\* The cursor that the client would advertise on a reconnect never claims an
\* event the screen does not show, nor lags behind it, unless a snapshot that is
\* requested or pending will reset it.
Settled ==
    /\ view.rendered # NULL /\ view.read = NULL
    /\ client.connected /\ ~client.replaying /\ ~Fenced(client)
CursorIsShown ==
    Settled => Len(view.rendered) = Larger(client.cursor, client.restored)

\* What the client has applied since it connected.  An offer that a newer
\* transcript has overtaken takes its cursor back.
Applied(c) == Larger(c.cursor, c.overtaken)

\* The server never stops retrying an event that was not applied: its cursor
\* covers only what the client has applied, or the transcript of an offer that the
\* client has acknowledged and whose confirmation is on its way.  The client's own
\* cursor falls behind the server's in one case only, an offer that arrives after
\* a newer transcript is installed.
NothingGivenUp ==
    link.applied =>
        \/ link.cursor <= Applied(client)
        \/ /\ client.offer # NULL /\ client.offer.acked
           /\ link.cursor <= client.offer.cursor

\* An event that the server retries because it does not know it applied is
\* acknowledged again, until it knows or the connection is replaced
\* (applied-delivery.ts:213-214, applied-delivery.test.ts:242).
ReassertedApplication ==
    \A e \in Events :
        /\ client.up /\ e <= client.cursor
        /\ link.applied /\ link.offer = NULL /\ link.cursor < e
        /\ \E i \in DOMAIN stream : stream[i] = [event |-> e]
        ~> ~client.up \/ link.offer # NULL \/ link.cursor >= e

\* The overtaken offer has taken the cursor behind what the server takes for
\* applied (applied-delivery.ts:212).
GivenUp == client.cursor < link.cursor /\ link.cursor <= client.overtaken

\* The events that the server retries are never acknowledged again: those already
\* acknowledged to a connection that a switch has reset (ReassertedApplication).
Unacknowledged ==
    /\ acks # NULL /\ acks.pending = {} /\ acks.batch = {}
    /\ link.cursor < client.cursor /\ client.cursor <= acks.highest

\* When nothing new happens, a client with the conversation open ends up showing
\* all of it, or tells the user that something failed, or is stuck in one of the
\* two ways above until the next event or reconnect.
CaughtUp ==
    view.open => /\ client.up /\ client.cursor = durable
                 /\ view.rendered # NULL /\ Len(view.rendered) = durable
CatchesUp == <>[](CaughtUp \/ view.error \/ GivenUp \/ Unacknowledged)

=============================================================================
