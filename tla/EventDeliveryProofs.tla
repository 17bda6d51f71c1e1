------------------------ MODULE EventDeliveryProofs -------------------------
(***************************************************************************)
(* The events of a session reach the screen in order, for every number of  *)
(* events, openings and faults and every size of batch and buffer.         *)
(*                                                                         *)
(* The inductive invariant EInv relates the two cursors with all that may  *)
(* still move them.  Its parts are operators of the values they relate:    *)
(* an action that drains the buffer or commits a transcript passes through *)
(* values that no state holds, and a lemma is stated of those.             *)
(***************************************************************************)
EXTENDS EventDelivery, Extrema, FiniteSetTheorems, SequenceTheorems

IsOffer(m) == "id" \in DOMAIN m
Level(m) == IF IsOffer(m) THEN m.cursor ELSE m.event

\* The events that the screen shows of a client that is not fenced.
Covered(c) == Larger(c.cursor, c.restored)

\* The client, and the transcripts asked for, have nothing beyond x.
ClientWithin(c, x) ==
    /\ c.cursor <= x /\ c.restored <= x /\ c.overtaken <= x
    /\ \A e \in c.events : e <= x
    /\ c.offer # NULL => c.offer.cursor <= x /\ c.offer.installed <= x
ReadsWithin(v, x) ==
    /\ v.read # NULL => v.read.through <= x
    /\ v.background # NULL => v.background.cursor <= x
ReadWithin(v, x) ==
    v.read # NULL =>
        /\ v.read.cursor # NULL => v.read.cursor <= x
        /\ \A e \in v.read.live : e <= x

\* The transcript of an open conversation is restored by an offer to come: no
\* event is applied until then.
Restoring(c) == (~c.up \/ c.replaying) /\ (c.held \/ c.events = {})

\* What was shown since a read began continues its transcript up to the cursor.
TranscriptSays(c, v) ==
    v.read # NULL =>
        /\ v.read.kind # "bounded" /\ v.read.cursor # NULL =>
             /\ \A e \in Events : e > v.read.cursor =>
                    (e \in v.read.live <=> e <= c.cursor)
             /\ c.restored <= v.read.cursor
             /\ c.offer # NULL => /\ c.cursor <= v.read.cursor
                                  /\ c.offer.cursor <= v.read.cursor
                                  /\ c.offer.installed <= v.read.cursor
        /\ v.read.kind = "bounded" =>
             /\ v.background = NULL /\ v.read.live = {}
             /\ c.offer = NULL => Restoring(c)
             /\ c.offer # NULL => /\ ~c.offer.acked /\ c.offer.installed = 0
                                  /\ c.offer.cursor = v.read.through

OfferSays(c, v) ==
    c.offer # NULL =>
        /\ c.cursor <= Larger(c.offer.cursor, c.overtaken)
        /\ c.offer.acked /\ v.rendered # NULL =>
               Len(v.rendered) = Larger(c.offer.cursor, c.offer.installed)

ScreenSays(c, v) ==
    c.up /\ ~c.replaying /\ ~Fenced(c) /\ v.rendered # NULL =>
        Len(v.rendered) = Covered(c)

InOrder(v) == v.rendered # NULL => v.rendered = Prefix(Len(v.rendered))

ClosedSays(c, v) ==
    /\ ~v.open => v.rendered = NULL /\ v.read = NULL
    /\ ~c.tracked => ~v.open

BackgroundSays(c, v) ==
    v.background # NULL =>
        \/ /\ c.offer # NULL /\ ~c.offer.acked
           /\ c.offer.cursor = v.background.cursor
        \/ ~Fenced(c) /\ c.events = {} /\ ~c.up

\* The client and its screen, of d durable events.
ScreenOK(c, v, d) ==
    /\ c \in Client /\ v \in View
    /\ ClientWithin(c, d) /\ ReadsWithin(v, d) /\ ReadWithin(v, d)
    /\ TranscriptSays(c, v) /\ OfferSays(c, v) /\ ScreenSays(c, v)
    /\ InOrder(v) /\ ClosedSays(c, v) /\ BackgroundSays(c, v)

BufferOK(c) == Cardinality(c.events) <= BufferCap

\* Only what was applied is acknowledged.
AcksOK(c, a) ==
    a # NULL =>
        /\ a \in Acks
        /\ a.batch \cap a.pending = {}
        /\ \A e \in a.batch \cup a.pending : e <= Applied(c) /\ e <= a.highest

\* An offer on its way is newer than all that is known of by then.
OfferAhead(o, c, p, l) ==
    /\ o.id <= l.offers
    /\ c.offer # NULL => c.offer.id < o.id
    /\ \A s \in p.snapshots : s.id < o.id
    /\ l.applied /\ l.cursor <= Applied(c)
StreamWithin(s, d) == \A i \in DOMAIN s : Level(s[i]) <= d
OffersInOrder(s) ==
    \A i, j \in DOMAIN s : IsOffer(s[i]) /\ IsOffer(s[j]) /\ j < i => s[j].id < s[i].id
StreamOK(c, s, p, l, d) ==
    /\ s \in Seq(Message)
    /\ StreamWithin(s, d)
    /\ OffersInOrder(s)
    /\ \A i \in DOMAIN s : IsOffer(s[i]) => OfferAhead(s[i], c, p, l)

ControlSays(c, p) ==
    /\ \A i \in DOMAIN p.control :
         /\ p.control[i].cursor # NULL => p.control[i].cursor <= Applied(c)
         /\ p.control[i].kind = "replay" => p.control[i].cursor # NULL
    /\ \A i, j \in DOMAIN p.control :
         p.control[i].kind = "replay" /\ p.control[j].kind = "replay" => i = j
SinglesSay(c, p) == \A i \in DOMAIN p.singles : p.singles[i] <= Applied(c)

\* An acknowledgement that the server would accept is of the offer the client
\* still waits for.
SnapshotsSay(c, p, l) ==
    /\ \A s, t \in p.snapshots : s.id = t.id => s = t
    /\ \A s \in p.snapshots :
         /\ s.id <= l.offers
         /\ s.answer = "none" =>
              \/ s.id < l.offers
              \/ /\ c.offer # NULL /\ c.offer.acked
                 /\ c.offer.id = s.id /\ c.offer.cursor = s.cursor
    /\ c.up /\ c.offer # NULL =>
         /\ c.offer.id <= l.offers
         /\ ~c.offer.acked => \A s \in p.snapshots : s.id # c.offer.id
RequestsOK(c, p, l) ==
    /\ p \in Posts
    /\ ControlSays(c, p) /\ SinglesSay(c, p) /\ SnapshotsSay(c, p, l)

Kept(c, l) ==
    l.applied =>
        \/ l.cursor <= Applied(c)
        \/ c.offer # NULL /\ c.offer.acked /\ l.cursor <= c.offer.cursor
LinkOK(c, l, d) ==
    /\ l \in Link
    /\ l.applied => l.watched
    /\ l.offer # NULL => l.offer.id = l.offers
    /\ l.cursor <= d /\ l.forwarded <= d
    /\ Kept(c, l)

DownOK(c, a, s, p, l) ==
    ~c.up => /\ s = <<>> /\ p = NoPosts /\ a = NULL /\ l = NoLink
             /\ ~c.connected

\* Each offer is of a replay that the welcome or a disruption asked for.
ReplaysLeft(p) ==
    IF \E i \in DOMAIN p.control : p.control[i].kind = "replay" /\ p.control[i].step # "done"
    THEN 1 ELSE 0
CountOK(c, p, l, n) ==
    /\ n \in 0..MaxDisruptions
    /\ c.up => l.offers + ReplaysLeft(p) + (IF c.dirty THEN 1 ELSE 0) <= 1 + n

EInv ==
    /\ durable \in Seqs
    /\ ScreenOK(client, view, durable)
    /\ BufferOK(client)
    /\ AcksOK(client, acks)
    /\ StreamOK(client, stream, posts, link, durable)
    /\ RequestsOK(client, posts, link)
    /\ LinkOK(client, link, durable)
    /\ DownOK(client, acks, stream, posts, link)
    /\ CountOK(client, posts, link, disruptions)

-----------------------------------------------------------------------------
(* Prefixes, runs of events and messages.                                  *)

\* The prefix up to n has n events.
LEMMA PrefixIs ==
    ASSUME NEW n \in Seqs
    PROVE  /\ Prefix(n) \in Seq(Events) /\ Len(Prefix(n)) = n
           /\ DOMAIN Prefix(n) = 1..n
           /\ \A i \in 1..n : Prefix(n)[i] = i
<1>1. n \in Nat /\ n <= MaxEvents
  BY EventBoundAssumption DEF Seqs
<1>2. \A i \in 1..n : i \in Events
  BY <1>1, EventBoundAssumption DEF Events
<1>3. [i \in 1..n |-> i] \in Seq(Events) /\ Len([i \in 1..n |-> i]) = n
  BY <1>1, <1>2
<1> QED BY <1>1, <1>3 DEF Prefix

\* A run of events in order counts on from where it starts.
LEMMA AscendingRun ==
    ASSUME NEW a \in Nat, NEW b \in Nat, a <= b, NEW S, S = (a + 1)..b
    PROVE  Ascending(S) = [i \in 1..(b - a) |-> a + i]
<1>1. Cardinality(S) = b - a
  <2>1. a + 1 \in Int /\ b \in Int
    OBVIOUS
  <2>2. Cardinality((a + 1)..b) = IF a + 1 > b THEN 0 ELSE b - (a + 1) + 1
    BY <2>1, FS_Interval
  <2> QED BY <2>2
<1>2. ASSUME NEW e \in S PROVE Cardinality({x \in S : x <= e}) = e - a
  <2>1. e \in Int /\ a + 1 <= e /\ e <= b
    OBVIOUS
  <2>2. {x \in S : x <= e} = (a + 1)..e
    BY <2>1
  <2>3. Cardinality((a + 1)..e) = e - a
    BY <2>1, FS_Interval
  <2> QED BY <2>2, <2>3
<1>3. ASSUME NEW i \in 1..(b - a)
      PROVE  (CHOOSE e \in S : Cardinality({x \in S : x <= e}) = i) = a + i
  <2>1. a + i \in S
    OBVIOUS
  <2>2. Cardinality({x \in S : x <= a + i}) = i
    BY <1>2, <2>1
  <2>3. \A e \in S : Cardinality({x \in S : x <= e}) = i => e = a + i
    BY <1>2
  <2> QED BY <2>1, <2>2, <2>3
<1> QED BY <1>1, <1>3 DEF Ascending

\* Nothing in order is nothing.
LEMMA AscendingNothing == Ascending({}) = <<>>
<1>1. Cardinality({}) = 0
  BY FS_EmptySet
<1> QED BY <1>1 DEF Ascending

\* A prefix and the run that follows it are the longer prefix.
LEMMA PrefixGrows ==
    ASSUME NEW m \in Seqs, NEW n \in Seqs, m <= n, NEW S, S = (m + 1)..n
    PROVE  Prefix(m) \o Ascending(S) = Prefix(n)
<1>1. m \in Nat /\ n \in Nat /\ n <= MaxEvents
  BY EventBoundAssumption DEF Seqs
<1> DEFINE tail == [i \in 1..(n - m) |-> m + i]
<1>2. Ascending(S) = tail
  BY <1>1, AscendingRun
<1>3. tail \in Seq(Nat) /\ Len(tail) = n - m
  BY <1>1
<1>4. /\ Prefix(m) \in Seq(Nat) /\ Len(Prefix(m)) = m
      /\ Prefix(n) \in Seq(Nat) /\ Len(Prefix(n)) = n
      /\ \A i \in 1..m : Prefix(m)[i] = i
      /\ \A i \in 1..n : Prefix(n)[i] = i
  <2>1. Events \subseteq Nat
    BY EventBoundAssumption DEF Events
  <2> QED BY <2>1, PrefixIs
<1>5. /\ Prefix(m) \o tail \in Seq(Nat)
      /\ Len(Prefix(m) \o tail) = n
      /\ \A i \in 1..n : (Prefix(m) \o tail)[i] = i
  <2> DEFINE t == Prefix(m) \o tail
  <2> HIDE DEF tail
  <2>1. /\ t \in Seq(Nat) /\ Len(t) = Len(Prefix(m)) + Len(tail)
        /\ \A i \in 1..Len(t) : t[i] = IF i <= Len(Prefix(m)) THEN Prefix(m)[i]
                                      ELSE tail[i - Len(Prefix(m))]
    BY <1>3, <1>4, ConcatProperties, Zenon
  <2>2. Len(t) = n
    BY <1>1, <1>3, <1>4, <2>1
  <2>3. \A i \in 1..(n - m) : tail[i] = m + i
    BY DEF tail
  <2>4. ASSUME NEW i \in 1..n PROVE t[i] = i
    <3>1. CASE i <= m
      BY <1>1, <1>4, <2>1, <2>2, <3>1
    <3>2. CASE ~(i <= m)
      <4>1. i - m \in 1..(n - m)
        BY <1>1, <3>2
      <4>2. t[i] = tail[i - m]
        BY <1>1, <1>4, <2>1, <2>2, <3>2
      <4> QED BY <1>1, <2>3, <4>1, <4>2
    <3> QED BY <3>1, <3>2
  <2> QED BY <2>1, <2>2, <2>4
<1> HIDE DEF tail
<1>6. Prefix(m) \o tail = Prefix(n)
  BY <1>4, <1>5, SeqEqual
<1> QED BY <1>2, <1>6

\* A message is an event or an offer.
LEMMA MessageIs ==
    ASSUME NEW m \in Message
    PROVE  /\ "id" \in DOMAIN m <=> IsOffer(m)
           /\ "event" \in DOMAIN m <=> ~IsOffer(m)
           /\ IsOffer(m) => /\ m.cursor \in Seqs /\ m.id \in OfferIds /\ Level(m) = m.cursor
                            /\ m = [cursor |-> m.cursor, id |-> m.id]
           /\ ~IsOffer(m) => /\ m.event \in Events /\ Level(m) = m.event
                             /\ m = [event |-> m.event]
<1>1. CASE m \in [event : Events]
  BY <1>1 DEF IsOffer, Level
<1>2. CASE m \in [cursor : Seqs, id : OfferIds]
  BY <1>2 DEF IsOffer, Level
<1> QED BY <1>1, <1>2 DEF Message

LEMMA EventIs ==
    ASSUME NEW e \in Events
    PROVE  /\ [event |-> e] \in Message /\ ~IsOffer([event |-> e])
           /\ Level([event |-> e]) = e
  BY DEF Message, IsOffer, Level

LEMMA OfferIs ==
    ASSUME NEW n \in Seqs, NEW id \in OfferIds, NEW o, o = [cursor |-> n, id |-> id]
    PROVE  o \in Message /\ IsOffer(o) /\ Level(o) = n /\ o.cursor = n /\ o.id = id
  BY DEF Message, IsOffer, Level

-----------------------------------------------------------------------------
(* AppliedDelivery: the buffer is drained.                                 *)

\* The bounds are numbers; a cursor is one of them.
LEMMA SeqsAre ==
    /\ MaxEvents \in Nat /\ Batch \in Nat /\ Batch > 0 /\ BufferCap \in Nat
    /\ \A n : n \in Seqs <=> n \in Int /\ 0 <= n /\ n <= MaxEvents
    /\ \A e : e \in Events <=> e \in Int /\ 1 <= e /\ e <= MaxEvents
    /\ Events \subseteq Seqs /\ Seqs \subseteq Nat /\ NULL \notin Seqs /\ NULL \notin Events
  BY EventBoundAssumption, EventNullAssumption DEF Seqs, Events

\* What a client is made of.
LEMMA ClientIs ==
    ASSUME NEW c \in Client
    PROVE  /\ c.up \in BOOLEAN /\ c.connected \in BOOLEAN /\ c.replaying \in BOOLEAN
           /\ c.dirty \in BOOLEAN /\ c.tracked \in BOOLEAN /\ c.held \in BOOLEAN
           /\ c.cursor \in Seqs /\ c.restored \in Seqs /\ c.overtaken \in Seqs
           /\ c.events \subseteq Events /\ IsFiniteSet(c.events)
           /\ c.offer # NULL => /\ c.offer \in SnapshotOffer /\ c.offer.cursor \in Seqs /\ c.offer.installed \in Seqs
                                /\ c.offer.id \in OfferIds /\ c.offer.acked \in BOOLEAN
<1>1. IsFiniteSet(Events)
  BY EventBoundAssumption, FS_Interval DEF Events
<1>2. c.events \subseteq Events
  BY DEF Client
<1>3. IsFiniteSet(c.events)
  BY <1>1, <1>2, FS_Subset
<1> QED BY <1>2, <1>3 DEF Client, SnapshotOffer

\* The buffer leads on from the cursor without a gap, unless the client is fenced.
LEMMA ReachIs ==
    ASSUME NEW c \in Client
    PROVE  /\ Reach(c) \in Seqs /\ c.cursor <= Reach(c)
           /\ (c.cursor + 1)..Reach(c) \subseteq c.events
           /\ Fenced(c) \/ c.events = {} => Reach(c) = c.cursor
           /\ ~Fenced(c) /\ c.cursor + 1 \in c.events => c.cursor + 1 <= Reach(c)
<1>1. /\ c.cursor \in Nat /\ c.cursor <= MaxEvents /\ MaxEvents \in Nat
      /\ \A e \in c.events : e \in Nat /\ e <= MaxEvents
  BY ClientIs, SeqsAre
<1>2. CASE Fenced(c)
  <2>1. Reach(c) = c.cursor
    BY <1>2 DEF Reach
  <2> QED BY <1>1, <1>2, <2>1, SeqsAre
<1>3. CASE ~Fenced(c)
  <2> DEFINE gaps == {n \in c.cursor..MaxEvents : n + 1 \notin c.events}
             Leads(n) == (c.cursor + 1)..n \subseteq c.events /\ n + 1 \notin c.events
  <2>1. gaps \in SUBSET Nat /\ MaxEvents \in gaps
    BY <1>1
  <2> DEFINE g == Min(gaps)
  <2>2. g \in gaps /\ \A y \in gaps : g <= y
    BY <2>1, MinBelongs
  <2> HIDE DEF g
  <2>3. g \in c.cursor..MaxEvents /\ g + 1 \notin c.events
    BY <2>2
  <2>4. ASSUME NEW e \in (c.cursor + 1)..g PROVE e \in c.events
    <3>1. e - 1 \in c.cursor..MaxEvents /\ ~(g <= e - 1) /\ (e - 1) + 1 = e
      BY <1>1, <2>3
    <3>2. e - 1 \notin gaps
      BY <2>2, <3>1
    <3> QED BY <3>1, <3>2
  <2>5. Leads(g)
    BY <2>3, <2>4
  <2>6. Reach(c) = CHOOSE n \in c.cursor..MaxEvents : Leads(n)
    BY <1>3 DEF Reach
  <2>7. Reach(c) \in c.cursor..MaxEvents /\ Leads(Reach(c))
    BY <2>3, <2>5, <2>6
  <2>8. c.events = {} => Reach(c) = c.cursor
    <3> SUFFICES ASSUME c.events = {}, Reach(c) # c.cursor PROVE FALSE
      OBVIOUS
    <3>1. Reach(c) \in (c.cursor + 1)..Reach(c)
      BY <1>1, <2>7
    <3> QED BY <2>7, <3>1
  <2>9. c.cursor + 1 \in c.events => c.cursor + 1 <= Reach(c)
    BY <1>1, <2>7
  <2> QED BY <1>1, <1>3, <2>7, <2>8, <2>9, SeqsAre
<1> QED BY <1>2, <1>3

\* The fields of an advanced client.
LEMMA AdvancedIs ==
    ASSUME NEW c \in Client, NEW n \in Seqs, NEW k, k = Advanced(c, n)
    PROVE  /\ k \in Client
           /\ k.cursor = n /\ k.events = {e \in c.events : e > n}
           /\ k.restored = (IF n >= c.restored THEN 0 ELSE c.restored)
           /\ k.up = c.up /\ k.connected = c.connected /\ k.replaying = c.replaying
           /\ k.dirty = c.dirty /\ k.tracked = c.tracked /\ k.held = c.held
           /\ k.offer = c.offer /\ k.overtaken = c.overtaken
           /\ Fenced(k) = Fenced(c)
<1>1. 0 \in Seqs
  BY SeqsAre
<1> QED BY <1>1 DEF Advanced, Client, Fenced

LEMMA LargerIs ==
    ASSUME NEW a \in Int, NEW b \in Int
    PROVE  /\ Larger(a, b) \in {a, b} /\ Larger(a, b) >= a /\ Larger(a, b) >= b
           /\ a >= b => Larger(a, b) = a
           /\ b >= a => Larger(a, b) = b
  BY DEF Larger

\* What was applied is covered by the two cursors it is known from.
LEMMA AppliedIs ==
    ASSUME NEW c \in Client
    PROVE  /\ Applied(c) \in Seqs /\ c.cursor <= Applied(c) /\ c.overtaken <= Applied(c)
           /\ Applied(c) \in {c.cursor, c.overtaken}
<1>1. c.cursor \in Seqs /\ c.overtaken \in Seqs /\ c.cursor \in Int /\ c.overtaken \in Int
  BY ClientIs, SeqsAre
<1> QED BY <1>1, LargerIs DEF Applied

\* What was applied remains so while the client's cursor does not go back.
LEMMA AppliedKeeps ==
    ASSUME NEW c \in Client, NEW k \in Client, c.cursor <= k.cursor,
           k.overtaken = c.overtaken
    PROVE  Applied(c) <= Applied(k)
<1>1. /\ c.cursor \in Int /\ k.cursor \in Int /\ c.overtaken \in Int
      /\ Applied(c) \in Int /\ Applied(k) \in Int
  BY ClientIs, AppliedIs, SeqsAre
<1> QED BY <1>1, AppliedIs

\* What an advance gives to the store continues what the screen covers.
LEMMA DeliveredIs ==
    ASSUME NEW c \in Client, NEW n \in Seqs, c.cursor <= n, n <= Reach(c),
           NEW m, m = Covered(c), NEW b, b = Delivered(c, n)
    PROVE  /\ m \in Seqs /\ b \in Seq(Events)
           /\ {b[i] : i \in DOMAIN b} = {e \in Events : m < e /\ e <= n}
           /\ ~(m < n) => b = <<>>
           /\ m < n => Prefix(m) \o b = Prefix(n)
           /\ Fenced(c) => ~(m < n)
<1>1. /\ c.cursor \in Seqs /\ c.restored \in Seqs /\ c.events \subseteq Events
      /\ Reach(c) \in Seqs /\ (c.cursor + 1)..Reach(c) \subseteq c.events
      /\ Fenced(c) => Reach(c) = c.cursor
  BY ClientIs, ReachIs
<1>2. /\ c.cursor \in Int /\ c.restored \in Int /\ n \in Int /\ Reach(c) \in Int
  BY <1>1, SeqsAre
<1>3. m \in Seqs /\ c.cursor <= m
  BY <1>1, <1>2, LargerIs DEF Covered
<1>4. m \in Int
  BY <1>3, SeqsAre
<1> DEFINE D == {e \in c.events : m < e /\ e <= n}
<1>5. b = Ascending(D)
  BY DEF Delivered, Covered
<1>6. D = {e \in Events : m < e /\ e <= n}
  <2>1. ASSUME NEW e \in Events, m < e, e <= n PROVE e \in c.events
    <3>1. e \in (c.cursor + 1)..Reach(c)
      BY <1>2, <1>3, <1>4, <2>1, SeqsAre
    <3> QED BY <1>1, <3>1
  <2> QED BY <1>1, <2>1
<1>7. Fenced(c) => ~(m < n)
  BY <1>1, <1>2, <1>3, <1>4
<1>8. CASE ~(m < n)
  <2>1. D = {}
    BY <1>1, <1>2, <1>4, <1>8, SeqsAre
  <2>2. b = <<>>
    BY <1>5, <2>1, AscendingNothing
  <2>3. {b[i] : i \in DOMAIN b} = {}
    BY <2>2
  <2> QED BY <1>3, <1>6, <1>7, <1>8, <2>1, <2>2, <2>3
<1>9. CASE m < n
  <2>1. D = (m + 1)..n
    <3>1. \A e : e \in D <=> e \in Int /\ 1 <= e /\ e <= MaxEvents /\ m < e /\ e <= n
      BY <1>6, SeqsAre
    <3>2. 0 <= m /\ n <= MaxEvents
      BY <1>3, SeqsAre
    <3>3. \A e : e \in D <=> e \in (m + 1)..n
      BY <1>2, <1>4, <3>1, <3>2, SeqsAre
    <3> QED BY <3>3
  <2> DEFINE run == [i \in 1..(n - m) |-> m + i]
  <2> HIDE DEF D
  <2>2. b = run
    <3>1. m \in Nat /\ n \in Nat /\ m <= n
      BY <1>2, <1>3, <1>4, <1>9, SeqsAre
    <3> QED BY <1>5, <2>1, <3>1, AscendingRun
  <2>3. Prefix(m) \o b = Prefix(n)
    <3>1. m <= n
      BY <1>2, <1>4, <1>9
    <3>2. m \in Seqs
      BY <1>3
    <3>3. Prefix(m) \o Ascending(D) = Prefix(n)
      BY <2>1, <3>1, <3>2, PrefixGrows
    <3> QED BY <1>5, <3>3
  <2>4. \A i \in 1..(n - m) : m + i \in D
    BY <1>2, <1>4, <2>1
  <2>5. run \in Seq(Events)
    <3>1. n - m \in Nat
      BY <1>2, <1>4, <1>9
    <3> QED BY <2>4, <1>6, <3>1
  <2>6. {b[i] : i \in DOMAIN b} = D
    <3>1. \A e \in D : e - m \in 1..(n - m) /\ run[e - m] = e
      BY <1>2, <1>4, <2>1
    <3>2. DOMAIN b = 1..(n - m)
      BY <2>2
    <3>3. \A i \in 1..(n - m) : b[i] \in D
      BY <2>2, <2>4
    <3> QED BY <2>2, <3>1, <3>2, <3>3
  <2> HIDE DEF run
  <2> QED BY <1>3, <1>6, <1>7, <1>9, <2>2, <2>3, <2>5, <2>6
<1> QED BY <1>8, <1>9

\* What is shown is noted for a read under way, and for nothing else.
LEMMA ShownIs ==
    ASSUME NEW v \in View, NEW b \in Seq(Events), NEW w, w = Shown(v, b)
    PROVE  /\ w \in View /\ w.open = v.open /\ w.background = v.background
           /\ w.rendered = (IF ~v.open \/ v.rendered = NULL THEN v.rendered
                            ELSE v.rendered \o b)
           /\ w.read # NULL <=> v.read # NULL
           /\ v.read # NULL =>
                /\ w.read.kind = v.read.kind /\ w.read.through = v.read.through
                /\ w.read.id = v.read.id /\ w.read.cursor = v.read.cursor
                /\ w.read.live = (IF ~v.open THEN v.read.live
                                  ELSE v.read.live \cup {b[i] : i \in DOMAIN b})
<1>1. CASE ~v.open
  BY <1>1 DEF Shown
<1>2. CASE v.open
  <2> DEFINE x == {b[i] : i \in DOMAIN b}
             shown == IF v.rendered = NULL THEN NULL ELSE v.rendered \o b
             noted == IF v.read = NULL THEN NULL ELSE Noted(v.read, b)
  <2>1. w = [v EXCEPT !.rendered = shown, !.read = noted]
    <3>1. Shown(v, b) = IF ~v.open THEN v ELSE [v EXCEPT !.rendered = shown, !.read = noted]
      BY DEF Shown
    <3> HIDE DEF shown, noted
    <3> QED BY <1>2, <3>1
  <2>2. shown \in Seq(Events) \cup {NULL}
    BY ConcatProperties DEF View
  <2>3. v.read = NULL => noted = NULL
    OBVIOUS
  <2>4. v.read # NULL =>
           /\ noted \in Read /\ noted.kind = v.read.kind /\ noted.through = v.read.through
           /\ noted.id = v.read.id /\ noted.cursor = v.read.cursor
           /\ noted.live = v.read.live \cup x
    <3> SUFFICES ASSUME v.read # NULL PROVE noted \in Read /\
           noted.kind = v.read.kind /\ noted.through = v.read.through
           /\ noted.id = v.read.id /\ noted.cursor = v.read.cursor
           /\ noted.live = v.read.live \cup x
      OBVIOUS
    <3>1. PICK r \in Read : v.read = r
      BY DEF View
    <3>2. x \subseteq Events
      OBVIOUS
    <3> HIDE DEF x
    <3>3. noted = [r EXCEPT !.live = r.live \cup x]
      BY <3>1 DEF Noted, x
    <3> HIDE DEF noted
    <3> QED BY <3>1, <3>2, <3>3 DEF Read
  <2> HIDE DEF x, noted
  <2>5. v.read # NULL => noted # NULL
    BY <2>4, EventAbsentAssumption
  <2>6. noted \in Read \cup {NULL}
    BY <2>3, <2>4
  <2>7. w.rendered = shown /\ w.read = noted /\ w.open = v.open
        /\ w.background = v.background /\ w.error = v.error
    BY <2>1 DEF View
  <2> HIDE DEF shown
  <2>8. w \in View
    BY <2>1, <2>2, <2>6 DEF View
  <2> QED BY <1>2, <2>3, <2>4, <2>5, <2>7, <2>8 DEF x, shown
<1> QED BY <1>1, <1>2

\* Only one batch at a time is on its way, and its events are queued no more.
LEMMA FlushedIs ==
    ASSUME NEW a \in Acks, a.batch \cap a.pending = {}, NEW x \in Seqs,
           \A e \in a.batch \cup a.pending : e <= x /\ e <= a.highest,
           NEW b, b = Flushed(a)
    PROVE  /\ b \in Acks /\ b.batch \cap b.pending = {}
           /\ \A e \in b.batch \cup b.pending : e <= x /\ e <= b.highest
<1> DEFINE first == {e \in a.pending : Cardinality({y \in a.pending : y < e}) < Batch}
<1>1. first \subseteq a.pending
  OBVIOUS
<1>2. CASE a.batch # {}
  BY <1>2 DEF Flushed
<1>3. CASE a.batch = {}
  <2>1. b = [a EXCEPT !.pending = a.pending \ first, !.batch = first, !.answer = "none"]
    BY <1>3 DEF Flushed
  <2> HIDE DEF first
  <2>2. /\ b.pending = a.pending \ first /\ b.batch = first /\ b.answer = "none"
        /\ b.highest = a.highest /\ b.superseded = a.superseded
    BY <2>1 DEF Acks
  <2>3. a.pending \ first \subseteq Events /\ first \subseteq Events
    BY <1>1 DEF Acks
  <2>4. b \in Acks
    BY <2>1, <2>3 DEF Acks
  <2> QED BY <1>1, <2>2, <2>4
<1> QED BY <1>2, <1>3

\* The events queued for acknowledgement are those enqueued.
LEMMA EnqueuedIs ==
    ASSUME NEW c \in Client, NEW a, AcksOK(c, a),
           NEW S \in SUBSET Events, NEW x \in Seqs, Applied(c) <= x, \A e \in S : e <= x,
           NEW k \in Client, Applied(k) = x
    PROVE  AcksOK(k, Enqueued(a, S))
<1> DEFINE none == [pending |-> {}, highest |-> 0, superseded |-> 0, batch |-> {},
                    answer |-> "none"]
           old == IF a = NULL THEN none ELSE a
           new == {e \in S : e > old.highest}
<1>1. none \in Acks
  BY SeqsAre DEF Acks
<1>2. /\ old \in Acks /\ old.batch \cap old.pending = {}
      /\ \A e \in old.batch \cup old.pending : e <= x /\ e <= old.highest
  <2>1. CASE a = NULL
    BY <1>1, <2>1
  <2>2. CASE a # NULL
    <3>1. a \in Acks /\ a.batch \cap a.pending = {}
          /\ \A e \in a.batch \cup a.pending : e <= Applied(c) /\ e <= a.highest
      BY <2>2 DEF AcksOK
    <3>2. Applied(c) \in Int /\ x \in Int /\ a.batch \subseteq Events /\ a.pending \subseteq Events
      BY <3>1, AppliedIs, SeqsAre DEF Acks
    <3>3. \A e \in a.batch \cup a.pending : e <= x
      BY <3>1, <3>2, SeqsAre
    <3> QED BY <2>2, <3>1, <3>3
  <2> QED BY <2>1, <2>2
<1> HIDE DEF none, old
<1>3. new \subseteq Events /\ (\A e \in new : e <= x /\ e > old.highest)
  OBVIOUS
<1> DEFINE top == IF new = {} THEN old.highest ELSE Max(new)
<1>4. top \in Seqs /\ old.highest <= top /\ \A e \in new : e <= top
  <2>1. old.highest \in Seqs
    BY <1>2 DEF Acks
  <2>2. CASE new = {}
    BY <2>1, <2>2, SeqsAre
  <2>3. CASE new # {}
    <3>1. new \in SUBSET (0..MaxEvents) /\ MaxEvents \in Nat
      BY <1>3, SeqsAre
    <3> HIDE DEF new
    <3>2. Max(new) \in new /\ \A y \in new : Max(new) >= y
      BY <2>3, <3>1, MaxBelongs
    <3>3. Max(new) \in Int /\ Max(new) \in Seqs /\ \A e \in new : e \in Int
      BY <1>3, <3>2, SeqsAre
    <3> QED BY <1>3, <2>1, <2>3, <3>2, <3>3, SeqsAre
  <2> QED BY <2>2, <2>3
<1> DEFINE more == [old EXCEPT !.pending = old.pending \cup new, !.highest = top]
<1>5. Enqueued(a, S) = IF S = {} THEN a ELSE Flushed(more)
  BY DEF Enqueued, old, none
<1> HIDE DEF new, top
<1>6. /\ more \in Acks /\ more.batch = old.batch /\ more.pending = old.pending \cup new
      /\ more.highest = top
  BY <1>2, <1>3, <1>4 DEF Acks
<1>7. \A e \in more.batch \cup more.pending : e <= x /\ e <= more.highest
  <2>1. \A e \in old.batch \cup old.pending : e \in Int /\ old.highest \in Int /\ top \in Int
    BY <1>2, <1>4, SeqsAre DEF Acks
  <2> QED BY <1>2, <1>3, <1>4, <1>6, <2>1
<1>8. more.batch \cap more.pending = {}
  <2>1. \A e \in old.batch : e <= old.highest /\ e \in Int /\ old.highest \in Int
    BY <1>2, SeqsAre DEF Acks
  <2>2. \A e \in new : e > old.highest /\ e \in Int
    BY <1>3, SeqsAre
  <2> QED BY <1>2, <1>6, <2>1, <2>2
<1> HIDE DEF more
<1>9. CASE S = {}
  <2>1. a # NULL => a = old
    BY DEF old
  <2> QED BY <1>2, <1>5, <1>9, <2>1 DEF AcksOK
<1>10. CASE S # {}
  <2>1. Enqueued(a, S) = Flushed(more)
    BY <1>5, <1>10
  <2> QED BY <1>6, <1>7, <1>8, <2>1, FlushedIs DEF AcksOK
<1> QED BY <1>9, <1>10

\* A client that may advance: what is on screen is what it covers.
Ready(c, v) ==
    ~Fenced(c) /\ v.rendered # NULL =>
        Len(v.rendered) = Covered(c) \/ (c.events = {} /\ (~c.up \/ c.replaying))

\* Nothing moves beyond what bounded the client and its buffer.
LEMMA AdvanceWithin ==
    ASSUME NEW c \in Client, NEW n \in Seqs, c.cursor <= n, n <= Reach(c),
           NEW k, k = Advanced(c, n), NEW x \in Seqs, ClientWithin(c, x)
    PROVE  ClientWithin(k, x)
<1>1. /\ k.cursor = n /\ k.events = {e \in c.events : e > n} /\ k.offer = c.offer
      /\ k.overtaken = c.overtaken
      /\ k.restored = IF n >= c.restored THEN 0 ELSE c.restored
  BY AdvancedIs
<1>2. c.cursor \in Int /\ n \in Int /\ x \in Int /\ 0 <= x /\ Reach(c) \in Int
  BY ClientIs, ReachIs, SeqsAre
<1>3. n <= x
  <2>1. CASE n = c.cursor
    BY <2>1 DEF ClientWithin
  <2>2. CASE n # c.cursor
    <3>1. n \in (c.cursor + 1)..Reach(c)
      BY <1>2, <2>2
    <3> QED BY <3>1, ReachIs DEF ClientWithin
  <2> QED BY <2>1, <2>2
<1> QED BY <1>1, <1>2, <1>3 DEF ClientWithin

\* The events of an advance appear on screen.
LEMMA AdvanceKeeps ==
    ASSUME NEW d \in Seqs, NEW c, NEW v, ScreenOK(c, v, d), Ready(c, v),
           NEW n \in Seqs, c.cursor <= n, n <= Reach(c),
           NEW k, k = Advanced(c, n), NEW w, w = Shown(v, Delivered(c, n))
    PROVE  ScreenOK(k, w, d)
<1> DEFINE m == Covered(c)
           b == Delivered(c, n)
<1>1. c \in Client /\ v \in View
  BY DEF ScreenOK
<1>2. /\ k \in Client /\ k.cursor = n /\ k.events = {e \in c.events : e > n}
      /\ k.restored = (IF n >= c.restored THEN 0 ELSE c.restored)
      /\ k.up = c.up /\ k.replaying = c.replaying /\ k.tracked = c.tracked
      /\ k.held = c.held /\ k.overtaken = c.overtaken /\ k.offer = c.offer /\ Fenced(k) = Fenced(c)
  BY <1>1, AdvancedIs
<1>3. /\ m \in Seqs /\ b \in Seq(Events)
      /\ {b[i] : i \in DOMAIN b} = {e \in Events : m < e /\ e <= n}
      /\ ~(m < n) => b = <<>>
      /\ m < n => Prefix(m) \o b = Prefix(n)
      /\ Fenced(c) => ~(m < n)
  BY <1>1, DeliveredIs
<1>4. /\ w \in View /\ w.open = v.open /\ w.background = v.background
      /\ w.rendered = (IF ~v.open \/ v.rendered = NULL THEN v.rendered ELSE v.rendered \o b)
      /\ w.read # NULL <=> v.read # NULL
      /\ v.read # NULL =>
           /\ w.read.kind = v.read.kind /\ w.read.through = v.read.through
           /\ w.read.id = v.read.id /\ w.read.cursor = v.read.cursor
           /\ w.read.live = (IF ~v.open THEN v.read.live
                             ELSE v.read.live \cup {b[i] : i \in DOMAIN b})
  <2>1. w = Shown(v, b)
    OBVIOUS
  <2> HIDE DEF b
  <2> QED BY <1>1, <1>3, <2>1, ShownIs
<1>5. ClosedSays(c, v) /\ (v.rendered # NULL => v.open) /\ (v.read # NULL => v.open)
  BY DEF ScreenOK, ClosedSays
<1>6. /\ c.cursor \in Int /\ c.restored \in Int /\ n \in Int /\ m \in Int /\ d \in Int
      /\ 0 <= c.cursor /\ 0 <= c.restored
      /\ c.cursor <= m /\ c.restored <= m /\ (m = c.cursor \/ m = c.restored)
  BY <1>1, <1>3, ClientIs, LargerIs, SeqsAre DEF Covered
<1>7. Covered(k) = IF m < n THEN n ELSE m
  BY <1>2, <1>6 DEF Covered, Larger
<1>8. Fenced(c) \/ c.events = {} => n = c.cursor
  <2>1. Fenced(c) \/ c.events = {} => Reach(c) = c.cursor
    BY <1>1, ReachIs
  <2> QED BY <1>6, <2>1
<1> HIDE DEF m, b
<1>9. ~(m < n) => w.rendered = v.rendered
  BY <1>1, <1>3, <1>4, ConcatEmptySeq DEF View
<1>10. m < n /\ v.rendered # NULL =>
           w.rendered = Prefix(n) /\ v.rendered = Prefix(m) /\ Len(v.rendered) = m
  <2> SUFFICES ASSUME m < n, v.rendered # NULL
               PROVE  w.rendered = Prefix(n) /\ v.rendered = Prefix(m) /\ Len(v.rendered) = m
    OBVIOUS
  <2>1. ~Fenced(c) /\ c.events # {}
    BY <1>3, <1>6, <1>8
  <2>2. Len(v.rendered) = m
    BY <2>1 DEF Ready, m
  <2>3. v.rendered = Prefix(m)
    BY <2>2 DEF ScreenOK, InOrder
  <2> QED BY <1>3, <1>4, <1>5, <2>2, <2>3
<1>11. ClientWithin(k, d)
  BY <1>1, AdvanceWithin DEF ScreenOK
<1>12. ReadsWithin(w, d)
  BY <1>4 DEF ScreenOK, ReadsWithin
<1>13. n <= d
  BY <1>2, <1>11 DEF ClientWithin
<1>14. ReadWithin(w, d)
  <2>1. ReadWithin(v, d)
    BY DEF ScreenOK
  <2>2. \A e \in {e \in Events : m < e /\ e <= n} : e <= d
    BY <1>6, <1>13, SeqsAre
  <2> QED BY <1>3, <1>4, <2>1, <2>2 DEF ReadWithin
<1>15. TranscriptSays(k, w)
  <2> SUFFICES ASSUME w.read # NULL PROVE TranscriptSays(k, w)
    BY DEF TranscriptSays
  <2>1. v.read # NULL /\ v.open
    BY <1>4, <1>5
  <2>2. v.read \in Read
    BY <1>1, <2>1 DEF View
  <2>3. TranscriptSays(c, v)
    BY DEF ScreenOK
  <2>4. w.read.live = v.read.live \cup {e \in Events : m < e /\ e <= n}
    BY <1>3, <1>4, <2>1
  <2>5. CASE v.read.kind = "bounded"
    <3>1. Fenced(c) \/ c.events = {}
      BY <2>1, <2>3, <2>5 DEF TranscriptSays, Restoring, Fenced
    <3>2. n = c.cursor
      BY <1>8, <3>1
    <3>3. \A e \in Events : ~(m < e /\ e <= n)
      BY <1>6, <3>2, SeqsAre
    <3>4. w.read.live = {}
      BY <2>1, <2>3, <2>4, <2>5, <3>3 DEF TranscriptSays
    <3>5. c.offer = NULL => Restoring(k)
      BY <1>2, <2>1, <2>3, <2>5 DEF TranscriptSays, Restoring
    <3> QED BY <1>2, <1>4, <2>1, <2>3, <2>5, <3>4, <3>5 DEF TranscriptSays
  <2>6. CASE v.read.kind # "bounded"
    <3> SUFFICES ASSUME v.read.cursor # NULL PROVE TranscriptSays(k, w)
      BY <1>4, <2>1, <2>6 DEF TranscriptSays
    <3> DEFINE r == v.read.cursor
    <3>1. r \in Seqs
      BY <2>2 DEF Read
    <3>2. /\ \A e \in Events : e > r => (e \in v.read.live <=> e <= c.cursor)
          /\ c.restored <= r
          /\ c.offer # NULL => /\ c.cursor <= r /\ c.offer.cursor <= r
                               /\ c.offer.installed <= r
      BY <2>1, <2>3, <2>6 DEF TranscriptSays
    <3> HIDE DEF r
    <3>3. ASSUME NEW e \in Events, e > r PROVE e \in w.read.live <=> e <= n
      <4>1. e \in v.read.live <=> e <= c.cursor
        BY <3>2, <3>3
      <4>2. e \in Int /\ r \in Int /\ c.restored < e
        BY <1>6, <3>1, <3>2, <3>3, SeqsAre
      <4>3. e \in w.read.live <=> e <= c.cursor \/ (m < e /\ e <= n)
        BY <2>4, <4>1
      <4> QED BY <1>6, <4>2, <4>3
    <3>4. k.restored <= r
      BY <1>2, <1>6, <3>1, <3>2, SeqsAre
    <3>5. k.offer # NULL => n = c.cursor
      BY <1>2, <1>8 DEF Fenced
    <3> QED BY <1>2, <1>4, <2>1, <2>6, <3>2, <3>3, <3>4, <3>5 DEF TranscriptSays, r
  <2> QED BY <2>5, <2>6
<1>16. OfferSays(k, w)
  <2> SUFFICES ASSUME c.offer # NULL PROVE OfferSays(k, w)
    BY <1>2 DEF OfferSays
  <2>1. n = c.cursor /\ w.rendered = v.rendered
    BY <1>3, <1>8, <1>9 DEF Fenced
  <2> QED BY <1>2, <2>1 DEF ScreenOK, OfferSays
<1>17. ScreenSays(k, w)
  <2> SUFFICES ASSUME c.up, ~c.replaying, ~Fenced(c), w.rendered # NULL
               PROVE  Len(w.rendered) = Covered(k)
    BY <1>2 DEF ScreenSays
  <2>1. v.rendered # NULL
    BY <1>4
  <2>2. Len(v.rendered) = m
    BY <2>1 DEF ScreenOK, ScreenSays, m
  <2>3. Len(Prefix(n)) = n
    BY PrefixIs
  <2> QED BY <1>7, <1>9, <1>10, <2>1, <2>2, <2>3
<1>18. InOrder(w)
  <2>1. Len(Prefix(n)) = n
    BY PrefixIs
  <2>2. w.rendered # NULL => v.rendered # NULL
    BY <1>4
  <2> QED BY <1>9, <1>10, <2>1, <2>2 DEF ScreenOK, InOrder
<1>19. ClosedSays(k, w)
  BY <1>2, <1>4, <1>5 DEF ClosedSays
<1>20. BackgroundSays(k, w)
  <2>1. BackgroundSays(c, v)
    BY DEF ScreenOK
  <2> QED BY <1>2, <1>4, <2>1 DEF BackgroundSays
<1> QED BY <1>2, <1>4, <1>11, <1>12, <1>14, <1>15, <1>16, <1>17, <1>18, <1>19, <1>20
        DEF ScreenOK

-----------------------------------------------------------------------------
(* What bears on the server is kept when the client moves on.              *)

\* What is on its way stays ahead of a client and requests that keep behind it.
LEMMA StreamMoves ==
    ASSUME NEW c, NEW s, NEW p, NEW l, NEW d, StreamOK(c, s, p, l, d),
           c \in Client, l \in Link,
           NEW k \in Client, NEW q, Applied(c) <= Applied(k),
           k.offer # NULL => c.offer # NULL /\ k.offer.id = c.offer.id,
           \A t \in q.snapshots :
               (\E u \in p.snapshots : u.id = t.id) \/ (c.offer # NULL /\ t.id = c.offer.id)
    PROVE  StreamOK(k, s, q, l, d)
<1>1. ASSUME NEW i \in DOMAIN s, IsOffer(s[i]) PROVE OfferAhead(s[i], k, q, l)
  <2>1. OfferAhead(s[i], c, p, l)
    BY <1>1 DEF StreamOK
  <2>2. k.offer # NULL => k.offer.id < s[i].id
    BY <2>1 DEF OfferAhead
  <2>3. \A t \in q.snapshots : t.id < s[i].id
    BY <2>1 DEF OfferAhead
  <2>4. l.cursor <= Applied(k)
    <3>1. l.cursor \in Int /\ Applied(c) \in Int /\ Applied(k) \in Int
      BY AppliedIs, SeqsAre DEF Link
    <3> QED BY <2>1, <3>1 DEF OfferAhead
  <2> QED BY <1>1, <2>1, <2>2, <2>3, <2>4 DEF OfferAhead
<1> QED BY <1>1 DEF StreamOK

\* The rest of a stream is a stream, and its head is older than every offer in it.
LEMMA StreamTail ==
    ASSUME NEW c, NEW s, NEW p, NEW l, NEW d, StreamOK(c, s, p, l, d), s # <<>>
    PROVE  /\ StreamOK(c, Tail(s), p, l, d)
           /\ Head(s) \in Message /\ Level(Head(s)) <= d
           /\ IsOffer(Head(s)) => OfferAhead(Head(s), c, p, l)
           /\ \A i \in DOMAIN Tail(s) :
                 IsOffer(Tail(s)[i]) /\ IsOffer(Head(s)) => Head(s).id < Tail(s)[i].id
<1> DEFINE t == Tail(s)
<1>1. s \in Seq(Message) /\ Len(s) \in Nat /\ Len(s) # 0 /\ DOMAIN s = 1..Len(s)
  BY EmptySeq, LenProperties DEF StreamOK
<1>2. /\ t \in Seq(Message) /\ Len(t) = Len(s) - 1 /\ DOMAIN t = 1..(Len(s) - 1)
      /\ \A i \in DOMAIN t : t[i] = s[i + 1] /\ i + 1 \in DOMAIN s
  BY <1>1, HeadTailProperties, LenProperties
<1>3. Head(s) = s[1] /\ 1 \in DOMAIN s /\ Head(s) \in Message
  BY <1>1
<1> HIDE DEF t
<1>4. StreamWithin(t, d)
  BY <1>2 DEF StreamOK, StreamWithin
<1>5. OffersInOrder(t)
  <2> SUFFICES ASSUME NEW i \in DOMAIN t, NEW j \in DOMAIN t, IsOffer(t[i]), IsOffer(t[j]), j < i
               PROVE  t[j].id < t[i].id
    BY DEF OffersInOrder
  <2>1. i \in Int /\ j \in Int
    BY <1>1, <1>2
  <2>2. i + 1 \in DOMAIN s /\ j + 1 \in DOMAIN s /\ j + 1 < i + 1
    BY <1>2, <2>1
  <2>3. OffersInOrder(s)
    BY DEF StreamOK
  <2> QED BY <1>2, <2>2, <2>3 DEF OffersInOrder
<1>6. \A i \in DOMAIN t : IsOffer(t[i]) => OfferAhead(t[i], c, p, l)
  BY <1>2 DEF StreamOK
<1>7. \A i \in DOMAIN t : IsOffer(t[i]) /\ IsOffer(Head(s)) => Head(s).id < t[i].id
  <2> SUFFICES ASSUME NEW i \in DOMAIN t, IsOffer(t[i]), IsOffer(Head(s))
               PROVE  Head(s).id < t[i].id
    OBVIOUS
  <2>1. i + 1 \in DOMAIN s /\ 1 < i + 1 /\ t[i] = s[i + 1]
    BY <1>1, <1>2
  <2>2. OffersInOrder(s)
    BY DEF StreamOK
  <2> QED BY <1>3, <2>1, <2>2 DEF OffersInOrder
<1>8. /\ Level(Head(s)) <= d
      /\ IsOffer(Head(s)) => OfferAhead(Head(s), c, p, l)
  BY <1>3 DEF StreamOK, StreamWithin
<1> QED BY <1>2, <1>3, <1>4, <1>5, <1>6, <1>7, <1>8 DEF StreamOK, t

\* Requests and the server's record stay behind a client that moves on.
LEMMA ControlMoves ==
    ASSUME NEW c \in Client, NEW p, NEW l, RequestsOK(c, p, l),
           NEW k \in Client, Applied(c) <= Applied(k)
    PROVE  p \in Posts /\ ControlSays(k, p) /\ SinglesSay(k, p)
<1>1. Applied(c) \in Int /\ Applied(k) \in Int
  BY AppliedIs, SeqsAre
<1>2. p \in Posts
  BY DEF RequestsOK
<1>3. ControlSays(k, p)
  <2>1. ControlSays(c, p)
    BY DEF RequestsOK
  <2>2. ASSUME NEW i \in DOMAIN p.control, p.control[i].cursor # NULL
        PROVE  p.control[i].cursor <= Applied(k)
    <3>1. p.control[i].cursor <= Applied(c)
      BY <2>1, <2>2 DEF ControlSays
    <3>2. p.control[i].cursor \in Int
      <4>1. p.control[i] \in Control
        BY <1>2 DEF Posts
      <4> QED BY <2>2, <4>1, SeqsAre DEF Control
    <3> QED BY <1>1, <3>1, <3>2
  <2> QED BY <2>1, <2>2 DEF ControlSays
<1>4. SinglesSay(k, p)
  <2>1. ASSUME NEW i \in DOMAIN p.singles PROVE p.singles[i] <= Applied(k)
    <3>1. p.singles[i] \in Int
      BY <1>2, SeqsAre DEF Posts
    <3> QED BY <1>1, <3>1 DEF RequestsOK, SinglesSay
  <2> QED BY <2>1 DEF SinglesSay
<1> QED BY <1>2, <1>3, <1>4

LEMMA RequestsMove ==
    ASSUME NEW c \in Client, NEW p, NEW l, RequestsOK(c, p, l),
           NEW k \in Client, Applied(c) <= Applied(k), k.offer = c.offer, k.up => c.up
    PROVE  RequestsOK(k, p, l)
<1>1. p \in Posts /\ ControlSays(k, p) /\ SinglesSay(k, p)
  BY ControlMoves
<1>2. SnapshotsSay(k, p, l)
  BY DEF RequestsOK, SnapshotsSay
<1> QED BY <1>1, <1>2 DEF RequestsOK

LEMMA LinkMoves ==
    ASSUME NEW c \in Client, NEW l, NEW d, LinkOK(c, l, d),
           NEW k \in Client, Applied(c) <= Applied(k), k.offer = c.offer
    PROVE  LinkOK(k, l, d)
<1>1. Applied(c) \in Int /\ Applied(k) \in Int /\ l.cursor \in Int
  BY AppliedIs, SeqsAre DEF LinkOK, Link
<1>2. Kept(k, l)
  BY <1>1 DEF LinkOK, Kept
<1> QED BY <1>2 DEF LinkOK

-----------------------------------------------------------------------------
(* The connection is closed, drained through or committed to.              *)

\* A closed connection leaves the screen as it is.
LEMMA ClosedKeeps ==
    ASSUME NEW c, NEW v, NEW d \in Seqs, ScreenOK(c, v, d),
           NEW k \in Client, ~k.up, k.tracked = c.tracked, k.cursor = c.cursor,
           k.overtaken = c.overtaken,
           k.events \subseteq c.events, k.restored \in {0, c.restored},
           k.offer \in {NULL, c.offer},
           (k.held = c.held /\ k.offer = c.offer) \/ k.events = {},
           NEW w \in View, w.open = v.open, w.rendered = v.rendered,
           w.read \in {NULL, v.read},
           w.background = NULL \/ (w.background = v.background /\ k.events = {} /\ ~Fenced(k))
    PROVE  ScreenOK(k, w, d)
<1>1. c \in Client /\ v \in View
  BY DEF ScreenOK
<1>2. ClientWithin(k, d)
  <2>1. 0 <= d
    BY SeqsAre
  <2>2. ClientWithin(c, d)
    BY DEF ScreenOK
  <2> QED BY <2>1, <2>2 DEF ClientWithin
<1>3. ReadsWithin(w, d) /\ ReadWithin(w, d)
  BY DEF ScreenOK, ReadsWithin, ReadWithin
<1>4. TranscriptSays(k, w)
  <2> SUFFICES ASSUME w.read # NULL PROVE TranscriptSays(k, w)
    BY DEF TranscriptSays
  <2>1. w.read = v.read
    OBVIOUS
  <2>2. TranscriptSays(c, v)
    BY DEF ScreenOK
  <2>3. CASE v.read.kind = "bounded"
    <3>1. v.background = NULL /\ w.background = NULL /\ w.read.live = {}
      BY <2>1, <2>2, <2>3 DEF TranscriptSays
    <3>2. k.offer = NULL => Restoring(k)
      BY <2>1, <2>2, <2>3 DEF TranscriptSays, Restoring
    <3> QED BY <2>1, <2>2, <2>3, <3>1, <3>2 DEF TranscriptSays
  <2>4. CASE v.read.kind # "bounded"
    <3>1. v.read \in Read
      BY <1>1, <2>1 DEF View
    <3>2. v.read.cursor # NULL => k.restored <= v.read.cursor
      BY <2>1, <2>2, <2>4, <3>1, SeqsAre DEF TranscriptSays, Read
    <3> QED BY <2>1, <2>2, <2>4, <3>2 DEF TranscriptSays
  <2> QED BY <2>3, <2>4
<1>5. OfferSays(k, w)
  BY DEF ScreenOK, OfferSays
<1>6. ScreenSays(k, w) /\ InOrder(w)
  BY DEF ScreenOK, ScreenSays, InOrder
<1>7. ClosedSays(k, w)
  BY DEF ScreenOK, ClosedSays
<1>8. BackgroundSays(k, w)
  BY DEF BackgroundSays
<1> QED BY <1>2, <1>3, <1>4, <1>5, <1>6, <1>7, <1>8 DEF ScreenOK

\* Nothing else is left of it.
LEMMA DisconnectKeeps ==
    ASSUME durable \in Seqs, disruptions \in 0..MaxDisruptions,
           Disconnect, durable' = durable, disruptions' = disruptions \/ Disrupt,
           ScreenOK(client', view', durable), BufferOK(client'),
           ~client'.up, ~client'.connected
    PROVE  EInv'
<1>1. stream' = <<>> /\ posts' = NoPosts /\ acks' = NULL /\ link' = NoLink
  BY DEF Disconnect
<1>2. NoPosts \in Posts /\ NoLink \in Link
  <2>1. 0 \in OfferIds /\ 0 \in Seqs
    BY EventBoundAssumption, SeqsAre DEF OfferIds
  <2> QED BY <2>1 DEF NoPosts, NoLink, Posts, Link
<1>3. PICK k \in Client : k = client'
  BY DEF ScreenOK
<1>4. RequestsOK(k, NoPosts, NoLink)
  BY <1>2, <1>3 DEF RequestsOK, ControlSays, SinglesSay, SnapshotsSay, NoPosts
<1>5. LinkOK(k, NoLink, durable)
  BY <1>2, SeqsAre DEF LinkOK, Kept, NoLink
<1>6. DownOK(k, NULL, <<>>, NoPosts, NoLink)
  BY <1>3 DEF DownOK
<1>7. disruptions' \in 0..MaxDisruptions
  BY EventBoundAssumption DEF Disrupt
<1>8. CountOK(k, NoPosts, NoLink, disruptions')
  BY <1>3, <1>7 DEF CountOK
<1>9. StreamOK(k, <<>>, NoPosts, NoLink, durable)
  BY DEF StreamOK, StreamWithin, OffersInOrder
<1>10. AcksOK(k, NULL)
  BY DEF AcksOK
<1> QED BY <1>1, <1>3, <1>4, <1>5, <1>6, <1>8, <1>9, <1>10 DEF EInv

\* A buffer loses elements.
LEMMA BufferLoses ==
    ASSUME NEW c \in Client, NEW S, S \subseteq c.events
    PROVE  /\ Cardinality(S) \in Nat /\ Cardinality(S) <= Cardinality(c.events)
           /\ \A e \in c.events : e \notin S => Cardinality(S) < Cardinality(c.events)
<1>1. IsFiniteSet(c.events)
  BY ClientIs
<1>2. /\ Cardinality(S) \in Nat /\ Cardinality(c.events) \in Nat
      /\ Cardinality(S) <= Cardinality(c.events)
      /\ Cardinality(S) = Cardinality(c.events) => S = c.events
  BY <1>1, FS_Subset, FS_CardinalityType
<1> QED BY <1>2

\* The events that lead on are applied one by one, or up to one that is refused.
LEMMA DrainKeeps ==
    ASSUME durable \in Seqs, disruptions \in 0..MaxDisruptions, durable' = durable,
           NEW c, NEW v, NEW a, NEW p, NEW s,
           ScreenOK(c, v, durable), Ready(c, v), AcksOK(c, a),
           \/ BufferOK(c)
           \/ /\ Cardinality(c.events) <= BufferCap + 1
              /\ ~Fenced(c) /\ c.cursor + 1 \in c.events,
           StreamOK(c, s, p, link, durable), RequestsOK(c, p, link),
           LinkOK(c, link, durable), CountOK(c, p, link, disruptions),
           DownOK(c, NULL, s, p, link),
           Drain(c, v, a, p, s)
    PROVE  EInv'
<1>1. c \in Client /\ v \in View
  BY DEF ScreenOK
<1>2. /\ Reach(c) \in Seqs /\ c.cursor <= Reach(c)
      /\ (c.cursor + 1)..Reach(c) \subseteq c.events
      /\ Fenced(c) \/ c.events = {} => Reach(c) = c.cursor
      /\ ~Fenced(c) /\ c.cursor + 1 \in c.events => c.cursor + 1 <= Reach(c)
  BY <1>1, ReachIs
<1>3. c.cursor \in Int /\ c.cursor \in Seqs /\ Reach(c) \in Int
  BY <1>1, <1>2, ClientIs, SeqsAre
<1>4. CASE /\ client' = Advanced(c, Reach(c))
           /\ view' = Shown(v, Delivered(c, Reach(c)))
           /\ acks' = IF c.up THEN Enqueued(a, (c.cursor + 1)..Reach(c)) ELSE NULL
           /\ posts' = p
           /\ stream' = s
           /\ UNCHANGED <<link, disruptions>>
  <2>1. PICK n \in Seqs : n = Reach(c)
    BY <1>2
  <2>2. PICK k : k = Advanced(c, n)
    OBVIOUS
  <2>3. PICK w : w = Shown(v, Delivered(c, n))
    OBVIOUS
  <2>4. client' = k /\ view' = w
    BY <1>4, <2>1, <2>2, <2>3
  <2>5. /\ k \in Client /\ k.cursor = n /\ k.events = {e \in c.events : e > n}
        /\ k.up = c.up /\ k.connected = c.connected /\ k.dirty = c.dirty
        /\ k.offer = c.offer /\ k.overtaken = c.overtaken
    BY <1>1, <2>2, AdvancedIs
  <2>6. ScreenOK(k, w, durable)
    <3>1. n <= Reach(c) /\ c.cursor <= n
      BY <1>2, <1>3, <2>1
    <3> QED BY <2>2, <2>3, <3>1, AdvanceKeeps
  <2>7. Applied(c) <= Applied(k) /\ Applied(k) \in Seqs /\ n <= Applied(k)
    <3>1. c.cursor <= k.cursor
      BY <1>2, <2>1, <2>5
    <3> QED BY <1>1, <2>5, <3>1, AppliedIs, AppliedKeeps
  <2>8. BufferOK(k)
    <3> DEFINE left == {e \in c.events : e > n}
    <3>1. left \subseteq c.events
      OBVIOUS
    <3>2. ~Fenced(c) /\ c.cursor + 1 \in c.events => c.cursor + 1 \notin left
      BY <1>2, <1>3, <2>1
    <3> HIDE DEF left
    <3>3. /\ Cardinality(left) \in Nat /\ Cardinality(left) <= Cardinality(c.events)
          /\ \A e \in c.events : e \notin left => Cardinality(left) < Cardinality(c.events)
      BY <1>1, <3>1, BufferLoses
    <3>4. Cardinality(c.events) \in Nat
      BY <1>1, ClientIs, FS_CardinalityType
    <3>5. Cardinality(left) <= BufferCap
      BY <3>2, <3>3, <3>4, SeqsAre DEF BufferOK
    <3> QED BY <2>5, <3>5 DEF BufferOK, left
  <2>9. AcksOK(k, acks')
    <3> DEFINE run == (c.cursor + 1)..n
    <3>1. run \in SUBSET Events /\ \A e \in run : e <= n
      BY <1>1, <1>2, <2>1, ClientIs
    <3>4. \A e \in run : e <= Applied(k)
      BY <2>7, <3>1, SeqsAre
    <3> HIDE DEF run
    <3>2. AcksOK(k, Enqueued(a, run))
      BY <1>1, <2>5, <2>7, <3>1, <3>4, EnqueuedIs
    <3>3. acks' = IF c.up THEN Enqueued(a, run) ELSE NULL
      BY <1>4, <2>1 DEF run
    <3> QED BY <3>2, <3>3 DEF AcksOK
  <2>10. StreamOK(k, s, p, link, durable)
    <3>1. link \in Link
      BY DEF LinkOK
    <3> QED BY <1>1, <2>5, <2>7, <3>1, StreamMoves
  <2>11. RequestsOK(k, p, link) /\ LinkOK(k, link, durable)
    BY <1>1, <2>5, <2>7, RequestsMove, LinkMoves
  <2>12. DownOK(k, acks', s, p, link)
    BY <1>4, <2>5 DEF DownOK
  <2>13. CountOK(k, p, link, disruptions)
    BY <2>5 DEF CountOK
  <2> QED BY <1>4, <2>4, <2>6, <2>8, <2>9, <2>10, <2>11, <2>12, <2>13 DEF EInv
<1>5. ASSUME NEW n \in c.cursor..(Reach(c) - 1),
             Disrupt,
             client' = LET b == Advanced(c, n)
                       IN Down(IF Overflows(b.events) THEN [b EXCEPT !.events = {}] ELSE b),
             view' = Shown(v, Delivered(c, n)),
             Disconnect
      PROVE  EInv'
  <2>1. n \in Seqs /\ c.cursor <= n /\ n <= Reach(c) /\ n < Reach(c)
    BY <1>2, <1>3, SeqsAre
  <2>2. PICK k : k = Advanced(c, n)
    OBVIOUS
  <2>3. PICK w : w = Shown(v, Delivered(c, n))
    OBVIOUS
  <2>4. k \in Client /\ k.cursor = n /\ k.events = {e \in c.events : e > n}
        /\ k.offer = c.offer /\ Fenced(k) = Fenced(c) /\ k.tracked = c.tracked
        /\ k.held = c.held /\ k.overtaken = c.overtaken
    BY <1>1, <2>1, <2>2, AdvancedIs
  <2>5. ScreenOK(k, w, durable)
    BY <2>1, <2>2, <2>3, AdvanceKeeps
  <2>6. w.background = v.background /\ w \in View
    <3>1. PICK b : b = Delivered(c, n)
      OBVIOUS
    <3>2. b \in Seq(Events)
      BY <1>1, <2>1, <3>1, DeliveredIs
    <3>3. v \in View
      BY <1>1
    <3>4. w = Shown(v, b)
      BY <2>3, <3>1
    <3> QED BY <3>2, <3>3, <3>4, ShownIs
  <2>7. w.background = NULL
    <3>1. ~Fenced(c) /\ c.events # {}
      BY <1>2, <1>3, <2>1
    <3> QED BY <2>6, <3>1 DEF ScreenOK, BackgroundSays, Fenced
  <2>8. PICK g : g = IF Overflows(k.events) THEN [k EXCEPT !.events = {}] ELSE k
    OBVIOUS
  <2>9. /\ g \in Client /\ g.events \subseteq k.events /\ g.cursor = k.cursor
        /\ g.restored = k.restored /\ g.offer = k.offer /\ g.tracked = k.tracked
        /\ g.held = k.held /\ g.overtaken = k.overtaken
        /\ BufferOK(g)
    <3>1. Cardinality({}) = 0
      BY FS_EmptySet
    <3>2. CASE Overflows(k.events)
      <4>1. g = [k EXCEPT !.events = {}]
        BY <2>8, <3>2
      <4> QED BY <2>4, <3>1, <4>1, SeqsAre DEF Client, BufferOK
    <3>3. CASE ~Overflows(k.events)
      <4>1. g = k
        BY <2>8, <3>3
      <4>2. Cardinality(k.events) \in Nat
        BY <2>4, ClientIs, FS_CardinalityType
      <4>3. ~(Cardinality(k.events) > BufferCap) /\ BufferCap \in Nat
        BY <3>3, SeqsAre DEF Overflows
      <4>4. BufferOK(k)
        BY <4>2, <4>3 DEF BufferOK
      <4> QED BY <2>4, <4>1, <4>4
    <3> QED BY <3>2, <3>3
  <2>10. PICK h : h = Down(g)
    OBVIOUS
  <2>11. /\ h \in Client /\ ~h.up /\ ~h.connected /\ h.events = g.events
         /\ h.cursor = g.cursor /\ h.restored = g.restored /\ h.offer = g.offer
         /\ h.tracked = g.tracked /\ h.held = g.held /\ h.overtaken = g.overtaken
    BY <2>9, <2>10 DEF Down, Client
  <2>12. client' = h /\ view' = w
    BY <1>5, <2>2, <2>3, <2>8, <2>10
  <2>13. ScreenOK(h, w, durable)
    BY <2>4, <2>5, <2>6, <2>7, <2>9, <2>11, ClosedKeeps
  <2>14. BufferOK(h)
    BY <2>9, <2>11 DEF BufferOK
  <2> QED BY <1>5, <2>11, <2>12, <2>13, <2>14, DisconnectKeeps
<1> QED BY <1>4, <1>5 DEF Drain

LEMMA AcksMove ==
    ASSUME NEW c \in Client, NEW a, AcksOK(c, a), NEW k \in Client, Applied(c) <= Applied(k)
    PROVE  AcksOK(k, a)
<1>1. Applied(c) \in Int /\ Applied(k) \in Int
  BY AppliedIs, SeqsAre
<1>2. a # NULL => \A e \in a.batch \cup a.pending : e \in Int
  BY SeqsAre DEF AcksOK, Acks
<1> QED BY <1>1, <1>2 DEF AcksOK

\* One more control request.
LEMMA ControlGrows ==
    ASSUME NEW c \in Client, NEW p, NEW l, RequestsOK(c, p, l),
           NEW r \in Control,
           r.cursor # NULL => r.cursor <= Applied(c),
           r.kind = "replay" => /\ r.cursor # NULL /\ r.step # "done"
                                /\ \A i \in DOMAIN p.control : p.control[i].kind # "replay",
           NEW q, q = WithControl(p, r)
    PROVE  /\ RequestsOK(c, q, l)
           /\ ReplaysLeft(q) = IF r.kind = "replay" THEN 1 ELSE ReplaysLeft(p)
           /\ q.snapshots = p.snapshots
<1>1. p \in Posts /\ p.control \in Seq(Control)
  BY DEF RequestsOK, Posts
<1> DEFINE now == Append(p.control, r)
           last == Len(p.control) + 1
<1>2. /\ now \in Seq(Control) /\ DOMAIN now = 1..last /\ Len(p.control) \in Nat
      /\ DOMAIN p.control = 1..Len(p.control)
      /\ now[last] = r /\ \A i \in 1..Len(p.control) : now[i] = p.control[i]
  BY <1>1, AppendProperties, LenProperties
<1>3. \A i \in 1..last : i \in 1..Len(p.control) \/ i = last
  BY <1>2
<1>4. 1..Len(p.control) \subseteq 1..last /\ last \in 1..last
  BY <1>2
<1>5. q = [p EXCEPT !.control = now]
  BY DEF WithControl
<1> HIDE DEF now, last
<1>6. /\ q \in Posts /\ q.control = now /\ q.singles = p.singles
      /\ q.snapshots = p.snapshots
  BY <1>1, <1>2, <1>5 DEF Posts
<1>7. ControlSays(c, p) /\ SinglesSay(c, p) /\ SnapshotsSay(c, p, l)
  BY DEF RequestsOK
<1>8. ControlSays(c, q)
  <2>1. \A i \in 1..last : now[i].cursor # NULL => now[i].cursor <= Applied(c)
    BY <1>2, <1>3, <1>7 DEF ControlSays
  <2>2. \A i \in 1..last : now[i].kind = "replay" => now[i].cursor # NULL
    BY <1>2, <1>3, <1>7 DEF ControlSays
  <2>3. ASSUME NEW i \in 1..last, NEW j \in 1..last,
               now[i].kind = "replay", now[j].kind = "replay"
        PROVE  i = j
    BY <1>2, <1>3, <1>7, <2>3 DEF ControlSays
  <2> QED BY <1>2, <1>6, <2>1, <2>2, <2>3 DEF ControlSays
<1>9. SinglesSay(c, q) /\ SnapshotsSay(c, q, l)
  BY <1>6, <1>7 DEF SinglesSay, SnapshotsSay
<1>10. ReplaysLeft(q) = IF r.kind = "replay" THEN 1 ELSE ReplaysLeft(p)
  <2>1. CASE r.kind = "replay"
    <3>1. now[last].kind = "replay" /\ now[last].step # "done" /\ last \in DOMAIN q.control
      BY <1>2, <1>4, <1>6, <2>1
    <3> QED BY <1>6, <2>1, <3>1 DEF ReplaysLeft
  <2>2. CASE r.kind # "replay"
    <3>1. (\E i \in DOMAIN q.control : q.control[i].kind = "replay" /\ q.control[i].step # "done")
          <=> (\E i \in DOMAIN p.control : p.control[i].kind = "replay" /\ p.control[i].step # "done")
      BY <1>2, <1>3, <1>4, <1>6, <2>2
    <3> QED BY <2>2, <3>1 DEF ReplaysLeft
  <2> QED BY <2>1, <2>2
<1> QED BY <1>6, <1>8, <1>9, <1>10 DEF RequestsOK

\* One more acknowledgement of a committed transcript.
LEMMA SinglesGrow ==
    ASSUME NEW c \in Client, NEW p, NEW l, RequestsOK(c, p, l),
           NEW n \in Events, n <= Applied(c), NEW q, q = [p EXCEPT !.singles = Append(@, n)]
    PROVE  /\ RequestsOK(c, q, l)
           /\ q.control = p.control /\ q.snapshots = p.snapshots
<1>1. p \in Posts /\ p.singles \in Seq(Events)
  BY DEF RequestsOK, Posts
<1> DEFINE now == Append(p.singles, n)
<1>2. /\ now \in Seq(Events) /\ DOMAIN now = 1..(Len(p.singles) + 1)
      /\ Len(p.singles) \in Nat /\ DOMAIN p.singles = 1..Len(p.singles)
      /\ now[Len(p.singles) + 1] = n
      /\ \A i \in 1..Len(p.singles) : now[i] = p.singles[i]
  BY <1>1, AppendProperties, LenProperties
<1>3. q = [p EXCEPT !.singles = now]
  OBVIOUS
<1> HIDE DEF now
<1>4. /\ q \in Posts /\ q.singles = now /\ q.control = p.control
      /\ q.snapshots = p.snapshots
  BY <1>1, <1>2, <1>3 DEF Posts
<1>5. SinglesSay(c, q)
  <2>1. SinglesSay(c, p)
    BY DEF RequestsOK
  <2>2. \A i \in 1..(Len(p.singles) + 1) : i \in 1..Len(p.singles) \/ i = Len(p.singles) + 1
    BY <1>2
  <2> QED BY <1>2, <1>4, <2>1, <2>2 DEF SinglesSay
<1>6. ControlSays(c, q) /\ SnapshotsSay(c, q, l)
  BY <1>4 DEF RequestsOK, ControlSays, SnapshotsSay
<1> QED BY <1>4, <1>5, <1>6 DEF RequestsOK

\* A transcript is committed.  The screen v shows it already, and p may hold a
\* switch to it.
LEMMA CommitKeeps ==
    ASSUME durable \in Seqs, disruptions \in 0..MaxDisruptions, durable' = durable,
           NEW c \in Client, NEW v \in View, NEW a, NEW q, NEW p, NEW n \in Seqs, NEW x,
           n <= durable, v.read = NULL,
           ClientWithin(c, durable), ReadsWithin(v, durable), InOrder(v),
           ClosedSays(c, v), BackgroundSays(c, v), BufferOK(c), AcksOK(c, a),
           c.offer # NULL =>
               /\ c.cursor <= Larger(c.offer.cursor, c.overtaken)
               /\ c.offer.acked /\ v.rendered # NULL =>
                      Len(v.rendered) = Larger(c.offer.cursor, n),
           ~Fenced(c) /\ v.rendered # NULL =>
               Len(v.rendered) = Larger(n, c.cursor) \/ (c.events = {} /\ (~c.up \/ c.replaying)),
           StreamOK(c, stream, q, link, durable),
           RequestsOK(c, q, link), LinkOK(c, link, durable),
           CountOK(c, q, link, disruptions), DownOK(c, a, stream, q, link),
           x = NULL \/ (x = n /\ ~Fenced(c)),
           p = q \/ (p = WithControl(q, Queued("switch", x)) /\ c.up),
           Commit(c, v, a, n, p)
    PROVE  EInv'
<1>1. /\ c.cursor \in Int /\ c.cursor \in Seqs /\ n \in Int /\ durable \in Int /\ 0 \in Seqs
      /\ 0 <= c.cursor /\ link \in Link
  BY ClientIs, SeqsAre DEF LinkOK
<1>2. CASE Fenced(c)
  <2>1. PICK k : k = IF c.offer = NULL THEN c ELSE [c EXCEPT !.offer.installed = n]
    OBVIOUS
  <2>2. client' = k /\ view' = v /\ acks' = a /\ posts' = p /\ stream' = stream
        /\ link' = link /\ disruptions' = disruptions
    BY <1>2, <2>1 DEF Commit
  <2>3. /\ k \in Client /\ k.cursor = c.cursor /\ k.restored = c.restored
        /\ k.events = c.events /\ k.up = c.up /\ k.connected = c.connected
        /\ k.dirty = c.dirty /\ k.tracked = c.tracked /\ k.replaying = c.replaying
        /\ k.held = c.held /\ k.overtaken = c.overtaken
        /\ (k.offer # NULL <=> c.offer # NULL)
        /\ c.offer # NULL => /\ k.offer.cursor = c.offer.cursor /\ k.offer.id = c.offer.id
                             /\ k.offer.acked = c.offer.acked /\ k.offer.installed = n
    <3>1. CASE c.offer = NULL
      BY <2>1, <3>1
    <3>2. CASE c.offer # NULL
      <4>1. PICK o \in SnapshotOffer : c.offer = o
        BY <3>2 DEF Client
      <4> DEFINE z == [o EXCEPT !.installed = n]
      <4>2. /\ z \in SnapshotOffer /\ z.cursor = o.cursor /\ z.id = o.id /\ z.acked = o.acked
            /\ z.installed = n
        BY DEF SnapshotOffer
      <4>3. z # NULL
        BY <4>2, EventAbsentAssumption
      <4>4. k = [c EXCEPT !.offer = z]
        BY <2>1, <3>2, <4>1
      <4> HIDE DEF z
      <4> QED BY <3>2, <4>1, <4>2, <4>3, <4>4 DEF Client
    <3> QED BY <3>1, <3>2
  <2>4. Fenced(k)
    BY <1>2, <2>3 DEF Fenced
  <2>5. \A y \in Seqs : ClientWithin(c, y) /\ n <= y => ClientWithin(k, y)
    BY <2>3 DEF ClientWithin
  <2>6. ScreenOK(k, v, durable)
    <3>1. OfferSays(k, v)
      BY <2>3 DEF OfferSays
    <3>2. BackgroundSays(k, v)
      BY <1>2, <2>3 DEF BackgroundSays
    <3>3. ClosedSays(k, v)
      BY <2>3 DEF ClosedSays
    <3> QED BY <2>3, <2>4, <2>5, <3>1, <3>2, <3>3 DEF ScreenOK, ReadWithin, TranscriptSays, ScreenSays
  <2>7. RequestsOK(k, q, link)
    BY <2>3 DEF RequestsOK, ControlSays, SinglesSay, SnapshotsSay, Applied
  <2>8. RequestsOK(k, p, link) /\ ReplaysLeft(p) = ReplaysLeft(q) /\ p.snapshots = q.snapshots
    <3>1. CASE p = q
      BY <2>7, <3>1
    <3>2. CASE p = WithControl(q, Queued("switch", x))
      <4>1. PICK r \in Control : r = Queued("switch", x) /\ r.kind = "switch" /\ r.cursor = NULL
        BY <1>2 DEF Queued, Control
      <4> QED BY <2>3, <2>7, <3>2, <4>1, ControlGrows
    <3> QED BY <3>1, <3>2
  <2>9. StreamOK(k, stream, p, link, durable)
    <3>1. Applied(c) <= Applied(k)
      BY <1>1, <2>3, AppliedKeeps
    <3> QED BY <1>1, <2>3, <2>8, <3>1, StreamMoves
  <2>10. LinkOK(k, link, durable)
    BY <2>3 DEF LinkOK, Kept, Applied
  <2>11. AcksOK(k, a) /\ BufferOK(k)
    BY <2>3 DEF AcksOK, BufferOK, Applied
  <2>12. DownOK(k, a, stream, p, link) /\ CountOK(k, p, link, disruptions)
    BY <2>3, <2>8 DEF DownOK, CountOK
  <2> QED BY <2>2, <2>6, <2>8, <2>9, <2>10, <2>11, <2>12 DEF EInv
<1>3. CASE ~Fenced(c)
  <2>1. PICK m : m = Larger(n, c.cursor)
    OBVIOUS
  <2>2. PICK k : k = [c EXCEPT !.restored = 0, !.cursor = m, !.events = {e \in c.events : e > m}]
    OBVIOUS
  <2>3. PICK z : z = IF m > 0 /\ c.up THEN [p EXCEPT !.singles = Append(@, m)] ELSE p
    OBVIOUS
  <2>4. Drain(k, v, a, z, stream)
    BY <1>3, <2>1, <2>2, <2>3 DEF Commit
  <2>5. /\ m \in Seqs /\ m \in Int /\ n <= m /\ c.cursor <= m /\ m <= durable
        /\ (m = n \/ m = c.cursor)
    BY <1>1, <2>1, LargerIs DEF ClientWithin
  <2>6. {e \in c.events : e > m} \subseteq c.events /\ c.events \subseteq Events
    BY ClientIs
  <2>7. /\ k \in Client /\ k.cursor = m /\ k.restored = 0
        /\ k.events = {e \in c.events : e > m} /\ k.up = c.up /\ k.connected = c.connected
        /\ k.dirty = c.dirty /\ k.tracked = c.tracked /\ k.replaying = c.replaying
        /\ k.held = c.held /\ k.offer = c.offer /\ k.overtaken = c.overtaken
    <3>1. PICK es \in SUBSET Events : es = {e \in c.events : e > m}
      BY <2>6
    <3>2. k = [c EXCEPT !.restored = 0, !.cursor = m, !.events = es]
      BY <2>2, <3>1
    <3> QED BY <1>1, <2>5, <3>1, <3>2 DEF Client
  <2>22. Applied(c) <= Applied(k) /\ k.cursor <= Applied(k) /\ Applied(k) \in Int
    BY <2>5, <2>7, AppliedIs, AppliedKeeps, SeqsAre
  <2>8. ~Fenced(k) /\ k.offer = NULL
    BY <1>3, <2>7 DEF Fenced
  <2>9. \A y \in Seqs : ClientWithin(c, y) /\ n <= y => ClientWithin(k, y)
    BY <1>1, <2>5, <2>6, <2>7, <2>8, SeqsAre DEF ClientWithin
  <2>10. Covered(k) = m
    BY <2>5, <2>7, SeqsAre DEF Covered, Larger
  <2>11. c.events = {} => k.events = {}
    BY <2>6, <2>7
  <2>12. ScreenOK(k, v, durable) /\ Ready(k, v)
    <3>1. BackgroundSays(k, v)
      BY <1>3, <2>7, <2>8, <2>11 DEF BackgroundSays, Fenced
    <3>2. ClosedSays(k, v)
      BY <2>7 DEF ClosedSays
    <3>3. ScreenSays(k, v) /\ Ready(k, v)
      BY <1>3, <2>1, <2>7, <2>10, <2>11 DEF ScreenSays, Ready
    <3>4. OfferSays(k, v) /\ TranscriptSays(k, v) /\ ReadWithin(v, durable)
      BY <2>8 DEF OfferSays, TranscriptSays, ReadWithin
    <3> QED BY <2>7, <2>9, <3>1, <3>2, <3>3, <3>4 DEF ScreenOK
  <2>13. BufferOK(k)
    <3>1. /\ Cardinality(k.events) \in Nat /\ Cardinality(c.events) \in Nat
          /\ Cardinality(k.events) <= Cardinality(c.events)
      BY <2>6, <2>7, BufferLoses
    <3> QED BY <3>1, SeqsAre DEF BufferOK
  <2>14. RequestsOK(k, q, link)
    BY <2>7, <2>22, RequestsMove
  <2>15. RequestsOK(k, p, link) /\ ReplaysLeft(p) = ReplaysLeft(q) /\ p.snapshots = q.snapshots
    <3>1. CASE p = q
      BY <2>14, <3>1
    <3>2. CASE p = WithControl(q, Queued("switch", x))
      <4>1. PICK r \in Control : r = Queued("switch", x) /\ r.kind = "switch" /\ r.cursor = x
        BY DEF Queued, Control
      <4>2. r.cursor # NULL => r.cursor <= Applied(k)
        BY <1>1, <2>5, <2>7, <2>22, <4>1
      <4> QED BY <2>7, <2>14, <3>2, <4>1, <4>2, ControlGrows
    <3> QED BY <3>1, <3>2
  <2>16. RequestsOK(k, z, link) /\ ReplaysLeft(z) = ReplaysLeft(q) /\ z.snapshots = q.snapshots
    <3>1. CASE m > 0 /\ c.up
      <4>1. m \in Events /\ m <= Applied(k)
        BY <2>5, <2>7, <2>22, <3>1, SeqsAre
      <4>2. z = [p EXCEPT !.singles = Append(@, m)]
        BY <2>3, <3>1
      <4>3. RequestsOK(k, z, link) /\ z.control = p.control /\ z.snapshots = p.snapshots
        BY <2>7, <2>15, <4>1, <4>2, SinglesGrow
      <4> QED BY <2>15, <4>3 DEF ReplaysLeft
    <3>2. CASE ~(m > 0 /\ c.up)
      BY <2>3, <2>15, <3>2
    <3> QED BY <3>1, <3>2
  <2>17. StreamOK(k, stream, z, link, durable)
    BY <1>1, <2>7, <2>8, <2>16, <2>22, StreamMoves
  <2>18. LinkOK(k, link, durable)
    BY <2>7, <2>22, LinkMoves
  <2>19. AcksOK(k, a)
    BY <2>7, <2>22, AcksMove
  <2>20. CountOK(k, z, link, disruptions)
    BY <2>7, <2>16 DEF CountOK
  <2>21. DownOK(k, NULL, stream, z, link)
    <3>1. ~c.up => z = q
      BY <2>3
    <3> QED BY <2>7, <3>1 DEF DownOK
  <2> QED BY <2>4, <2>12, <2>13, <2>16, <2>17, <2>18, <2>19, <2>20, <2>21, DrainKeeps
<1> QED BY <1>2, <1>3

\* What is installed is the transcript and what was shown since it was asked for.
LEMMA InstalledIs ==
    ASSUME NEW n \in Seqs, NEW x \in Seqs, NEW live \in SUBSET Events,
           \A e \in Events : e > n => (e \in live <=> e <= x),
           NEW m, m = Larger(n, x)
    PROVE  /\ Installed(n, live) = Prefix(m) /\ Prefix(m) \in Seq(Events)
           /\ Len(Prefix(m)) = m /\ m \in Seqs
<1>1. n \in Int /\ x \in Int /\ 0 <= n
  BY SeqsAre
<1>2. m \in Seqs /\ n <= m /\ x <= m /\ (m = n \/ m = x)
  BY <1>1, LargerIs
<1> DEFINE S == {e \in live : e > n}
<1>3. S = (n + 1)..m
  <2>1. \A e : e \in S <=> e \in Events /\ e > n /\ e <= x
    OBVIOUS
  <2>2. \A e : e \in S <=> e \in Int /\ 1 <= e /\ e <= MaxEvents /\ e > n /\ e <= x
    BY <2>1, SeqsAre
  <2>3. x <= MaxEvents
    BY SeqsAre
  <2>4. \A e \in Int : n < e /\ e <= m => e <= x
    BY <1>1, <1>2
  <2>5. m \in Int
    BY <1>2, SeqsAre
  <2>6. \A e : e \in S => e \in (n + 1)..m
    BY <1>1, <1>2, <2>2, <2>5
  <2>7. \A e \in (n + 1)..m : e \in S
    <3> SUFFICES ASSUME NEW e \in (n + 1)..m PROVE e \in S
      OBVIOUS
    <3>1. e \in Int /\ n < e /\ e <= m
      BY <1>1, <2>5
    <3>2. e <= x
      BY <2>4, <3>1
    <3>3. 1 <= e /\ e <= MaxEvents /\ MaxEvents \in Int
      BY <1>1, <2>3, <3>1, <3>2, SeqsAre
    <3> QED BY <2>2, <3>1, <3>2, <3>3
  <2> QED BY <2>6, <2>7
<1> HIDE DEF S
<1>4. Prefix(n) \o Ascending(S) = Prefix(m)
  BY <1>2, <1>3, PrefixGrows
<1>5. Installed(n, live) = Prefix(m)
  BY <1>4 DEF Installed, S
<1> QED BY <1>2, <1>5, PrefixIs

LEMMA ReadInstallsKeeps ==
    ASSUME EInv, ReadInstalls
    PROVE  EInv'
<1> DEFINE n == view.read.cursor
           m == Larger(n, client.cursor)
<1>1. /\ durable \in Seqs /\ client \in Client /\ view \in View
      /\ disruptions \in 0..MaxDisruptions /\ durable' = durable
  BY DEF EInv, ScreenOK, CountOK, ReadInstalls
<1>2. /\ view.read # NULL /\ view.read.kind # "bounded" /\ n # NULL
  BY DEF ReadInstalls
<1>3. view.read \in Read /\ n \in Seqs /\ view.read.live \in SUBSET Events
  BY <1>1, <1>2 DEF View, Read
<1>4. n <= durable /\ view.open
  BY <1>2 DEF EInv, ScreenOK, ReadWithin, ClosedSays
<1>5. /\ \A e \in Events : e > n => (e \in view.read.live <=> e <= client.cursor)
      /\ client.offer # NULL => client.cursor <= n /\ client.offer.cursor <= n
  BY <1>2 DEF EInv, ScreenOK, TranscriptSays
<1> DEFINE shown == [view EXCEPT !.rendered = Installed(n, view.read.live), !.read = NULL]
           x == IF Fenced(client) THEN NULL ELSE n
           p == IF view.read.kind = "open" /\ client.connected
                THEN WithControl(posts, Queued("switch", x)) ELSE posts
<1>6. Commit(client, shown, acks, n, p)
  BY DEF ReadInstalls
<1>7. client.cursor \in Seqs /\ client.cursor \in Int /\ n \in Int
  BY <1>1, <1>3, ClientIs, SeqsAre
<1> HIDE DEF n
<1>8. /\ Installed(n, view.read.live) = Prefix(m) /\ Prefix(m) \in Seq(Events)
      /\ Len(Prefix(m)) = m /\ m \in Seqs
  BY <1>3, <1>5, <1>7, InstalledIs
<1>9. /\ shown \in View /\ shown.rendered = Prefix(m) /\ shown.read = NULL
      /\ shown.background = view.background /\ shown.open = view.open
  BY <1>1, <1>8 DEF View
<1> HIDE DEF shown, x
<1>10. ReadsWithin(shown, durable) /\ InOrder(shown) /\ ClosedSays(client, shown)
       /\ BackgroundSays(client, shown)
  BY <1>4, <1>8, <1>9 DEF EInv, ScreenOK, ReadsWithin, InOrder, ClosedSays, BackgroundSays
<1>11. client.offer # NULL =>
               /\ client.cursor <= Larger(client.offer.cursor, client.overtaken)
               /\ client.offer.acked /\ shown.rendered # NULL =>
                      Len(shown.rendered) = Larger(client.offer.cursor, n)
  <2> SUFFICES ASSUME client.offer # NULL
               PROVE  /\ client.cursor <= Larger(client.offer.cursor, client.overtaken)
                      /\ Len(shown.rendered) = Larger(client.offer.cursor, n)
    OBVIOUS
  <2>1. client.cursor <= Larger(client.offer.cursor, client.overtaken)
    BY DEF EInv, ScreenOK, OfferSays
  <2>2. client.offer.cursor \in Int
    BY <1>1, ClientIs, SeqsAre
  <2> QED BY <1>5, <1>7, <1>8, <1>9, <2>1, <2>2 DEF Larger
<1>12. ~Fenced(client) /\ shown.rendered # NULL =>
           Len(shown.rendered) = Larger(n, client.cursor)
  BY <1>8, <1>9
<1>15. p = posts \/ (p = WithControl(posts, Queued("switch", x)) /\ client.up)
  BY DEF EInv, DownOK
<1>16. x = NULL \/ (x = n /\ ~Fenced(client))
  BY DEF x
<1>17. ClientWithin(client, durable) /\ BufferOK(client) /\ AcksOK(client, acks)
       /\ RequestsOK(client, posts, link) /\ LinkOK(client, link, durable)
       /\ CountOK(client, posts, link, disruptions)
       /\ DownOK(client, acks, stream, posts, link)
       /\ StreamOK(client, stream, posts, link, durable)
  BY DEF EInv, ScreenOK
<1> HIDE DEF p
<1> QED BY <1>1, <1>3, <1>4, <1>6, <1>9, <1>10, <1>11, <1>12, <1>15, <1>16,
           <1>17, CommitKeeps

\* An offer is acknowledged once, while the client waits for it.
LEMMA AcknowledgedIs ==
    ASSUME NEW c \in Client, NEW p, NEW l, RequestsOK(c, p, l), NEW id,
           NEW k, k = Acknowledged(c, id), NEW q, q = WithAcknowledgement(p, c, id)
    PROVE  /\ k \in Client /\ k.cursor = c.cursor /\ k.restored = c.restored
           /\ k.events = c.events /\ k.up = c.up /\ k.connected = c.connected
           /\ k.dirty = c.dirty /\ k.tracked = c.tracked /\ k.replaying = c.replaying
           /\ k.held = c.held /\ k.overtaken = c.overtaken /\ (k.offer # NULL <=> c.offer # NULL)
           /\ c.offer # NULL => /\ k.offer.cursor = c.offer.cursor
                                /\ k.offer.id = c.offer.id
                                /\ k.offer.installed = c.offer.installed
                                /\ k.offer.acked <=> c.offer.acked \/ Matching(c, id)
           /\ RequestsOK(k, q, l)
           /\ q.control = p.control
           /\ \A t \in q.snapshots :
                 (\E u \in p.snapshots : u.id = t.id) \/ (c.offer # NULL /\ t.id = c.offer.id)
           /\ ~c.up => q = p
<1>1. p \in Posts /\ ControlSays(c, p) /\ SinglesSay(c, p) /\ SnapshotsSay(c, p, l)
  BY DEF RequestsOK
<1>2. /\ k \in Client /\ k.cursor = c.cursor /\ k.restored = c.restored
      /\ k.events = c.events /\ k.up = c.up /\ k.connected = c.connected
      /\ k.dirty = c.dirty /\ k.tracked = c.tracked /\ k.replaying = c.replaying
      /\ k.held = c.held /\ k.overtaken = c.overtaken /\ (k.offer # NULL <=> c.offer # NULL)
      /\ c.offer # NULL => /\ k.offer.cursor = c.offer.cursor
                           /\ k.offer.id = c.offer.id
                           /\ k.offer.installed = c.offer.installed
                           /\ k.offer.acked <=> c.offer.acked \/ Matching(c, id)
  <2>1. CASE ~Matching(c, id)
    <3>1. k = c
      BY <2>1 DEF Acknowledged
    <3> QED BY <2>1, <3>1
  <2>2. CASE Matching(c, id)
    <3>1. PICK o \in SnapshotOffer : c.offer = o
      BY <2>2 DEF Client, Matching
    <3> DEFINE z == [o EXCEPT !.acked = TRUE]
    <3>2. /\ z \in SnapshotOffer /\ z.cursor = o.cursor /\ z.id = o.id /\ z.acked
          /\ z.installed = o.installed
      BY DEF SnapshotOffer
    <3>3. z # NULL
      BY <3>2, EventAbsentAssumption
    <3>4. k = [c EXCEPT !.offer = z]
      BY <2>2, <3>1 DEF Acknowledged
    <3>5. c.offer # NULL
      BY <2>2 DEF Matching
    <3> HIDE DEF z
    <3> QED BY <2>2, <3>1, <3>2, <3>3, <3>4, <3>5 DEF Client
  <2> QED BY <2>1, <2>2
<1>3. CASE ~Matching(c, id) \/ c.offer.acked
  <2>1. q = p
    BY <1>3 DEF WithAcknowledgement
  <2>2. SnapshotsSay(k, p, l)
    BY <1>1, <1>2, <1>3 DEF SnapshotsSay
  <2>3. ControlSays(k, p) /\ SinglesSay(k, p)
    BY <1>1, <1>2 DEF ControlSays, SinglesSay, Applied
  <2> QED BY <1>1, <1>2, <2>1, <2>2, <2>3 DEF RequestsOK
<1>4. CASE Matching(c, id) /\ ~c.offer.acked
  <2>1. c.up /\ c.offer # NULL /\ c.offer.id = id
    BY <1>4 DEF Matching
  <2> DEFINE new == [cursor |-> c.offer.cursor, id |-> id, answer |-> "none"]
  <2>2. new \in SnapshotAck /\ new.id = c.offer.id /\ new.cursor = c.offer.cursor
    BY <2>1, ClientIs DEF SnapshotAck
  <2> HIDE DEF new
  <2>3. q = [p EXCEPT !.snapshots = @ \cup {new}]
    BY <1>4 DEF WithAcknowledgement, new
  <2>4. /\ q \in Posts /\ q.snapshots = p.snapshots \cup {new}
        /\ q.control = p.control /\ q.singles = p.singles
    BY <1>1, <2>2, <2>3 DEF Posts
  <2>5. \A s \in p.snapshots : s.id # new.id
    BY <1>1, <1>4, <2>1, <2>2 DEF SnapshotsSay
  <2>6. k.offer # NULL /\ k.offer.acked /\ k.offer.id = new.id /\ k.offer.cursor = new.cursor
        /\ new.id <= l.offers
    BY <1>1, <1>2, <1>4, <2>1, <2>2 DEF SnapshotsSay
  <2>7. SnapshotsSay(k, q, l)
    <3>1. \A s, t \in q.snapshots : s.id = t.id => s = t
      BY <1>1, <2>4, <2>5 DEF SnapshotsSay
    <3>2. \A s \in q.snapshots :
             /\ s.id <= l.offers
             /\ s.answer = "none" =>
                  \/ s.id < l.offers
                  \/ /\ k.offer # NULL /\ k.offer.acked
                     /\ k.offer.id = s.id /\ k.offer.cursor = s.cursor
      BY <1>1, <1>2, <2>4, <2>6 DEF SnapshotsSay
    <3> QED BY <2>6, <3>1, <3>2 DEF SnapshotsSay
  <2>8. ControlSays(k, q) /\ SinglesSay(k, q)
    BY <1>1, <1>2, <2>4 DEF ControlSays, SinglesSay, Applied
  <2> QED BY <1>2, <2>1, <2>2, <2>4, <2>7, <2>8 DEF RequestsOK
<1> QED BY <1>3, <1>4

\* A transcript up to an offer is installed and the offer acknowledged: what the
\* two installations have in common.
LEMMA OfferInstalls ==
    ASSUME EInv, durable' = durable, NEW id, NEW n \in Seqs, NEW v \in View,
           n <= durable, ReadsWithin(v, durable),
           v.read = NULL, v.background = NULL, InOrder(v), ClosedSays(client, v),
           client.offer # NULL /\ v.rendered # NULL =>
               Len(v.rendered) = Larger(client.offer.cursor, n),
           ~Fenced(client) /\ v.rendered # NULL =>
               \/ Len(v.rendered) = Larger(n, client.cursor)
               \/ client.events = {} /\ (~client.up \/ client.replaying),
           Commit(Acknowledged(client, id), v, acks, n, WithAcknowledgement(posts, client, id))
    PROVE  EInv'
<1>1. /\ durable \in Seqs /\ client \in Client /\ disruptions \in 0..MaxDisruptions
      /\ RequestsOK(client, posts, link) /\ LinkOK(client, link, durable) /\ link \in Link
      /\ DownOK(client, acks, stream, posts, link)
  BY DEF EInv, ScreenOK, CountOK, LinkOK
<1>2. PICK k : k = Acknowledged(client, id)
  OBVIOUS
<1>3. PICK q : q = WithAcknowledgement(posts, client, id)
  OBVIOUS
<1>4. /\ k \in Client /\ k.cursor = client.cursor /\ k.restored = client.restored
      /\ k.events = client.events /\ k.up = client.up /\ k.connected = client.connected
      /\ k.dirty = client.dirty /\ k.tracked = client.tracked
      /\ k.held = client.held /\ k.replaying = client.replaying
      /\ k.overtaken = client.overtaken /\ (k.offer # NULL <=> client.offer # NULL)
      /\ client.offer # NULL => /\ k.offer.cursor = client.offer.cursor
                                /\ k.offer.id = client.offer.id
                                /\ k.offer.installed = client.offer.installed
                                /\ client.offer.acked => k.offer.acked
      /\ RequestsOK(k, q, link)
      /\ q.control = posts.control
      /\ \A t \in q.snapshots :
            \/ \E u \in posts.snapshots : u.id = t.id
            \/ client.offer # NULL /\ t.id = client.offer.id
      /\ ~client.up => q = posts
  BY <1>1, <1>2, <1>3, AcknowledgedIs
<1>5. Fenced(k) <=> Fenced(client)
  BY <1>4 DEF Fenced
<1>6. \A x : ClientWithin(client, x) => ClientWithin(k, x)
  BY <1>4 DEF ClientWithin
<1>7. ClientWithin(k, durable) /\ ReadsWithin(v, durable)
  BY <1>1, <1>6 DEF EInv, ScreenOK
<1>8. ClosedSays(k, v) /\ BackgroundSays(k, v)
  BY <1>4 DEF ClosedSays, BackgroundSays
<1>9. BufferOK(k) /\ AcksOK(k, acks)
  BY <1>4 DEF EInv, BufferOK, AcksOK, Applied
<1>10. k.offer # NULL =>
         /\ k.cursor <= Larger(k.offer.cursor, k.overtaken)
         /\ k.offer.acked /\ v.rendered # NULL => Len(v.rendered) = Larger(k.offer.cursor, n)
  BY <1>4 DEF EInv, ScreenOK, OfferSays
<1>11. ~Fenced(k) /\ v.rendered # NULL =>
         Len(v.rendered) = Larger(n, k.cursor) \/ (k.events = {} /\ (~k.up \/ k.replaying))
  BY <1>4, <1>5
<1>13. StreamOK(k, stream, q, link, durable)
  <2>1. StreamOK(client, stream, posts, link, durable)
    BY DEF EInv
  <2>2. Applied(client) <= Applied(k)
    BY <1>1, <1>4, AppliedKeeps, ClientIs, SeqsAre
  <2> QED BY <1>1, <1>4, <2>1, <2>2, StreamMoves
<1>14. LinkOK(k, link, durable)
  BY <1>1, <1>4 DEF LinkOK, Kept, Applied
<1>15. CountOK(k, q, link, disruptions)
  <2>1. CountOK(client, posts, link, disruptions)
    BY DEF EInv
  <2> QED BY <1>4, <2>1 DEF CountOK, ReplaysLeft
<1>16. DownOK(k, acks, stream, q, link)
  BY <1>1, <1>4 DEF DownOK
<1>17. Commit(k, v, acks, n, q)
  BY <1>2, <1>3
<1> QED BY <1>1, <1>4, <1>7, <1>8, <1>9, <1>10, <1>11, <1>13, <1>14, <1>15, <1>16,
           <1>17, CommitKeeps

LEMMA BoundedInstallsKeeps ==
    ASSUME EInv, BoundedInstalls
    PROVE  EInv'
<1> DEFINE n == view.read.through
           v == [view EXCEPT !.rendered = Installed(n, view.read.live), !.read = NULL]
<1>1. /\ client \in Client /\ view \in View /\ durable' = durable /\ durable \in Seqs
      /\ view.read # NULL /\ view.read.kind = "bounded"
      /\ Commit(Acknowledged(client, view.read.id), v, acks, n,
                WithAcknowledgement(posts, client, view.read.id))
  BY DEF EInv, ScreenOK, BoundedInstalls
<1>2. view.read \in Read /\ n \in Seqs /\ view.read.live \in SUBSET Events
  BY <1>1 DEF View, Read
<1>3. view.open /\ view.background = NULL /\ n <= durable
  BY <1>1 DEF EInv, ScreenOK, ClosedSays, TranscriptSays, ReadsWithin
<1>4. /\ view.read.live = {}
      /\ client.offer = NULL => Restoring(client)
      /\ client.offer # NULL => client.offer.cursor = n
  BY <1>1 DEF EInv, ScreenOK, TranscriptSays
<1>5. n \in Int /\ 0 <= n /\ 0 \in Seqs
  BY <1>2, SeqsAre
<1>6. Larger(n, 0) = n /\ \A e \in Events : ~(e <= 0)
  BY <1>5, SeqsAre DEF Larger
<1>7. ReadsWithin(v, durable)
  BY <1>1, <1>3 DEF ReadsWithin, View
<1> HIDE DEF n
<1>8. /\ Installed(n, view.read.live) = Prefix(n) /\ Prefix(n) \in Seq(Events)
      /\ Len(Prefix(n)) = n
  BY <1>2, <1>4, <1>5, <1>6, InstalledIs
<1>9. /\ v \in View /\ v.rendered = Prefix(n) /\ v.read = NULL
      /\ v.background = view.background /\ v.open = view.open
  BY <1>1, <1>8 DEF View
<1>10. PICK id : id = view.read.id
  OBVIOUS
<1>11. Commit(Acknowledged(client, id), v, acks, n, WithAcknowledgement(posts, client, id))
  BY <1>1, <1>10
<1> HIDE DEF v
<1>12. InOrder(v) /\ ClosedSays(client, v)
  BY <1>3, <1>8, <1>9 DEF InOrder, ClosedSays, EInv, ScreenOK
<1>13. client.offer # NULL /\ v.rendered # NULL =>
           Len(v.rendered) = Larger(client.offer.cursor, n)
  BY <1>4, <1>5, <1>8, <1>9 DEF Larger
<1>14. ~Fenced(client) => client.events = {} /\ (~client.up \/ client.replaying)
  BY <1>4 DEF Fenced, Restoring
<1> QED BY <1>1, <1>2, <1>3, <1>9, <1>11, <1>12, <1>7, <1>13, <1>14, OfferInstalls

LEMMA BackgroundInstallsKeeps ==
    ASSUME EInv, BackgroundInstalls
    PROVE  EInv'
<1> DEFINE b == view.background
           done == [view EXCEPT !.background = NULL]
<1>1. /\ client \in Client /\ view \in View /\ durable' = durable /\ durable \in Seqs
      /\ b # NULL
  BY DEF EInv, ScreenOK, BackgroundInstalls
<1>2. PICK n \in Seqs : n = b.cursor
  BY <1>1 DEF View
<1>3. PICK id : id = b.id
  OBVIOUS
<1>4. PICK v : v = IF view.open THEN [done EXCEPT !.rendered = Prefix(n), !.read = NULL] ELSE done
  OBVIOUS
<1>5. Commit(Acknowledged(client, id), v, acks, n, WithAcknowledgement(posts, client, id))
  BY <1>2, <1>3, <1>4 DEF BackgroundInstalls
<1>6. n <= durable /\ ReadsWithin(view, durable)
  BY <1>1, <1>2 DEF EInv, ScreenOK, ReadsWithin
<1>7. Prefix(n) \in Seq(Events) /\ Len(Prefix(n)) = n
  BY PrefixIs
<1>8. ClosedSays(client, view)
  BY DEF EInv, ScreenOK
<1>9. /\ v \in View /\ v.open = view.open /\ v.background = NULL /\ v.read = NULL
      /\ v.rendered = IF view.open THEN Prefix(n) ELSE NULL
  <2>1. CASE view.open
    <3>1. v = [view EXCEPT !.background = NULL, !.rendered = Prefix(n), !.read = NULL]
      BY <1>4, <2>1
    <3> QED BY <1>1, <1>7, <2>1, <3>1 DEF View
  <2>2. CASE ~view.open
    <3>1. v = [view EXCEPT !.background = NULL]
      BY <1>4, <2>2
    <3> QED BY <1>1, <1>8, <2>2, <3>1 DEF View, ClosedSays
  <2> QED BY <2>1, <2>2
<1>10. InOrder(v) /\ ClosedSays(client, v)
  BY <1>7, <1>8, <1>9 DEF InOrder, ClosedSays
<1>11. client.offer # NULL => client.offer.cursor = n
  BY <1>1, <1>2 DEF EInv, ScreenOK, BackgroundSays, Fenced
<1>12. client.offer # NULL /\ v.rendered # NULL =>
           Len(v.rendered) = Larger(client.offer.cursor, n)
  BY <1>2, <1>7, <1>9, <1>11, SeqsAre DEF Larger
<1>13. ~Fenced(client) => client.events = {} /\ ~client.up
  BY <1>1 DEF EInv, ScreenOK, BackgroundSays, Fenced
<1>14. ReadsWithin(v, durable)
  BY <1>6, <1>9 DEF ReadsWithin
<1> QED BY <1>1, <1>5, <1>6, <1>9, <1>10, <1>12, <1>13, <1>14, OfferInstalls

-----------------------------------------------------------------------------
(* The stream and the answers to acknowledgements arrive.                  *)

\* What EInv says of the variables, part by part.
LEMMA InvSays ==
    ASSUME EInv
    PROVE  /\ durable \in Seqs /\ disruptions \in 0..MaxDisruptions
           /\ client \in Client /\ view \in View /\ posts \in Posts /\ link \in Link
           /\ ScreenOK(client, view, durable) /\ BufferOK(client)
           /\ AcksOK(client, acks)
           /\ StreamOK(client, stream, posts, link, durable)
           /\ RequestsOK(client, posts, link)
           /\ LinkOK(client, link, durable)
           /\ DownOK(client, acks, stream, posts, link)
           /\ CountOK(client, posts, link, disruptions)
           /\ client.cursor \in Int /\ client.cursor \in Seqs /\ durable \in Int
  BY ClientIs, SeqsAre DEF EInv, ScreenOK, RequestsOK, LinkOK, CountOK

\* The connection is given up and nothing else is.
LEMMA DropKeeps ==
    ASSUME EInv, client' = Down(client), view' = [view EXCEPT !.background = NULL],
           Disconnect, durable' = durable, disruptions' = disruptions \/ Disrupt
    PROVE  EInv'
<1>1. PICK k : k = Down(client)
  OBVIOUS
<1>2. PICK w : w = [view EXCEPT !.background = NULL]
  OBVIOUS
<1>3. /\ k \in Client /\ ~k.up /\ ~k.connected /\ k.events = client.events
      /\ k.cursor = client.cursor /\ k.restored = client.restored
      /\ k.offer = client.offer /\ k.tracked = client.tracked /\ k.held = client.held
      /\ k.overtaken = client.overtaken
  BY <1>1, InvSays DEF Down, Client
<1>4. /\ w \in View /\ w.background = NULL /\ w.open = view.open
      /\ w.rendered = view.rendered /\ w.read = view.read
  BY <1>2, InvSays DEF View
<1>5. ScreenOK(k, w, durable)
  BY <1>3, <1>4, ClosedKeeps, InvSays
<1>6. BufferOK(k)
  BY <1>3, InvSays DEF BufferOK
<1>7. client' = k /\ view' = w
  BY <1>1, <1>2
<1> QED BY <1>3, <1>5, <1>6, <1>7, DisconnectKeeps, InvSays

\* An answered acknowledgement is done with.
LEMMA SnapshotLeaves ==
    ASSUME NEW c \in Client, NEW s, NEW p, NEW l, NEW d,
           RequestsOK(c, p, l), StreamOK(c, s, p, l, d), l \in Link,
           NEW t, NEW q, q = [p EXCEPT !.snapshots = @ \ {t}]
    PROVE  /\ RequestsOK(c, q, l) /\ StreamOK(c, s, q, l, d)
           /\ q.control = p.control /\ q.singles = p.singles
           /\ q.snapshots = p.snapshots \ {t}
<1>1. p \in Posts
  BY DEF RequestsOK
<1>2. /\ q \in Posts /\ q.control = p.control /\ q.singles = p.singles
      /\ q.snapshots = p.snapshots \ {t}
  BY <1>1 DEF Posts
<1>3. RequestsOK(c, q, l)
  BY <1>2 DEF RequestsOK, ControlSays, SinglesSay, SnapshotsSay
<1>4. StreamOK(c, s, q, l, d)
  BY <1>2 DEF StreamOK, OfferAhead
<1> QED BY <1>2, <1>3, <1>4

LEMMA SnapshotAckReturnsKeeps ==
    ASSUME EInv, NEW s, SnapshotAckReturns(s)
    PROVE  EInv'
<1>1. s \in posts.snapshots /\ s.answer # "none" /\ durable' = durable
  BY DEF SnapshotAckReturns
<1>2. PICK left : left = [posts EXCEPT !.snapshots = @ \ {s}]
  OBVIOUS
<1>3. /\ RequestsOK(client, left, link)
      /\ StreamOK(client, stream, left, link, durable)
      /\ left.control = posts.control
      /\ left.snapshots = posts.snapshots \ {s}
  BY <1>2, SnapshotLeaves, InvSays
<1>4. CountOK(client, left, link, disruptions)
  BY <1>3, InvSays DEF CountOK, ReplaysLeft
<1>5. client.up
  <2>1. ~client.up => posts.snapshots = {}
    BY InvSays DEF DownOK, NoPosts
  <2> QED BY <1>1, <2>1
<1>6. CASE ~Matching(client, s.id)
  <2>1. posts' = left /\ UNCHANGED <<client, acks, view, stream, link, disruptions>>
    BY <1>2, <1>6 DEF SnapshotAckReturns, clientVars
  <2>2. DownOK(client, acks, stream, left, link)
    BY <1>5 DEF DownOK
  <2> QED BY <1>1, <1>3, <1>4, <2>1, <2>2, InvSays DEF EInv
<1>7. CASE Matching(client, s.id) /\ s.answer # "applied"
  BY <1>1, <1>7, DropKeeps DEF SnapshotAckReturns
<1>8. CASE Matching(client, s.id) /\ s.answer = "applied"
  <2>1. client.offer # NULL /\ client.offer.id = s.id
    BY <1>8 DEF Matching
  <2>2. client.offer.acked
    BY <1>1, <1>5, <2>1, InvSays DEF RequestsOK, SnapshotsSay
  <2>3. PICK o \in SnapshotOffer : client.offer = o
    BY <2>1, InvSays DEF Client
  <2>4. /\ o.cursor \in Seqs /\ o.installed \in Seqs /\ o.cursor \in Int /\ o.installed \in Int
    BY SeqsAre DEF SnapshotOffer
  <2>5. /\ client.cursor <= Larger(o.cursor, client.overtaken)
        /\ view.rendered # NULL => Len(view.rendered) = Larger(o.cursor, o.installed)
    BY <2>1, <2>2, <2>3, InvSays DEF ScreenOK, OfferSays
  <2>6. PICK r \in Seqs : r = IF o.installed > o.cursor THEN o.installed ELSE 0
    BY <2>4, SeqsAre
  <2>7. PICK es \in SUBSET Events : es = {e \in client.events : e > o.cursor}
    <3>1. {e \in client.events : e > o.cursor} \subseteq Events
      BY ClientIs, InvSays
    <3> QED BY <3>1
  <2>8. PICK k : k = Confirmed(client)
    OBVIOUS
  <2>9. k = [client EXCEPT !.restored = r, !.offer = NULL, !.cursor = o.cursor, !.events = es]
    BY <2>3, <2>6, <2>7, <2>8 DEF Confirmed
  <2>10. /\ k \in Client /\ k.cursor = o.cursor /\ k.restored = r /\ k.events = es
         /\ k.offer = NULL /\ k.up = client.up /\ k.connected = client.connected
         /\ k.dirty = client.dirty /\ k.tracked = client.tracked /\ k.held = client.held
         /\ k.replaying = client.replaying /\ k.overtaken = client.overtaken
    BY <2>4, <2>9, InvSays DEF Client
  <2>11. Drain(k, view, acks, left, stream)
    BY <1>2, <1>8, <2>8 DEF SnapshotAckReturns
  <2>12. Covered(k) = Larger(o.cursor, o.installed)
    BY <2>4, <2>6, <2>10, SeqsAre DEF Covered, Larger
  <2>13. \A x \in Seqs : ClientWithin(client, x) => ClientWithin(k, x)
    <3> SUFFICES ASSUME NEW x \in Seqs, ClientWithin(client, x) PROVE ClientWithin(k, x)
      OBVIOUS
    <3>1. o.cursor <= x /\ o.installed <= x /\ 0 <= x
      BY <2>1, <2>3, SeqsAre DEF ClientWithin
    <3>2. r <= x
      BY <2>6, <3>1
    <3>3. \A e \in es : e <= x
      BY <2>7 DEF ClientWithin
    <3> QED BY <2>10, <3>1, <3>2, <3>3 DEF ClientWithin
  <2>14. view.background = NULL
    BY <2>1, <2>2, InvSays DEF ScreenOK, BackgroundSays, Fenced
  <2>15. Ready(k, view)
    BY <2>5, <2>12 DEF Ready
  <2>16. TranscriptSays(k, view)
    <3> SUFFICES ASSUME view.read # NULL PROVE TranscriptSays(k, view)
      BY DEF TranscriptSays
    <3>1. view.read \in Read
      BY InvSays DEF View
    <3> DEFINE n == view.read.cursor
    <3>2. view.read.kind # "bounded"
      BY <2>1, <2>2, InvSays DEF ScreenOK, TranscriptSays
    <3>3. n # NULL =>
             /\ \A e \in Events : e > n => (e \in view.read.live <=> e <= client.cursor)
             /\ client.cursor <= n /\ o.cursor <= n /\ o.installed <= n
      BY <2>1, <2>3, <3>2, InvSays DEF ScreenOK, TranscriptSays
    <3>4. n # NULL => n \in Int /\ 0 <= n
      BY <3>1, SeqsAre DEF Read
    <3> HIDE DEF n
    <3>5. n # NULL => r <= n
      BY <2>6, <3>3, <3>4
    <3>6. ASSUME n # NULL, NEW e \in Events, e > n
          PROVE  e \in view.read.live <=> e <= o.cursor
      <4>1. e \in Int /\ ~(e <= o.cursor) /\ ~(e <= client.cursor)
        BY <2>4, <3>3, <3>4, <3>6, SeqsAre, InvSays
      <4> QED BY <3>3, <3>6, <4>1
    <3> QED BY <2>10, <3>2, <3>5, <3>6 DEF TranscriptSays, n
  <2>17. ScreenOK(k, view, durable)
    <3>1. OfferSays(k, view) /\ BackgroundSays(k, view)
      BY <2>10, <2>14 DEF OfferSays, BackgroundSays
    <3>2. ScreenSays(k, view)
      BY <2>5, <2>12 DEF ScreenSays
    <3>3. ClosedSays(k, view)
      BY <2>10, InvSays DEF ScreenOK, ClosedSays
    <3> QED BY <2>10, <2>13, <2>16, <3>1, <3>2, <3>3, InvSays DEF ScreenOK
  <2>18. BufferOK(k)
    <3>1. es \subseteq client.events
      BY <2>7
    <3>2. /\ Cardinality(es) \in Nat /\ Cardinality(client.events) \in Nat
          /\ Cardinality(es) <= Cardinality(client.events)
      BY <3>1, BufferLoses, InvSays
    <3> QED BY <2>10, <3>2, SeqsAre, InvSays DEF BufferOK
  <2>19. Applied(client) <= Applied(k)
    <3>1. /\ client.cursor \in Int /\ client.overtaken \in Int
          /\ Larger(o.cursor, client.overtaken) = Applied(k)
      BY <2>10, ClientIs, SeqsAre, InvSays DEF Applied
    <3>2. Applied(k) \in Int /\ client.overtaken <= Applied(k)
      BY <2>10, AppliedIs, SeqsAre
    <3> QED BY <2>5, <3>1, <3>2, AppliedIs, InvSays
  <2>20. StreamOK(k, stream, left, link, durable)
    BY <1>3, <2>10, <2>19, StreamMoves, InvSays
  <2>21. RequestsOK(k, left, link)
    <3>1. left \in Posts /\ ControlSays(k, left) /\ SinglesSay(k, left)
      BY <1>3, <2>10, <2>19, ControlMoves, InvSays
    <3>2. SnapshotsSay(client, left, link) /\ SnapshotsSay(client, posts, link)
      BY <1>3, InvSays DEF RequestsOK
    <3>3. \A t \in left.snapshots : t.id # s.id
      BY <1>1, <1>3, <3>2 DEF SnapshotsSay
    <3>4. SnapshotsSay(k, left, link)
      BY <2>1, <2>10, <3>2, <3>3 DEF SnapshotsSay
    <3> QED BY <3>1, <3>4 DEF RequestsOK
  <2>22. LinkOK(k, link, durable)
    <3>1. Kept(k, link)
      <4>1. /\ link.cursor \in Int /\ Applied(client) \in Int /\ Applied(k) \in Int
            /\ o.cursor <= Applied(k)
        BY <2>10, AppliedIs, SeqsAre, InvSays DEF Link
      <4> QED BY <2>3, <2>4, <2>19, <4>1, InvSays DEF LinkOK, Kept
    <3> QED BY <3>1, InvSays DEF LinkOK
  <2>23. CountOK(k, left, link, disruptions)
    BY <1>4, <2>10 DEF CountOK
  <2>24. DownOK(k, NULL, stream, left, link)
    BY <1>5, <2>10 DEF DownOK
  <2>25. AcksOK(k, acks)
    BY <2>10, <2>19, AcksMove, InvSays
  <2> QED BY <1>1, <2>11, <2>15, <2>17, <2>18, <2>20, <2>21, <2>22, <2>23, <2>24, <2>25,
             DrainKeeps, InvSays
<1> QED BY <1>6, <1>7, <1>8

\* A client that changed nothing the server's side depends on.
LEMMA RestFollows ==
    ASSUME EInv, NEW k \in Client, k.cursor = client.cursor, k.offer = client.offer,
           k.up = client.up, k.connected = client.connected, k.dirty = client.dirty,
           k.overtaken = client.overtaken
    PROVE  /\ RequestsOK(k, posts, link) /\ LinkOK(k, link, durable)
           /\ CountOK(k, posts, link, disruptions)
           /\ \A a, s : DownOK(client, a, s, posts, link) => DownOK(k, a, s, posts, link)
           /\ AcksOK(k, acks)
<1>1. Applied(client) <= Applied(k)
  BY AppliedKeeps, InvSays
<1> QED BY <1>1, RequestsMove, LinkMoves, AcksMove, InvSays DEF CountOK, DownOK

LEMMA ReceiveEventKeeps ==
    ASSUME EInv, ReceiveEvent
    PROVE  EInv'
<1> DEFINE tail == Tail(stream)
<1>1. /\ stream # <<>> /\ "event" \in DOMAIN Head(stream) /\ durable' = durable
  BY DEF ReceiveEvent
<1>2. /\ StreamOK(client, tail, posts, link, durable)
      /\ Head(stream) \in Message /\ Level(Head(stream)) <= durable
  BY <1>1, StreamTail, InvSays
<1>3. PICK e \in Events : e = Head(stream).event /\ Level(Head(stream)) = e
  BY <1>1, <1>2, MessageIs
<1>4. client.up
  BY <1>1, InvSays DEF DownOK
<1>5. PICK c : c = IF client.replaying THEN [client EXCEPT !.held = TRUE, !.restored = 0]
                   ELSE client
  OBVIOUS
<1>6. PICK b : b = [c EXCEPT !.events = @ \cup {e}]
  OBVIOUS
<1> HIDE DEF tail
<1>7. /\ c \in Client /\ c.cursor = client.cursor /\ c.events = client.events
      /\ c.offer = client.offer /\ c.up = client.up /\ c.connected = client.connected
      /\ c.dirty = client.dirty /\ c.tracked = client.tracked
      /\ c.replaying = client.replaying /\ c.overtaken = client.overtaken
      /\ c.restored \in {0, client.restored}
      /\ c.replaying => Fenced(c) /\ c.held
      /\ ~Fenced(c) => c = client
  <2>1. 0 \in Seqs
    BY SeqsAre
  <2>2. client \in Client
    BY InvSays
  <2>3. CASE client.replaying
    <3>1. c = [client EXCEPT !.held = TRUE, !.restored = 0]
      BY <1>5, <2>3
    <3>2. c.held
      BY <2>2, <3>1 DEF Client
    <3> QED BY <2>1, <2>2, <3>1, <3>2 DEF Client, Fenced
  <2>4. CASE ~client.replaying
    BY <1>5, <2>2, <2>4
  <2> QED BY <2>3, <2>4
<1>8. /\ b \in Client /\ b.cursor = c.cursor /\ b.events = c.events \cup {e}
      /\ b.offer = c.offer /\ b.up = c.up /\ b.connected = c.connected
      /\ b.dirty = c.dirty /\ b.tracked = c.tracked /\ b.replaying = c.replaying
      /\ b.restored = c.restored /\ b.held = c.held /\ Fenced(b) = Fenced(c)
      /\ b.overtaken = c.overtaken
  BY <1>6, <1>7 DEF Client, Fenced
<1>9. ASSUME NEW k \in {b, c}
      PROVE  /\ k \in Client /\ k.cursor = client.cursor /\ k.offer = client.offer
             /\ k.up = client.up /\ k.connected = client.connected
             /\ k.dirty = client.dirty /\ k.tracked = client.tracked
             /\ k.overtaken = client.overtaken
             /\ ScreenOK(k, view, durable)
             /\ StreamOK(k, tail, posts, link, durable)
  <2>1. /\ k \in Client /\ k.cursor = client.cursor /\ k.offer = client.offer
        /\ k.up = client.up /\ k.connected = client.connected
        /\ k.dirty = client.dirty /\ k.tracked = client.tracked
        /\ k.replaying = client.replaying /\ Fenced(k) = Fenced(c)
        /\ k.overtaken = client.overtaken /\ k.held = c.held
        /\ k.restored = c.restored /\ k.events \subseteq client.events \cup {e}
    BY <1>7, <1>8
  <2>2. ASSUME NEW x \in Seqs, ClientWithin(client, x), e <= x PROVE ClientWithin(k, x)
    <3>1. k.restored <= x
      BY <1>7, <2>1, <2>2, SeqsAre DEF ClientWithin
    <3> QED BY <2>1, <2>2, <3>1 DEF ClientWithin
  <2>3. ClientWithin(k, durable)
    BY <1>2, <1>3, <2>2, InvSays DEF ScreenOK
  <2>4. ScreenSays(k, view)
    <3>1. ~Fenced(k) => c = client
      BY <1>7, <2>1
    <3>2. Covered(k) = Covered(c)
      BY <1>7, <2>1 DEF Covered
    <3> QED BY <2>1, <3>1, <3>2, InvSays DEF ScreenOK, ScreenSays
  <2>5. BackgroundSays(k, view)
    BY <1>4, <2>1, InvSays DEF ScreenOK, BackgroundSays
  <2>6. OfferSays(k, view) /\ ClosedSays(k, view)
    BY <2>1, InvSays DEF ScreenOK, OfferSays, ClosedSays
  <2>7. TranscriptSays(k, view)
    <3> SUFFICES ASSUME view.read # NULL PROVE TranscriptSays(k, view)
      BY DEF TranscriptSays
    <3>1. view.read \in Read
      BY InvSays DEF View
    <3>2. view.read.cursor # NULL => view.read.cursor \in Seqs
      BY <3>1 DEF Read
    <3>3. TranscriptSays(client, view)
      BY InvSays DEF ScreenOK
    <3>4. CASE view.read.kind = "bounded"
      <4>1. client.offer = NULL => Restoring(k)
        BY <1>4, <1>7, <2>1, <3>3, <3>4 DEF TranscriptSays, Restoring
      <4> QED BY <2>1, <3>3, <3>4, <4>1 DEF TranscriptSays
    <3>5. CASE view.read.kind # "bounded"
      <4>1. view.read.cursor # NULL => k.restored <= view.read.cursor
        BY <1>7, <2>1, <3>2, <3>3, <3>5, SeqsAre DEF TranscriptSays
      <4> QED BY <2>1, <3>3, <3>5, <4>1 DEF TranscriptSays
    <3> QED BY <3>4, <3>5
  <2>8. ScreenOK(k, view, durable)
    BY <2>1, <2>3, <2>4, <2>5, <2>6, <2>7, InvSays DEF ScreenOK
  <2>9. StreamOK(k, tail, posts, link, durable)
    <3>1. Applied(client) <= Applied(k)
      BY <2>1, AppliedKeeps, InvSays
    <3> QED BY <1>2, <2>1, <3>1, StreamMoves, InvSays
  <2> QED BY <2>1, <2>8, <2>9
<1>10. ASSUME NEW k \in {b, c}
       PROVE  /\ RequestsOK(k, posts, link) /\ LinkOK(k, link, durable)
              /\ CountOK(k, posts, link, disruptions)
              /\ \A a, s : DownOK(k, a, s, posts, link)
              /\ AcksOK(k, acks)
  <2>1. /\ RequestsOK(k, posts, link) /\ LinkOK(k, link, durable)
        /\ CountOK(k, posts, link, disruptions) /\ AcksOK(k, acks)
    BY <1>9, RestFollows
  <2>2. \A a, s : DownOK(k, a, s, posts, link)
    BY <1>4, <1>9 DEF DownOK
  <2> QED BY <2>1, <2>2
<1>11. Cardinality(client.events) \in Nat /\ Cardinality(b.events) \in Nat
       /\ Cardinality(b.events) <= Cardinality(client.events) + 1
  <2>1. IsFiniteSet(client.events) /\ IsFiniteSet(b.events)
    BY <1>8, ClientIs, InvSays
  <2>2. b.events = client.events \cup {e}
    BY <1>7, <1>8
  <2>3. /\ Cardinality(client.events) \in Nat
        /\ Cardinality(b.events) \in Nat
    BY <2>1, FS_CardinalityType
  <2>4. \/ Cardinality(b.events) = Cardinality(client.events)
        \/ Cardinality(b.events) = Cardinality(client.events) + 1
    <3>1. Cardinality(client.events \cup {e}) =
              IF e \in client.events THEN Cardinality(client.events)
              ELSE Cardinality(client.events) + 1
      BY <2>1, FS_AddElement
    <3> QED BY <2>2, <3>1
  <2> QED BY <2>3, <2>4
<1>12. CASE e <= c.cursor
  <2>1. /\ client' = c /\ acks' = Enqueued(acks, {e}) /\ stream' = tail
        /\ UNCHANGED <<view, posts, link, disruptions>>
    BY <1>3, <1>5, <1>12 DEF ReceiveEvent, tail
  <2>2. AcksOK(c, Enqueued(acks, {e}))
    <3>1. Applied(client) \in Seqs /\ Applied(client) \in Int /\ client.cursor <= Applied(client)
      BY AppliedIs, SeqsAre, InvSays
    <3>2. {e} \in SUBSET Events /\ \A y \in {e} : y <= Applied(client)
      BY <1>7, <1>12, <3>1, SeqsAre, InvSays
    <3>3. Applied(c) = Applied(client)
      BY <1>7 DEF Applied
    <3> QED BY <1>7, <3>1, <3>2, <3>3, EnqueuedIs, InvSays
  <2>3. BufferOK(c)
    BY <1>7, InvSays DEF BufferOK
  <2> QED BY <1>1, <1>9, <1>10, <2>1, <2>2, <2>3, InvSays DEF EInv
<1>13. CASE ~(e <= c.cursor) /\ (Fenced(c) \/ e # c.cursor + 1) /\ Overflows(b.events)
  <2>1. PICK g : g = [c EXCEPT !.events = {}, !.held = FALSE, !.offer = NULL, !.restored = 0]
    OBVIOUS
  <2>2. PICK k : k = Down(g)
    OBVIOUS
  <2>3. client' = k /\ Disconnect /\ view' = view /\ disruptions' = disruptions
    BY <1>3, <1>5, <1>6, <1>13, <2>1, <2>2 DEF ReceiveEvent
  <2>4. g \in Client /\ g.events = {} /\ g.offer = NULL /\ g.held = FALSE /\ g.restored = 0
        /\ g.cursor = c.cursor /\ g.tracked = c.tracked /\ g.overtaken = c.overtaken
    <3>1. 0 \in Seqs
      BY SeqsAre
    <3> QED BY <1>7, <2>1, <3>1 DEF Client
  <2>5. k \in Client /\ ~k.up /\ ~k.connected /\ k.events = {} /\ k.offer = NULL
        /\ k.restored = 0 /\ k.cursor = c.cursor /\ k.tracked = c.tracked /\ ~Fenced(k)
        /\ k.overtaken = c.overtaken
    BY <2>2, <2>4 DEF Client, Down, Fenced
  <2>6. ScreenOK(k, view, durable)
    BY <1>7, <1>9, <2>5, ClosedKeeps, InvSays
  <2>7. BufferOK(k)
    BY <2>5, FS_EmptySet, SeqsAre DEF BufferOK
  <2> QED BY <1>1, <2>3, <2>5, <2>6, <2>7, DisconnectKeeps, InvSays
<1>14. CASE ~(e <= c.cursor) /\ (Fenced(c) \/ e # c.cursor + 1) /\ ~Overflows(b.events)
  <2>1. /\ client' = b /\ stream' = tail
        /\ UNCHANGED <<acks, view, posts, link, disruptions>>
    BY <1>3, <1>5, <1>6, <1>14 DEF ReceiveEvent, tail
  <2>2. BufferOK(b)
    BY <1>11, <1>14, SeqsAre DEF BufferOK, Overflows
  <2> QED BY <1>1, <1>9, <1>10, <2>1, <2>2, InvSays DEF EInv
<1>15. CASE ~(e <= c.cursor) /\ ~(Fenced(c) \/ e # c.cursor + 1)
  <2>1. Drain(b, view, acks, posts, tail)
    BY <1>3, <1>5, <1>6, <1>15 DEF ReceiveEvent, tail
  <2>2. Ready(b, view)
    <3>1. ~client.replaying /\ c = client
      BY <1>7, <1>15
    <3>2. Covered(b) = Covered(client)
      BY <1>8, <3>1 DEF Covered
    <3> QED BY <1>4, <1>8, <1>15, <3>1, <3>2, InvSays DEF ScreenOK, ScreenSays, Ready
  <2>3. /\ Cardinality(b.events) <= BufferCap + 1
        /\ ~Fenced(b) /\ b.cursor + 1 \in b.events
    <3>1. Cardinality(b.events) <= BufferCap + 1
      BY <1>11, SeqsAre, InvSays DEF BufferOK
    <3> QED BY <1>8, <1>15, <3>1
  <2> QED BY <1>1, <1>9, <1>10, <2>1, <2>2, <2>3, DrainKeeps, InvSays
<1> QED BY <1>12, <1>13, <1>14, <1>15

LEMMA ReceiveOfferKeeps ==
    ASSUME EInv, ReceiveOffer
    PROVE  EInv'
<1> DEFINE tail == Tail(stream)
           o == Head(stream)
<1>1. stream # <<>> /\ "id" \in DOMAIN o
  BY DEF ReceiveOffer
<1>2. /\ StreamOK(client, tail, posts, link, durable)
      /\ o \in Message /\ Level(o) <= durable
      /\ IsOffer(o) => OfferAhead(o, client, posts, link)
      /\ \A i \in DOMAIN tail : IsOffer(tail[i]) /\ IsOffer(o) => o.id < tail[i].id
  BY <1>1, StreamTail, InvSays
<1>3. PICK n \in Seqs, id \in OfferIds : n = o.cursor /\ id = o.id /\ Level(o) = n
  BY <1>1, <1>2, MessageIs
<1>4. IsOffer(o) /\ n <= durable /\ n \in Int /\ 0 <= n
  BY <1>1, <1>2, <1>3, MessageIs, SeqsAre
<1>5. client.up
  BY <1>1, InvSays DEF DownOK
<1>6. /\ id <= link.offers
      /\ \A s \in posts.snapshots : s.id < id
      /\ link.applied /\ link.cursor <= Applied(client)
      /\ \A i \in DOMAIN tail : IsOffer(tail[i]) => id < tail[i].id
  BY <1>2, <1>3, <1>4 DEF OfferAhead
<1> DEFINE z == [cursor |-> n, id |-> id, acked |-> FALSE, installed |-> 0]
<1>7. z \in SnapshotOffer /\ z # NULL /\ z.cursor = n /\ z.id = id /\ ~z.acked /\ z.installed = 0
  <2>1. z \in SnapshotOffer
    BY SeqsAre DEF SnapshotOffer
  <2> QED BY <2>1, EventAbsentAssumption
<1>24. PICK t \in Seqs : t = IF n < client.cursor THEN Larger(client.overtaken, client.cursor)
                             ELSE client.overtaken
  BY ClientIs, InvSays DEF Larger
<1>8. PICK k : k = [client EXCEPT !.replaying = FALSE, !.held = FALSE, !.restored = 0,
                                  !.overtaken = t, !.offer = z]
  OBVIOUS
<1>9. PICK a : a = IF acks = NULL THEN NULL
                   ELSE [acks EXCEPT !.superseded = Larger(@, n), !.highest = Larger(@, n),
                                     !.pending = {e \in @ : e > n}]
  OBVIOUS
<1>10. PICK w : w = IF view.open
                    THEN [view EXCEPT !.read = ReadOf("bounded", n, id),
                                      !.background = NULL, !.error = FALSE]
                    ELSE [view EXCEPT !.background = [cursor |-> n, id |-> id]]
  OBVIOUS
<1>11. /\ client' = k /\ acks' = a /\ view' = w /\ stream' = tail
       /\ UNCHANGED <<posts, link, durable, disruptions>>
  <2>1. client' = k
    BY <1>3, <1>8, <1>24 DEF ReceiveOffer
  <2>2. acks' = a
    BY <1>3, <1>9 DEF ReceiveOffer
  <2>3. view' = w
    BY <1>3, <1>10 DEF ReceiveOffer
  <2> QED BY <2>1, <2>2, <2>3 DEF ReceiveOffer
<1> HIDE DEF z
<1>12. /\ k \in Client /\ k.cursor = client.cursor /\ k.events = client.events
       /\ k.restored = 0 /\ k.offer = z /\ k.up = client.up
       /\ k.connected = client.connected /\ k.dirty = client.dirty
       /\ k.tracked = client.tracked /\ k.overtaken = t /\ Fenced(k)
  <2>1. 0 \in Seqs
    BY SeqsAre
  <2>2. client \in Client
    BY InvSays
  <2>3. k \in Client /\ k.offer = z
    BY <1>7, <1>8, <2>1, <2>2 DEF Client
  <2> QED BY <1>7, <1>8, <2>2, <2>3 DEF Client, Fenced
<1>13. PICK r : r = ReadOf("bounded", n, id)
  OBVIOUS
<1>14. r \in Read /\ r.kind = "bounded" /\ r.through = n /\ r.live = {} /\ r.cursor = NULL
  BY <1>13 DEF Read, ReadOf
<1>15. /\ w \in View /\ w.open = view.open /\ w.rendered = view.rendered
       /\ w.read = IF view.open THEN r ELSE NULL
       /\ view.open => w.background = NULL
       /\ w.background # NULL => w.background.cursor = n
  <2>1. CASE view.open
    <3>1. w = [view EXCEPT !.read = r, !.background = NULL, !.error = FALSE]
      BY <1>10, <1>13, <2>1
    <3> QED BY <1>14, <2>1, <3>1, InvSays DEF View
  <2>2. CASE ~view.open
    <3>1. PICK g : g = [cursor |-> n, id |-> id]
      OBVIOUS
    <3>2. w = [view EXCEPT !.background = g]
      BY <1>10, <2>2, <3>1
    <3>3. view.read = NULL
      BY <2>2, InvSays DEF ScreenOK, ClosedSays
    <3> QED BY <2>2, <3>1, <3>2, <3>3, InvSays DEF View
  <2> QED BY <2>1, <2>2
<1>16. /\ client.overtaken <= t /\ t <= durable
       /\ client.cursor <= Larger(n, t) /\ Applied(client) <= Applied(k)
  <2>1. /\ client.cursor \in Int /\ client.overtaken \in Int /\ durable \in Int /\ t \in Int
        /\ client.cursor <= durable /\ client.overtaken <= durable
    BY ClientIs, SeqsAre, InvSays DEF ScreenOK, ClientWithin
  <2>2. client.overtaken <= t /\ t <= durable /\ (n < client.cursor => client.cursor <= t)
    BY <1>4, <1>24, <2>1 DEF Larger
  <2> QED BY <1>4, <1>12, <2>1, <2>2 DEF Applied, Larger
<1>25. ClientWithin(k, durable) /\ ReadsWithin(w, durable)
  <2>1. 0 <= durable /\ durable \in Int
    BY SeqsAre, InvSays
  <2>2. ClientWithin(client, durable)
    BY InvSays DEF ScreenOK
  <2>3. ClientWithin(k, durable)
    BY <1>4, <1>7, <1>12, <1>16, <2>1, <2>2 DEF ClientWithin
  <2>4. ReadsWithin(w, durable)
    BY <1>4, <1>14, <1>15 DEF ReadsWithin
  <2> QED BY <2>3, <2>4
<1>17. ScreenOK(k, w, durable)
  <2>2. OfferSays(k, w)
    BY <1>7, <1>12, <1>16 DEF OfferSays
  <2>3. ScreenSays(k, w)
    BY <1>12 DEF ScreenSays
  <2>4. InOrder(w) /\ ClosedSays(k, w)
    BY <1>12, <1>15, InvSays DEF ScreenOK, InOrder, ClosedSays
  <2>5. BackgroundSays(k, w)
    BY <1>7, <1>12, <1>15 DEF BackgroundSays
  <2>6. ReadWithin(w, durable)
    BY <1>14, <1>15 DEF ReadWithin
  <2>7. TranscriptSays(k, w)
    <3> SUFFICES ASSUME w.read # NULL PROVE TranscriptSays(k, w)
      BY DEF TranscriptSays
    <3>1. view.open /\ w.read = r /\ w.background = NULL
      BY <1>15
    <3> QED BY <1>7, <1>12, <1>14, <3>1 DEF TranscriptSays
  <2> QED BY <1>12, <1>15, <1>25, <2>2, <2>3, <2>4, <2>5, <2>6, <2>7, InvSays DEF ScreenOK
<1>18. BufferOK(k)
  BY <1>12, InvSays DEF BufferOK
<1>19. AcksOK(k, a)
  <2>1. CASE acks = NULL
    BY <1>9, <2>1 DEF AcksOK
  <2>2. CASE acks # NULL
    <3>1. /\ acks \in Acks /\ acks.batch \cap acks.pending = {}
          /\ \A e \in acks.batch \cup acks.pending : e <= Applied(client) /\ e <= acks.highest
      BY <2>2, InvSays DEF AcksOK
    <3>2. PICK h \in Seqs, u \in Seqs : h = Larger(acks.highest, n) /\ u = Larger(acks.superseded, n)
      <4>1. acks.highest \in Seqs /\ acks.superseded \in Seqs
        BY <3>1 DEF Acks
      <4> QED BY <4>1 DEF Larger
    <3>3. PICK es \in SUBSET Events : es = {e \in acks.pending : e > n}
      <4>1. {e \in acks.pending : e > n} \subseteq Events
        BY <3>1 DEF Acks
      <4> QED BY <4>1
    <3>4. a = [acks EXCEPT !.superseded = u, !.highest = h, !.pending = es]
      BY <1>9, <2>2, <3>2, <3>3
    <3>5. a \in Acks /\ a.batch = acks.batch /\ a.pending = es /\ a.highest = h
      BY <3>1, <3>4 DEF Acks
    <3>6. es \subseteq acks.pending
      BY <3>3
    <3>7. acks.highest \in Int /\ acks.highest <= h /\ h \in Int
      BY <1>4, <3>1, <3>2, LargerIs, SeqsAre DEF Acks
    <3>9. Applied(client) \in Int /\ Applied(k) \in Int
      BY <1>12, AppliedIs, SeqsAre, InvSays
    <3>8. \A e \in a.batch \cup a.pending : e \in Int /\ e <= Applied(k) /\ e <= h
      BY <1>16, <3>1, <3>5, <3>6, <3>7, <3>9, SeqsAre DEF Acks
    <3> QED BY <1>12, <3>1, <3>5, <3>6, <3>8 DEF AcksOK
  <2> QED BY <2>1, <2>2
<1>20. StreamOK(k, tail, posts, link, durable)
  <2>1. ASSUME NEW i \in DOMAIN tail, IsOffer(tail[i])
        PROVE  OfferAhead(tail[i], k, posts, link)
    <3>1. OfferAhead(tail[i], client, posts, link) /\ tail[i] \in Message
      BY <1>2, <2>1 DEF StreamOK
    <3>2. id < tail[i].id
      BY <1>6, <2>1
    <3>3. link.cursor \in Int /\ Applied(client) \in Int /\ Applied(k) \in Int
      BY <1>12, AppliedIs, SeqsAre, InvSays DEF Link
    <3>4. link.cursor <= Applied(k)
      BY <1>6, <1>16, <3>3
    <3> QED BY <1>7, <1>12, <3>1, <3>2, <3>4 DEF OfferAhead
  <2> QED BY <1>2, <2>1 DEF StreamOK
<1>21. RequestsOK(k, posts, link)
  <2>2. posts \in Posts /\ ControlSays(k, posts) /\ SinglesSay(k, posts)
    BY <1>12, <1>16, ControlMoves, InvSays
  <2>3. \A s \in posts.snapshots : s.id < link.offers /\ s.id # id
    <3>1. \A s \in posts.snapshots : s.id \in Int
      BY EventBoundAssumption, InvSays DEF Posts, SnapshotAck, OfferIds
    <3>2. id \in Int /\ link.offers \in Int
      BY EventBoundAssumption, InvSays DEF Link, OfferIds
    <3> QED BY <1>6, <3>1, <3>2
  <2>4. SnapshotsSay(k, posts, link)
    BY <1>6, <1>7, <1>12, <2>3, InvSays DEF RequestsOK, SnapshotsSay
  <2> QED BY <2>2, <2>4 DEF RequestsOK
<1>22. LinkOK(k, link, durable)
  <2>1. link.cursor \in Int /\ Applied(client) \in Int /\ Applied(k) \in Int
    BY <1>12, AppliedIs, SeqsAre, InvSays DEF Link
  <2> QED BY <1>6, <1>16, <2>1, InvSays DEF LinkOK, Kept
<1>23. CountOK(k, posts, link, disruptions) /\ DownOK(k, a, tail, posts, link)
  BY <1>5, <1>12, InvSays DEF CountOK, DownOK
<1> HIDE DEF tail, o
<1> QED BY <1>11, <1>17, <1>18, <1>19, <1>20, <1>21, <1>22, <1>23, InvSays DEF EInv

-----------------------------------------------------------------------------
(* The user, and what fails without a trace.                               *)

\* A view that shows and asks for no more than before.
LEMMA ViewMoves ==
    ASSUME EInv, NEW k \in Client, k.cursor = client.cursor, k.restored = client.restored,
           k.events = client.events, k.offer = client.offer, k.up = client.up,
           k.held = client.held, k.replaying = client.replaying,
           k.overtaken = client.overtaken,
           k.connected = client.connected, k.dirty = client.dirty,
           NEW w \in View, w.background = view.background,
           w.rendered \in {NULL, view.rendered},
           \/ w.read \in {NULL, view.read}
           \/ /\ w.read \in Read /\ w.read.kind # "bounded" /\ w.read.through = 0
              /\ w.read.cursor = NULL /\ w.read.live = {},
           ClosedSays(k, w), NEW q, q.snapshots = posts.snapshots
    PROVE  /\ ScreenOK(k, w, durable) /\ BufferOK(k)
           /\ StreamOK(k, stream, q, link, durable)
           /\ RequestsOK(k, posts, link) /\ LinkOK(k, link, durable)
           /\ CountOK(k, posts, link, disruptions)
           /\ DownOK(k, acks, stream, posts, link) /\ AcksOK(k, acks)
<1>1. /\ RequestsOK(k, posts, link) /\ LinkOK(k, link, durable)
      /\ CountOK(k, posts, link, disruptions)
      /\ DownOK(k, acks, stream, posts, link) /\ AcksOK(k, acks)
  BY RestFollows, InvSays
<1>2. BufferOK(k)
  BY InvSays DEF BufferOK
<1>3. \A x : ClientWithin(client, x) => ClientWithin(k, x)
  BY DEF ClientWithin
<1>4. ReadsWithin(w, durable)
  BY SeqsAre, InvSays DEF ScreenOK, ReadsWithin
<1>5. StreamOK(k, stream, q, link, durable)
  <2>1. Applied(client) <= Applied(k)
    BY AppliedKeeps, InvSays
  <2> QED BY <2>1, StreamMoves, InvSays
<1>6. ScreenOK(k, w, durable)
  <2>1. ClientWithin(k, durable) /\ ReadsWithin(w, durable)
    BY <1>3, <1>4, InvSays DEF ScreenOK
  <2>2. ReadWithin(w, durable)
    BY InvSays DEF ScreenOK, ReadWithin
  <2>3. TranscriptSays(k, w)
    <3>1. CASE w.read = NULL
      BY <3>1 DEF TranscriptSays
    <3>2. CASE w.read # NULL /\ w.read = view.read
      BY <3>2, InvSays DEF ScreenOK, TranscriptSays, Restoring
    <3>3. CASE w.read.kind # "bounded" /\ w.read.cursor = NULL
      BY <3>3 DEF TranscriptSays
    <3> QED BY <3>1, <3>2, <3>3
  <2>4. OfferSays(k, w) /\ InOrder(w)
    BY InvSays DEF ScreenOK, OfferSays, InOrder
  <2>5. ScreenSays(k, w)
    BY InvSays DEF ScreenOK, ScreenSays, Fenced, Covered
  <2>6. BackgroundSays(k, w)
    BY InvSays DEF ScreenOK, BackgroundSays, Fenced
  <2> QED BY <2>1, <2>2, <2>3, <2>4, <2>5, <2>6 DEF ScreenOK
<1> QED BY <1>1, <1>2, <1>5, <1>6

\* A disruption leaves room for one more offer.
LEMMA DisruptCounts ==
    ASSUME EInv, Disrupt
    PROVE  /\ CountOK(client, posts, link, disruptions')
           /\ disruptions' = disruptions + 1 /\ disruptions' \in 0..MaxDisruptions
<1>1. disruptions \in 0..MaxDisruptions /\ MaxDisruptions \in Nat
  BY InvSays, EventBoundAssumption
<1>2. disruptions' = disruptions + 1 /\ disruptions' \in 0..MaxDisruptions
  BY <1>1 DEF Disrupt
<1>3. PICK left \in {0, 1}, dirty \in {0, 1} :
          left = ReplaysLeft(posts) /\ dirty = IF client.dirty THEN 1 ELSE 0
  BY DEF ReplaysLeft
<1>4. link.offers \in Int
  BY InvSays, EventBoundAssumption DEF Link, OfferIds
<1> QED BY <1>1, <1>2, <1>3, <1>4, InvSays DEF CountOK

LEMMA ReadOfIs ==
    ASSUME NEW kind \in {"open", "refresh"}
    PROVE  /\ ReadOf(kind, 0, 0) \in Read /\ ReadOf(kind, 0, 0).kind # "bounded"
           /\ ReadOf(kind, 0, 0).through = 0 /\ ReadOf(kind, 0, 0).cursor = NULL
           /\ ReadOf(kind, 0, 0).live = {}
<1>1. 0 \in Seqs /\ 0 \in OfferIds
  BY EventBoundAssumption DEF Seqs, OfferIds
<1> QED BY <1>1 DEF ReadOf, Read

LEMMA OpenKeeps ==
    ASSUME EInv, Open
    PROVE  EInv'
<1>1. PICK k : k = [client EXCEPT !.tracked = TRUE]
  OBVIOUS
<1>2. PICK r : r = ReadOf("open", 0, 0)
  OBVIOUS
<1>3. PICK w : w = [view EXCEPT !.open = TRUE, !.rendered = NULL, !.error = FALSE, !.read = r]
  OBVIOUS
<1>4. /\ client' = k /\ view' = w
      /\ posts' = (IF client.connected THEN WithControl(posts, Queued("switch", NULL)) ELSE posts)
      /\ UNCHANGED <<acks, stream, link, durable, disruptions>>
  BY <1>1, <1>2, <1>3 DEF Open
<1>5. /\ k \in Client /\ k.cursor = client.cursor /\ k.restored = client.restored
      /\ k.events = client.events /\ k.offer = client.offer /\ k.up = client.up
      /\ k.held = client.held /\ k.replaying = client.replaying
      /\ k.connected = client.connected /\ k.dirty = client.dirty /\ k.tracked
      /\ k.overtaken = client.overtaken
  BY <1>1, InvSays DEF Client
<1>6. /\ r \in Read /\ r.kind # "bounded" /\ r.through = 0 /\ r.cursor = NULL /\ r.live = {}
  BY <1>2, ReadOfIs
<1>7. /\ w \in View /\ w.background = view.background /\ w.rendered = NULL /\ w.read = r /\ w.open
  BY <1>3, <1>6, InvSays DEF View
<1>8. ClosedSays(k, w)
  BY <1>5, <1>7 DEF ClosedSays
<1>9. /\ RequestsOK(k, posts', link) /\ posts'.snapshots = posts.snapshots
      /\ ReplaysLeft(posts') = ReplaysLeft(posts)
  <2>1. RequestsOK(k, posts, link)
    BY <1>5, RestFollows
  <2>2. CASE client.connected
    <3>1. PICK s : s = Queued("switch", NULL)
      OBVIOUS
    <3>2. s \in Control /\ s.kind = "switch" /\ s.cursor = NULL
      BY <3>1 DEF Queued, Control
    <3> QED BY <1>4, <1>5, <2>1, <2>2, <3>1, <3>2, ControlGrows
  <2>3. CASE ~client.connected
    BY <1>4, <2>1, <2>3
  <2> QED BY <2>2, <2>3
<1>10. /\ ScreenOK(k, w, durable) /\ BufferOK(k)
       /\ StreamOK(k, stream, posts', link, durable)
       /\ LinkOK(k, link, durable) /\ CountOK(k, posts, link, disruptions)
       /\ DownOK(k, acks, stream, posts, link) /\ AcksOK(k, acks)
  <2> DEFINE q == posts'
  <2>1. q.snapshots = posts.snapshots
    BY <1>9
  <2> HIDE DEF q
  <2>2. /\ ScreenOK(k, w, durable) /\ BufferOK(k)
        /\ StreamOK(k, stream, q, link, durable)
        /\ LinkOK(k, link, durable) /\ CountOK(k, posts, link, disruptions)
        /\ DownOK(k, acks, stream, posts, link) /\ AcksOK(k, acks)
    BY <1>5, <1>6, <1>7, <1>8, <2>1, ViewMoves
  <2> QED BY <2>2 DEF q
<1>11. CountOK(k, posts', link, disruptions)
  BY <1>9, <1>10 DEF CountOK
<1>12. DownOK(k, acks, stream, posts', link)
  BY <1>4, <1>5, <1>10 DEF DownOK
<1> QED BY <1>4, <1>9, <1>10, <1>11, <1>12, InvSays DEF EInv

LEMMA LeaveKeeps ==
    ASSUME EInv, Leave
    PROVE  EInv'
<1>1. PICK w : w = [view EXCEPT !.open = FALSE, !.rendered = NULL, !.read = NULL]
  OBVIOUS
<1>2. /\ view' = w /\ UNCHANGED <<client, acks, stream, posts, link, durable, disruptions>>
  BY <1>1 DEF Leave
<1>3. /\ w \in View /\ w.background = view.background /\ w.rendered = NULL /\ w.read = NULL
      /\ ~w.open
  BY <1>1, InvSays DEF View
<1>4. ClosedSays(client, w)
  BY <1>3 DEF ClosedSays
<1>5. ScreenOK(client, w, durable) /\ StreamOK(client, stream, posts, link, durable)
  BY <1>3, <1>4, ViewMoves, InvSays
<1> QED BY <1>2, <1>5, InvSays DEF EInv

LEMMA RefreshKeeps ==
    ASSUME EInv, Refresh
    PROVE  EInv'
<1>1. PICK r : r = ReadOf("refresh", 0, 0)
  OBVIOUS
<1>2. PICK w : w = [view EXCEPT !.read = r]
  OBVIOUS
<1>3. /\ view' = w /\ view.open /\ Disrupt
      /\ UNCHANGED <<client, acks, stream, posts, link, durable>>
  BY <1>1, <1>2 DEF Refresh
<1>4. /\ r \in Read /\ r.kind # "bounded" /\ r.through = 0 /\ r.cursor = NULL /\ r.live = {}
  BY <1>1, ReadOfIs
<1>5. /\ w \in View /\ w.background = view.background /\ w.rendered = view.rendered
      /\ w.read = r /\ w.open
  BY <1>2, <1>3, <1>4, InvSays DEF View
<1>6. ClosedSays(client, w)
  BY <1>3, <1>5, InvSays DEF ScreenOK, ClosedSays
<1>7. ScreenOK(client, w, durable) /\ StreamOK(client, stream, posts, link, durable)
  BY <1>4, <1>5, <1>6, ViewMoves, InvSays
<1>8. CountOK(client, posts, link, disruptions')
  BY <1>3, DisruptCounts, InvSays
<1> QED BY <1>3, <1>7, <1>8, InvSays DEF EInv

LEMMA ReadFailsKeeps ==
    ASSUME EInv, ReadFails
    PROVE  EInv'
<1>1. Disrupt /\ durable' = durable
  BY DEF ReadFails
<1>2. CASE /\ view.read # NULL
           /\ view' = [view EXCEPT !.read = NULL, !.error = view.read.kind # "refresh" \/ @]
           /\ UNCHANGED <<client, acks, stream, posts, link>>
  <2>1. PICK b : b = (view.read.kind # "refresh" \/ view.error)
    OBVIOUS
  <2>2. PICK w : w = [view EXCEPT !.read = NULL, !.error = b]
    OBVIOUS
  <2>3. view' = w
    BY <1>2, <2>1, <2>2
  <2>4. b \in BOOLEAN
    BY <2>1
  <2>5. /\ w \in View /\ w.background = view.background /\ w.rendered = view.rendered
        /\ w.read = NULL /\ w.open = view.open
    BY <2>2, <2>4, InvSays DEF View
  <2>6. ClosedSays(client, w)
    BY <2>5, InvSays DEF ScreenOK, ClosedSays
  <2>7. ScreenOK(client, w, durable) /\ StreamOK(client, stream, posts, link, durable)
    BY <2>5, <2>6, ViewMoves, InvSays
  <2>8. CountOK(client, posts, link, disruptions')
    BY <1>1, DisruptCounts, InvSays
  <2> QED BY <1>1, <1>2, <2>3, <2>7, <2>8, InvSays DEF EInv
<1>3. CASE /\ view' = [view EXCEPT !.background = NULL]
           /\ client' = Down(client) /\ Disconnect
  BY <1>1, <1>3, DropKeeps
<1> QED BY <1>2, <1>3 DEF ReadFails

-----------------------------------------------------------------------------
(* The queue of control requests and the connection.                       *)

\* No reconnect request is under way.
NoReplay(p) == \A i \in DOMAIN p.control : p.control[i].kind # "replay"

\* The queue without its head.
LEMMA ControlLeaves ==
    ASSUME NEW c, NEW p, NEW l, RequestsOK(c, p, l), p.control # <<>>,
           NEW q, q = [p EXCEPT !.control = Tail(@)]
    PROVE  /\ RequestsOK(c, q, l) /\ q.snapshots = p.snapshots
           /\ Head(p.control) = p.control[1] /\ Head(p.control) \in Control
           /\ 1 \in DOMAIN p.control
           /\ ReplaysLeft(q) \in {0, ReplaysLeft(p)}
           /\ Head(p.control).kind = "replay" => NoReplay(q)
<1>1. /\ p \in Posts /\ p.control \in Seq(Control) /\ Len(p.control) \in Nat
      /\ Len(p.control) # 0 /\ DOMAIN p.control = 1..Len(p.control)
  BY EmptySeq, LenProperties DEF RequestsOK, Posts
<1> DEFINE t == Tail(p.control)
<1>2. /\ t \in Seq(Control) /\ Len(t) = Len(p.control) - 1
      /\ DOMAIN t = 1..(Len(p.control) - 1)
      /\ \A i \in DOMAIN t : t[i] = p.control[i + 1] /\ i + 1 \in DOMAIN p.control /\ i \in Int /\ i >= 1
  BY <1>1, HeadTailProperties, LenProperties
<1>3. Head(p.control) = p.control[1] /\ 1 \in DOMAIN p.control /\ Head(p.control) \in Control
  BY <1>1
<1>4. q = [p EXCEPT !.control = t]
  OBVIOUS
<1> HIDE DEF t
<1>5. /\ q \in Posts /\ q.control = t /\ q.singles = p.singles /\ q.snapshots = p.snapshots
  BY <1>1, <1>2, <1>4 DEF Posts
<1>6. ControlSays(c, p) /\ SinglesSay(c, p) /\ SnapshotsSay(c, p, l)
  BY DEF RequestsOK
<1>7. ControlSays(c, q)
  <2>1. \A i \in DOMAIN t : /\ t[i].cursor # NULL => t[i].cursor <= Applied(c)
                            /\ t[i].kind = "replay" => t[i].cursor # NULL
    BY <1>2, <1>6 DEF ControlSays
  <2>2. ASSUME NEW i \in DOMAIN t, NEW j \in DOMAIN t, t[i].kind = "replay", t[j].kind = "replay"
        PROVE  i = j
    <3>1. i + 1 = j + 1
      BY <1>2, <1>6, <2>2 DEF ControlSays
    <3> QED BY <1>2, <3>1
  <2> QED BY <1>5, <2>1, <2>2 DEF ControlSays
<1>8. SinglesSay(c, q) /\ SnapshotsSay(c, q, l)
  BY <1>5, <1>6 DEF SinglesSay, SnapshotsSay
<1>9. ReplaysLeft(q) \in {0, ReplaysLeft(p)}
  <2>1. (\E i \in DOMAIN t : t[i].kind = "replay" /\ t[i].step # "done")
        => (\E i \in DOMAIN p.control : p.control[i].kind = "replay" /\ p.control[i].step # "done")
    BY <1>2
  <2> QED BY <1>5, <2>1 DEF ReplaysLeft
<1>10. ASSUME Head(p.control).kind = "replay", NEW i \in DOMAIN q.control, q.control[i].kind = "replay"
       PROVE  FALSE
  <2>1. i + 1 = 1
    BY <1>2, <1>3, <1>5, <1>6, <1>10 DEF ControlSays
  <2> QED BY <1>2, <1>5, <2>1
<1> QED BY <1>3, <1>5, <1>7, <1>8, <1>9, <1>10 DEF RequestsOK, NoReplay

\* The head of the queue is sent, or handled.
LEMMA ControlSteps ==
    ASSUME NEW c, NEW p, NEW l, RequestsOK(c, p, l), p.control # <<>>,
           NEW r \in Control, r.kind = Head(p.control).kind,
           \/ r.cursor = Head(p.control).cursor
           \/ r.cursor = NULL /\ r.kind = "switch",
           NEW q, q = [p EXCEPT !.control[1] = r]
    PROVE  /\ RequestsOK(c, q, l) /\ q.snapshots = p.snapshots
           /\ Head(p.control).step # "done" /\ r.step # "done" =>
                  ReplaysLeft(q) = ReplaysLeft(p)
           /\ r.kind = "replay" /\ r.step = "done" => ReplaysLeft(q) = 0
           /\ r.kind = "replay" /\ Head(p.control).step # "done" => ReplaysLeft(p) = 1
<1>1. /\ p \in Posts /\ p.control \in Seq(Control) /\ Len(p.control) \in Nat
      /\ Len(p.control) # 0 /\ DOMAIN p.control = 1..Len(p.control)
  BY EmptySeq, LenProperties DEF RequestsOK, Posts
<1> DEFINE t == [p.control EXCEPT ![1] = r]
<1>2. /\ t \in Seq(Control) /\ DOMAIN t = DOMAIN p.control
      /\ t[1] = r /\ \A i \in DOMAIN t : i # 1 => t[i] = p.control[i]
  BY <1>1, ExceptSeq
<1>3. Head(p.control) = p.control[1] /\ 1 \in DOMAIN p.control
  BY <1>1
<1>4. q = [p EXCEPT !.control = t]
  OBVIOUS
<1> HIDE DEF t
<1>5. /\ q \in Posts /\ q.control = t /\ q.singles = p.singles /\ q.snapshots = p.snapshots
  BY <1>1, <1>2, <1>4 DEF Posts
<1>6. ControlSays(c, p) /\ SinglesSay(c, p) /\ SnapshotsSay(c, p, l)
  BY DEF RequestsOK
<1>7. \A i \in DOMAIN t : t[i].kind = p.control[i].kind
  BY <1>2, <1>3
<1>8. ControlSays(c, q)
  <2>1. \A i \in DOMAIN t : /\ t[i].cursor # NULL => t[i].cursor <= Applied(c)
                            /\ t[i].kind = "replay" => t[i].cursor # NULL
    <3>1. /\ r.cursor # NULL => r.cursor <= Applied(c)
          /\ r.kind = "replay" => r.cursor # NULL
      BY <1>3, <1>6 DEF ControlSays
    <3> QED BY <1>2, <1>6, <3>1 DEF ControlSays
  <2> QED BY <1>2, <1>5, <1>6, <1>7, <2>1 DEF ControlSays
<1>9. SinglesSay(c, q) /\ SnapshotsSay(c, q, l)
  BY <1>5, <1>6 DEF SinglesSay, SnapshotsSay
<1>10. ASSUME Head(p.control).step # "done", r.step # "done"
       PROVE  ReplaysLeft(q) = ReplaysLeft(p)
  <2>1. \A i \in DOMAIN t : (t[i].kind = "replay" /\ t[i].step # "done")
                            <=> (p.control[i].kind = "replay" /\ p.control[i].step # "done")
    BY <1>2, <1>3, <1>10
  <2> QED BY <1>2, <1>5, <2>1 DEF ReplaysLeft
<1>11. ASSUME r.kind = "replay", r.step = "done"
       PROVE  ReplaysLeft(q) = 0
  <2>1. \A i \in DOMAIN t : t[i].kind = "replay" => i = 1
    BY <1>2, <1>3, <1>6, <1>7, <1>11 DEF ControlSays
  <2> QED BY <1>2, <1>5, <1>11, <2>1 DEF ReplaysLeft
<1>12. ASSUME r.kind = "replay", Head(p.control).step # "done"
       PROVE  ReplaysLeft(p) = 1
  BY <1>3, <1>12 DEF ReplaysLeft
<1> QED BY <1>5, <1>8, <1>9, <1>10, <1>11, <1>12 DEF RequestsOK

\* A client that only says otherwise how far its reconnect request is.
LEMMA FlagsMove ==
    ASSUME EInv, NEW k \in Client, k.cursor = client.cursor, k.restored = client.restored,
           k.events = client.events, k.offer = client.offer, k.up = client.up,
           k.held = client.held, k.tracked = client.tracked,
           k.overtaken = client.overtaken,
           k.replaying \/ k.replaying = client.replaying,
           NEW q, q.snapshots = posts.snapshots
    PROVE  /\ ScreenOK(k, view, durable) /\ BufferOK(k)
           /\ StreamOK(k, stream, q, link, durable)
           /\ RequestsOK(k, posts, link) /\ LinkOK(k, link, durable)
           /\ AcksOK(k, acks)
<1>1. Applied(client) <= Applied(k)
  BY AppliedKeeps, InvSays
<1>2. RequestsOK(k, posts, link) /\ LinkOK(k, link, durable) /\ AcksOK(k, acks)
  BY <1>1, RequestsMove, LinkMoves, AcksMove, InvSays
<1>3. BufferOK(k)
  BY InvSays DEF BufferOK
<1>4. \A x : ClientWithin(client, x) => ClientWithin(k, x)
  BY DEF ClientWithin
<1>5. StreamOK(k, stream, q, link, durable)
  BY <1>1, StreamMoves, InvSays
<1>6. ScreenOK(k, view, durable)
  <2>1. ClientWithin(k, durable)
    BY <1>4, InvSays DEF ScreenOK
  <2>2. TranscriptSays(k, view)
    BY InvSays DEF ScreenOK, TranscriptSays, Restoring
  <2>3. OfferSays(k, view) /\ ClosedSays(k, view)
    BY InvSays DEF ScreenOK, OfferSays, ClosedSays
  <2>4. ScreenSays(k, view)
    BY InvSays DEF ScreenOK, ScreenSays, Fenced, Covered
  <2>5. BackgroundSays(k, view)
    BY InvSays DEF ScreenOK, BackgroundSays, Fenced
  <2> QED BY <2>1, <2>2, <2>3, <2>4, <2>5, InvSays DEF ScreenOK
<1> QED BY <1>2, <1>3, <1>5, <1>6

\* A reconnect request for the client's cursor.
LEMMA ReplayIs ==
    ASSUME NEW n \in Seqs, NEW r, r = Queued("replay", n)
    PROVE  /\ r \in Control /\ r.kind = "replay" /\ r.cursor = n /\ r.cursor # NULL
           /\ r.step = "queued"
  BY SeqsAre DEF Queued, Control

-----------------------------------------------------------------------------
(* The server's record, and what it sends.                                 *)

\* A record with the same number of offers.
LEMMA LinkChanges ==
    ASSUME NEW c, NEW p, NEW l, RequestsOK(c, p, l), NEW m, m.offers = l.offers
    PROVE  RequestsOK(c, p, m) /\ \A n : CountOK(c, p, l, n) => CountOK(c, p, m, n)
  BY DEF RequestsOK, SnapshotsSay, CountOK

\* Events, all of them durable by now, follow what is on its way.
LEMMA StreamGrows ==
    ASSUME NEW c, NEW s, NEW p, NEW l, NEW d \in Seqs, StreamOK(c, s, p, l, d),
           NEW b \in Seq(Message), NEW e \in Seqs, d <= e,
           \A i \in DOMAIN b : ~IsOffer(b[i]) /\ Level(b[i]) <= e,
           NEW q, \A t \in q.snapshots : \E u \in p.snapshots : u.id = t.id,
           NEW m, m.offers = l.offers,
           (\E i \in DOMAIN s : IsOffer(s[i])) => m.applied /\ m.cursor <= Applied(c),
           NEW now, now = s \o b
    PROVE  StreamOK(c, now, q, m, e)
<1>1. s \in Seq(Message)
  BY DEF StreamOK
<1>2. /\ now \in Seq(Message) /\ Len(now) = Len(s) + Len(b)
      /\ \A i \in 1..Len(now) : now[i] = IF i <= Len(s) THEN s[i] ELSE b[i - Len(s)]
  <2>1. /\ s \o b \in Seq(Message) /\ Len(s \o b) = Len(s) + Len(b)
        /\ \A i \in 1..Len(s \o b) : (s \o b)[i] = IF i <= Len(s) THEN s[i] ELSE b[i - Len(s)]
    BY <1>1, ConcatProperties, Zenon
  <2> QED BY <2>1
<1>3. /\ Len(s) \in Nat /\ Len(b) \in Nat /\ DOMAIN s = 1..Len(s) /\ DOMAIN b = 1..Len(b)
      /\ DOMAIN now = 1..Len(now)
  BY <1>1, <1>2, LenProperties
<1>4. ASSUME NEW i \in DOMAIN now
      PROVE  \/ i \in DOMAIN s /\ now[i] = s[i]
             \/ i > Len(s) /\ i - Len(s) \in DOMAIN b /\ now[i] = b[i - Len(s)]
  <2>1. i \in Int /\ 1 <= i /\ i <= Len(s) + Len(b)
    BY <1>2, <1>3
  <2>2. CASE i <= Len(s)
    BY <1>2, <1>3, <2>1, <2>2
  <2>3. CASE i > Len(s)
    BY <1>2, <1>3, <2>1, <2>3
  <2> QED BY <1>3, <2>1, <2>2, <2>3
<1>5. \A i \in DOMAIN now : IsOffer(now[i]) => i \in DOMAIN s /\ now[i] = s[i]
  BY <1>4
<1>6. StreamWithin(now, e)
  <2>1. \A i \in DOMAIN s : Level(s[i]) <= e
    <3>1. \A i \in DOMAIN s : Level(s[i]) <= d
      BY DEF StreamOK, StreamWithin
    <3>2. \A i \in DOMAIN s : Level(s[i]) \in Int
      <4>1. \A i \in DOMAIN s : s[i] \in Message
        BY <1>1, <1>3
      <4> QED BY <4>1, MessageIs, SeqsAre
    <3>3. d \in Int /\ e \in Int
      BY SeqsAre
    <3> QED BY <3>1, <3>2, <3>3
  <2> QED BY <1>4, <2>1 DEF StreamWithin
<1>7. OffersInOrder(now)
  <2> SUFFICES ASSUME NEW i \in DOMAIN now, NEW j \in DOMAIN now, IsOffer(now[i]), IsOffer(now[j]), j < i
               PROVE  now[j].id < now[i].id
    BY DEF OffersInOrder
  <2>1. i \in DOMAIN s /\ now[i] = s[i]
    BY <1>5
  <2>2. j \in DOMAIN s /\ now[j] = s[j]
    BY <1>2, <1>3, <2>1
  <2> QED BY <2>1, <2>2 DEF StreamOK, OffersInOrder
<1>8. \A i \in DOMAIN now : IsOffer(now[i]) => OfferAhead(now[i], c, q, m)
  <2> SUFFICES ASSUME NEW i \in DOMAIN s, IsOffer(s[i]) PROVE OfferAhead(s[i], c, q, m)
    BY <1>5
  <2>1. OfferAhead(s[i], c, p, l)
    BY DEF StreamOK
  <2> QED BY <2>1 DEF OfferAhead
<1> QED BY <1>2, <1>6, <1>7, <1>8 DEF StreamOK

\* The stream does not change, the record does.
LEMMA StreamStays ==
    ASSUME NEW c, NEW s, NEW p, NEW l, NEW d \in Seqs, StreamOK(c, s, p, l, d),
           NEW e \in Seqs, d <= e, NEW m, m.offers = l.offers,
           NEW q, \A t \in q.snapshots : \E u \in p.snapshots : u.id = t.id,
           (\E i \in DOMAIN s : IsOffer(s[i])) => m.applied /\ m.cursor <= Applied(c)
    PROVE  StreamOK(c, s, q, m, e)
<1>1. s \in Seq(Message) /\ <<>> \in Seq(Message) /\ DOMAIN <<>> = {}
  BY DEF StreamOK
<1>2. s = s \o <<>>
  BY <1>1, ConcatEmptySeq, Zenon
<1>3. PICK b : b = <<>>
  OBVIOUS
<1>4. b \in Seq(Message) /\ \A i \in DOMAIN b : ~IsOffer(b[i]) /\ Level(b[i]) <= e
  BY <1>1, <1>3
<1>5. s = s \o b
  BY <1>2, <1>3
<1> QED BY <1>4, <1>5, StreamGrows

\* The events of a retry are durable, and the record goes no further.
LEMMA RetriedIs ==
    ASSUME NEW l \in Link, NEW from \in Seqs, NEW d \in Seqs,
           l.cursor <= d, l.forwarded <= d,
           NEW k, k = Missed(l, from, d), NEW m, m = Retried(l, from, d),
           NEW b, b = EventsFrom(from, k)
    PROVE  /\ m \in Link /\ m.watched = l.watched /\ m.applied = l.applied
           /\ m.offer = l.offer /\ m.offers = l.offers
           /\ m.cursor <= d /\ m.forwarded <= d
           /\ m.applied => m.cursor = l.cursor
           /\ b \in Seq(Message)
           /\ \A i \in DOMAIN b : ~IsOffer(b[i]) /\ Level(b[i]) <= d
<1>1. /\ from \in Int /\ 0 <= from /\ d \in Int /\ 0 <= d /\ d <= MaxEvents
      /\ Batch \in Int /\ Batch > 0 /\ 0 \in Seqs /\ MaxEvents \in Int
  BY SeqsAre
<1>2. k \in Nat /\ (k = 0 \/ from + k <= d)
  BY <1>1 DEF Missed, Smaller
<1>3. from + k \in Seqs
  BY <1>1, <1>2, SeqsAre
<1>4. /\ b \in Seq(Message)
      /\ \A i \in DOMAIN b : ~IsOffer(b[i]) /\ Level(b[i]) <= d
  <2>1. \A i \in 1..k : from + i \in Events /\ from + i <= d
    BY <1>1, <1>2, SeqsAre
  <2>2. \A i \in 1..k : [event |-> from + i] \in Message
    BY <2>1 DEF Message
  <2>3. b = [i \in 1..k |-> [event |-> from + i]]
    BY DEF EventsFrom
  <2>4. b \in Seq(Message) /\ DOMAIN b = 1..k
    BY <1>2, <2>2, <2>3
  <2>5. ASSUME NEW i \in 1..k PROVE ~IsOffer(b[i]) /\ Level(b[i]) <= d
    <3>1. b[i] = [event |-> from + i]
      BY <2>3
    <3> QED BY <2>1, <3>1 DEF IsOffer, Level
  <2> QED BY <2>4, <2>5
<1>5. CASE l.offer # NULL
  BY <1>4, <1>5 DEF Retried
<1>6. CASE l.offer = NULL
  <2>1. l.cursor \in Seqs /\ l.forwarded \in Seqs /\ l.boundary \in Seqs
    BY DEF Link
  <2>2. PICK g : g = IF k = Batch /\ l.applied THEN from + k ELSE 0
    OBVIOUS
  <2>3. PICK f : f = IF k = 0 THEN l.forwarded ELSE Larger(l.forwarded, from + k)
    OBVIOUS
  <2>4. PICK r : r = IF k = 0 \/ l.applied THEN l.cursor ELSE Larger(l.cursor, from + k)
    OBVIOUS
  <2>5. m = [l EXCEPT !.boundary = g, !.forwarded = f, !.cursor = r]
    BY <1>6, <2>2, <2>3, <2>4 DEF Retried
  <2>6. g \in Seqs
    BY <1>1, <1>3, <2>2
  <2>7. f \in Seqs /\ f <= d
    BY <1>2, <1>3, <2>1, <2>3 DEF Larger
  <2>8. r \in Seqs /\ r <= d
    BY <1>2, <1>3, <2>1, <2>4 DEF Larger
  <2>9. /\ m \in Link /\ m.watched = l.watched /\ m.applied = l.applied
        /\ m.offer = l.offer /\ m.offers = l.offers /\ m.cursor = r /\ m.forwarded = f
    BY <2>5, <2>6, <2>7, <2>8 DEF Link
  <2> QED BY <1>4, <2>4, <2>7, <2>8, <2>9
<1> QED BY <1>5, <1>6

\* The link's record is changed, and what it sends is of durable events.
LEMMA ServerKeeps ==
    ASSUME EInv, NEW e \in Seqs, durable <= e,
           NEW m \in Link, m.offers = link.offers, m.applied => m.watched,
           m.offer # NULL => m.offer.id = m.offers,
           m.cursor <= e, m.forwarded <= e, Kept(client, m),
           (\E i \in DOMAIN stream : IsOffer(stream[i])) => m.applied /\ m.cursor <= Applied(client),
           NEW b \in Seq(Message),
           \A i \in DOMAIN b : ~IsOffer(b[i]) /\ Level(b[i]) <= e,
           client' = client, view' = view, disruptions' = disruptions,
           durable' = e, link' = m, stream' = stream \o b,
           RequestsOK(client, posts', link), ReplaysLeft(posts') <= ReplaysLeft(posts),
           \A t \in posts'.snapshots : \E u \in posts.snapshots : u.id = t.id,
           AcksOK(client, acks'),
           client.up \/ (acks' = acks /\ posts' = posts /\ m = link /\ b = <<>>)
    PROVE  EInv'
<1>1. ScreenOK(client, view, e)
  <2>1. durable \in Int /\ e \in Int
    BY SeqsAre, InvSays
  <2>2. /\ client.cursor \in Int /\ client.restored \in Int /\ client.overtaken \in Int
        /\ \A y \in client.events : y \in Int
        /\ client.offer # NULL => client.offer.cursor \in Int /\ client.offer.installed \in Int
    BY ClientIs, SeqsAre, InvSays
  <2>3. ClientWithin(client, e)
    BY <2>1, <2>2, InvSays DEF ScreenOK, ClientWithin
  <2>4. /\ view.read # NULL => view.read \in Read
        /\ view.background # NULL => view.background.cursor \in Seqs
    BY InvSays DEF View
  <2>5. ReadsWithin(view, e)
    <3>1. view.read # NULL => view.read.through \in Seqs
      BY <2>4 DEF Read
    <3> QED BY <2>1, <2>4, <3>1, SeqsAre, InvSays DEF ScreenOK, ReadsWithin
  <2>6. ReadWithin(view, e)
    <3>1. view.read # NULL => /\ view.read.cursor # NULL => view.read.cursor \in Seqs
                              /\ view.read.live \subseteq Events
      BY <2>4 DEF Read
    <3>2. view.read # NULL => \A y \in view.read.live : y \in Int
      BY <3>1, SeqsAre
    <3> QED BY <2>1, <3>1, <3>2, SeqsAre, InvSays DEF ScreenOK, ReadWithin
  <2> QED BY <2>3, <2>5, <2>6, InvSays DEF ScreenOK
<1>2. LinkOK(client, m, e)
  BY DEF LinkOK
<1> DEFINE q == posts'
           now == stream'
<1>3. StreamOK(client, now, q, m, e)
  <2>1. now = stream \o b /\ \A t \in q.snapshots : \E u \in posts.snapshots : u.id = t.id
    OBVIOUS
  <2> HIDE DEF now, q
  <2> QED BY <2>1, StreamGrows, InvSays
<1>4. RequestsOK(client, q, m)
  <2>1. RequestsOK(client, q, link)
    OBVIOUS
  <2> HIDE DEF q
  <2> QED BY <2>1, LinkChanges
<1>5. CountOK(client, q, m, disruptions)
  <2>1. ReplaysLeft(q) <= ReplaysLeft(posts)
    OBVIOUS
  <2> HIDE DEF q
  <2>2. ReplaysLeft(q) \in Int /\ ReplaysLeft(posts) \in Int
    BY DEF ReplaysLeft
  <2>3. link.offers \in Int
    BY EventBoundAssumption, InvSays DEF Link, OfferIds
  <2>4. disruptions \in Int
    BY InvSays
  <2>5. PICK dirty \in {0, 1} : dirty = IF client.dirty THEN 1 ELSE 0
    OBVIOUS
  <2> QED BY <2>1, <2>2, <2>3, <2>4, <2>5, InvSays DEF CountOK
<1>6. DownOK(client, acks', now, q, m)
  <2>1. CASE client.up
    BY <2>1 DEF DownOK
  <2>2. CASE acks' = acks /\ posts' = posts /\ m = link /\ b = <<>> /\ ~client.up
    <3>1. stream = <<>> /\ <<>> \o <<>> = <<>>
      BY <2>2, InvSays DEF DownOK
    <3> QED BY <2>2, <3>1, InvSays DEF DownOK
  <2> QED BY <2>1, <2>2
<1> QED BY <1>1, <1>2, <1>3, <1>4, <1>5, <1>6, InvSays DEF EInv

-----------------------------------------------------------------------------
(* Control requests and the connection, one action at a time.              *)

LEMMA WelcomeKeeps ==
    ASSUME EInv, Welcome
    PROVE  EInv'
<1>1. ~client.up
  BY DEF Welcome
<1>2. stream = <<>> /\ posts = NoPosts /\ acks = NULL /\ link = NoLink /\ ~client.connected
  BY <1>1, InvSays DEF DownOK
<1>3. PICK k : k = [client EXCEPT !.up = TRUE, !.connected = ~client.tracked,
                        !.replaying = client.tracked, !.dirty = FALSE,
                        !.events = {}, !.held = FALSE, !.offer = NULL, !.restored = 0,
                        !.overtaken = 0]
  OBVIOUS
<1>4. PICK w : w = [view EXCEPT !.background = NULL]
  OBVIOUS
<1>5. PICK r : r = Queued("replay", client.cursor)
  OBVIOUS
<1>6. PICK q : q = IF client.tracked THEN WithControl(NoPosts, r) ELSE NoPosts
  OBVIOUS
<1>7. /\ client' = k /\ view' = w /\ posts' = q /\ acks' = NULL /\ link' = NoLink
      /\ stream' = <<>> /\ durable' = durable /\ disruptions' = disruptions
  BY <1>3, <1>4, <1>5, <1>6 DEF Welcome
<1>8. /\ k \in Client /\ k.up /\ ~k.dirty /\ k.cursor = client.cursor
      /\ k.tracked = client.tracked /\ k.replaying = client.tracked
      /\ k.events = {} /\ k.offer = NULL /\ k.restored = 0 /\ k.overtaken = 0 /\ ~Fenced(k)
  <2>1. client \in Client /\ 0 \in Seqs
    BY SeqsAre, InvSays
  <2>2. client.tracked \in BOOLEAN
    BY <2>1, ClientIs
  <2>3. /\ k \in Client /\ k.up /\ ~k.dirty /\ k.cursor = client.cursor
        /\ k.tracked = client.tracked /\ k.replaying = client.tracked
        /\ k.events = {} /\ k.offer = NULL /\ k.restored = 0 /\ k.overtaken = 0 /\ ~k.held
    BY <1>3, <2>1, <2>2 DEF Client
  <2> QED BY <2>3 DEF Fenced
<1>9. /\ w \in View /\ w.open = view.open /\ w.rendered = view.rendered
      /\ w.read = view.read /\ w.background = NULL
  BY <1>4, InvSays DEF View
<1>10. ScreenOK(k, w, durable)
  <2>1. PICK g : g = [client EXCEPT !.up = FALSE, !.events = {}, !.held = FALSE,
                          !.offer = NULL, !.restored = 0]
    OBVIOUS
  <2>2. /\ g \in Client /\ ~g.up /\ g.cursor = client.cursor /\ g.tracked = client.tracked
        /\ g.events = {} /\ g.offer = NULL /\ g.restored = 0 /\ ~Fenced(g)
        /\ g.overtaken = client.overtaken
    <3>1. client \in Client /\ 0 \in Seqs
      BY SeqsAre, InvSays
    <3>2. /\ g \in Client /\ ~g.up /\ g.cursor = client.cursor /\ g.tracked = client.tracked
          /\ g.events = {} /\ g.offer = NULL /\ g.restored = 0 /\ ~g.held
          /\ g.overtaken = client.overtaken
      BY <2>1, <3>1 DEF Client
    <3> QED BY <3>2 DEF Fenced
  <2>3. ScreenOK(g, w, durable)
    BY <1>9, <2>2, ClosedKeeps, InvSays
  <2>4. ClientWithin(k, durable)
    BY <1>8, <2>2, <2>3, SeqsAre, InvSays DEF ScreenOK, ClientWithin
  <2>5. TranscriptSays(k, w)
    <3>1. w.read # NULL => Restoring(k)
      BY <1>8, <1>9, InvSays DEF ScreenOK, ClosedSays, Restoring
    <3> QED BY <1>8, <2>2, <2>3, <3>1 DEF ScreenOK, TranscriptSays
  <2>6. OfferSays(k, w) /\ BackgroundSays(k, w)
    BY <1>8, <1>9 DEF OfferSays, BackgroundSays
  <2>7. ClosedSays(k, w)
    BY <1>8, <2>2, <2>3 DEF ScreenOK, ClosedSays
  <2>8. ScreenSays(k, w)
    BY <1>8, <2>7 DEF ScreenSays, ClosedSays
  <2> QED BY <1>8, <2>3, <2>4, <2>5, <2>6, <2>7, <2>8 DEF ScreenOK
<1>11. BufferOK(k)
  BY <1>8, FS_EmptySet, SeqsAre DEF BufferOK
<1>12. /\ NoPosts \in Posts /\ RequestsOK(k, NoPosts, NoLink) /\ ReplaysLeft(NoPosts) = 0
       /\ NoPosts.snapshots = {} /\ DOMAIN NoPosts.control = {}
  <2>1. NoPosts \in Posts
    BY DEF NoPosts, Posts
  <2>2. /\ NoPosts.control = <<>> /\ NoPosts.singles = <<>> /\ NoPosts.snapshots = {}
        /\ DOMAIN <<>> = {}
    BY DEF NoPosts
  <2>3. ControlSays(k, NoPosts) /\ SinglesSay(k, NoPosts) /\ ReplaysLeft(NoPosts) = 0
    BY <2>2 DEF ControlSays, SinglesSay, ReplaysLeft
  <2>4. SnapshotsSay(k, NoPosts, NoLink)
    BY <1>8, <2>2 DEF SnapshotsSay
  <2> QED BY <2>1, <2>2, <2>3, <2>4 DEF RequestsOK
<1>13. RequestsOK(k, q, NoLink) /\ ReplaysLeft(q) \in {0, 1}
  <2>1. CASE client.tracked
    <3>1. r \in Control /\ r.kind = "replay" /\ r.cursor = client.cursor /\ r.cursor # NULL
          /\ r.step = "queued"
      BY <1>5, ReplayIs, InvSays
    <3>2. r.cursor <= Applied(k)
      BY <1>8, <3>1, AppliedIs, InvSays
    <3> QED BY <1>6, <1>8, <1>12, <2>1, <3>1, <3>2, ControlGrows
  <2>2. CASE ~client.tracked
    BY <1>6, <1>12, <2>2
  <2> QED BY <2>1, <2>2
<1>14. LinkOK(k, NoLink, durable)
  <2>1. 0 \in Seqs /\ 0 <= durable
    BY SeqsAre, InvSays
  <2>2. 0 \in OfferIds
    BY EventBoundAssumption DEF OfferIds
  <2>3. NoLink \in Link
    BY <2>1, <2>2 DEF NoLink, Link
  <2> QED BY <2>1, <2>3 DEF LinkOK, Kept, NoLink
<1>15. StreamOK(k, <<>>, q, NoLink, durable)
  BY DEF StreamOK, StreamWithin, OffersInOrder
<1>16. CountOK(k, q, NoLink, disruptions)
  BY <1>8, <1>13, InvSays DEF CountOK, NoLink
<1>17. AcksOK(k, NULL) /\ DownOK(k, NULL, <<>>, q, NoLink)
  BY <1>8 DEF AcksOK, DownOK
<1> QED BY <1>7, <1>10, <1>11, <1>13, <1>14, <1>15, <1>16, <1>17, InvSays DEF EInv

LEMMA LinkDropsKeeps ==
    ASSUME EInv, LinkDrops \/ GapTimer
    PROVE  EInv'
  BY DropKeeps DEF LinkDrops, GapTimer

LEMMA ResumeKeeps ==
    ASSUME EInv, Resume
    PROVE  EInv'
<1>1. /\ client.connected /\ Disrupt
      /\ UNCHANGED <<acks, view, stream, link, durable>>
  BY DEF Resume
<1>2. client.up
  BY <1>1, InvSays DEF DownOK
<1>3. /\ disruptions' = disruptions + 1 /\ disruptions' \in 0..MaxDisruptions
      /\ disruptions \in Int /\ link.offers \in Int
  BY <1>1, DisruptCounts, InvSays, EventBoundAssumption DEF Link, OfferIds
<1>4. PICK dirty \in {0, 1} : dirty = IF client.dirty THEN 1 ELSE 0
  OBVIOUS
<1>5. CASE Replaying(client)
  <2>1. PICK k : k = [client EXCEPT !.dirty = TRUE]
    OBVIOUS
  <2>2. client' = k /\ posts' = posts
    BY <1>5, <2>1 DEF Resume
  <2>3. /\ k \in Client /\ k.cursor = client.cursor /\ k.restored = client.restored
        /\ k.events = client.events /\ k.offer = client.offer /\ k.up = client.up
        /\ k.held = client.held /\ k.tracked = client.tracked /\ k.dirty
        /\ k.replaying = client.replaying /\ k.overtaken = client.overtaken
    BY <2>1, InvSays DEF Client
  <2>4. /\ ScreenOK(k, view, durable) /\ BufferOK(k)
        /\ StreamOK(k, stream, posts, link, durable)
        /\ RequestsOK(k, posts, link) /\ LinkOK(k, link, durable) /\ AcksOK(k, acks)
    BY <2>3, FlagsMove
  <2>5. DownOK(k, acks, stream, posts, link)
    BY <1>2, <2>3 DEF DownOK
  <2>6. CountOK(k, posts, link, disruptions')
    <3>1. ReplaysLeft(posts) \in Int
      BY DEF ReplaysLeft
    <3> QED BY <1>2, <1>3, <1>4, <2>3, <3>1, InvSays DEF CountOK
  <2> QED BY <1>1, <2>2, <2>4, <2>5, <2>6, InvSays DEF EInv
<1>6. CASE ~Replaying(client)
  <2>1. PICK k : k = [client EXCEPT !.replaying = TRUE]
    OBVIOUS
  <2>2. PICK r : r = Queued("replay", client.cursor)
    OBVIOUS
  <2>3. PICK q : q = WithControl(posts, r)
    OBVIOUS
  <2>4. client' = k /\ posts' = q
    BY <1>6, <2>1, <2>2, <2>3 DEF Resume
  <2>5. /\ k \in Client /\ k.cursor = client.cursor /\ k.restored = client.restored
        /\ k.events = client.events /\ k.offer = client.offer /\ k.up = client.up
        /\ k.held = client.held /\ k.tracked = client.tracked /\ k.dirty = client.dirty
        /\ k.replaying /\ k.overtaken = client.overtaken
    BY <2>1, InvSays DEF Client
  <2>6. /\ r \in Control /\ r.kind = "replay" /\ r.cursor = client.cursor /\ r.cursor # NULL
        /\ r.step = "queued"
    BY <2>2, ReplayIs, InvSays
  <2>7. \A i \in DOMAIN posts.control : posts.control[i].kind # "replay"
    BY <1>6 DEF Replaying
  <2>8. RequestsOK(k, posts, link)
    BY <2>5, FlagsMove
  <2>9. r.cursor <= Applied(k)
    BY <2>5, <2>6, AppliedIs, InvSays
  <2>10. /\ RequestsOK(k, q, link) /\ ReplaysLeft(q) = 1 /\ q.snapshots = posts.snapshots
    BY <2>3, <2>5, <2>6, <2>7, <2>8, <2>9, ControlGrows
  <2>11. /\ ScreenOK(k, view, durable) /\ BufferOK(k)
         /\ StreamOK(k, stream, q, link, durable)
         /\ LinkOK(k, link, durable) /\ AcksOK(k, acks)
    BY <2>5, <2>10, FlagsMove
  <2>12. DownOK(k, acks, stream, q, link)
    BY <1>2, <2>5 DEF DownOK
  <2>13. CountOK(k, q, link, disruptions')
    <3>1. ReplaysLeft(posts) = 0
      BY <2>7 DEF ReplaysLeft
    <3> QED BY <1>2, <1>3, <1>4, <2>5, <2>10, <3>1, InvSays DEF CountOK
  <2> QED BY <1>1, <2>4, <2>10, <2>11, <2>12, <2>13, InvSays DEF EInv
<1> QED BY <1>5, <1>6

\* What was applied is durable, and the client's cursor is no further.
LEMMA AppliedSays ==
    ASSUME EInv
    PROVE  /\ Applied(client) \in Seqs /\ Applied(client) \in Int
           /\ Applied(client) <= durable /\ client.cursor <= Applied(client)
<1>1. /\ Applied(client) \in Seqs /\ client.cursor <= Applied(client)
      /\ Applied(client) \in {client.cursor, client.overtaken}
  BY AppliedIs, InvSays
<1>2. client.cursor <= durable /\ client.overtaken <= durable
  BY InvSays DEF ScreenOK, ClientWithin
<1> QED BY <1>1, <1>2, SeqsAre

\* The head of the queue is a control request, and the client is connected.
LEMMA ControlHead ==
    ASSUME EInv, posts.control # <<>>
    PROVE  /\ client.up
           /\ Head(posts.control) = posts.control[1] /\ Head(posts.control) \in Control
           /\ 1 \in DOMAIN posts.control /\ posts.control \in Seq(Control)
           /\ Head(posts.control).cursor # NULL =>
                  /\ Head(posts.control).cursor \in Seqs
                  /\ Head(posts.control).cursor <= Applied(client)
           /\ Head(posts.control).kind = "replay" => Head(posts.control).cursor # NULL
<1>1. client.up
  BY InvSays DEF DownOK, NoPosts
<1>2. posts.control \in Seq(Control)
  BY InvSays DEF Posts
<1>3. /\ Head(posts.control) = posts.control[1] /\ Head(posts.control) \in Control
      /\ 1 \in DOMAIN posts.control
  <2>1. PICK q : q = [posts EXCEPT !.control = Tail(@)]
    OBVIOUS
  <2> QED BY <2>1, ControlLeaves, InvSays
<1>4. ControlSays(client, posts)
  BY InvSays DEF RequestsOK
<1>5. Head(posts.control).cursor \in Seqs \cup {NULL}
  BY <1>3 DEF Control
<1> QED BY <1>1, <1>2, <1>3, <1>4, <1>5 DEF ControlSays

LEMMA SendControlKeeps ==
    ASSUME EInv, SendControl
    PROVE  EInv'
<1>1. posts.control # <<>> /\ Head(posts.control).step = "queued"
  BY DEF SendControl
<1> DEFINE h == posts.control[1]
<1>2. /\ client.up /\ Head(posts.control) = h /\ h \in Control /\ 1 \in DOMAIN posts.control
      /\ posts.control \in Seq(Control)
  BY <1>1, ControlHead
<1>3. PICK n : n = IF h.kind = "switch" /\ Fenced(client) THEN NULL ELSE h.cursor
  OBVIOUS
<1>4. PICK r : r = [h EXCEPT !.step = "sent", !.cursor = n]
  OBVIOUS
<1>5. PICK q : q = [posts EXCEPT !.control[1] = r]
  OBVIOUS
<1>6. n \in Seqs \cup {NULL}
  BY <1>2, <1>3 DEF Control
<1>7. r \in Control /\ r.kind = h.kind /\ r.cursor = n /\ r.step = "sent"
  BY <1>2, <1>4, <1>6 DEF Control
<1>8. posts' = q
  <2>1. posts' = [posts EXCEPT !.control[1].step = "sent", !.control[1].cursor = n]
    <3>1. posts' = [posts EXCEPT !.control[1].step = "sent",
                     !.control[1].cursor =
                         IF posts.control[1].kind = "switch" /\ Fenced(client) THEN NULL ELSE @]
      BY DEF SendControl
    <3> HIDE DEF h
    <3>2. posts \in Posts
      BY InvSays
    <3> QED BY <1>2, <1>3, <3>1, <3>2 DEF h, Posts, Control
  <2>2. posts \in Posts
    BY InvSays
  <2> QED BY <1>2, <1>4, <1>5, <2>1, <2>2 DEF Posts, Control
<1> HIDE DEF h
<1>9. /\ RequestsOK(client, q, link) /\ q.snapshots = posts.snapshots
      /\ ReplaysLeft(q) = ReplaysLeft(posts)
  BY <1>1, <1>2, <1>3, <1>5, <1>7, ControlSteps, InvSays
<1>10. StreamOK(client, stream, q, link, durable)
  BY <1>9, FlagsMove, InvSays
<1>11. CountOK(client, q, link, disruptions) /\ DownOK(client, acks, stream, q, link)
  BY <1>2, <1>9, InvSays DEF CountOK, DownOK
<1>12. UNCHANGED <<client, acks, view, stream, link, durable, disruptions>>
  BY DEF SendControl, clientVars
<1> QED BY <1>8, <1>9, <1>10, <1>11, <1>12, InvSays DEF EInv

\* A new offer follows what is on its way.
LEMMA OfferGrows ==
    ASSUME EInv, client.up, NEW l, l \in Link, l.offers = link.offers + 1, l.applied,
           l.cursor <= Applied(client), NEW o, o = [cursor |-> durable, id |-> link.offers + 1],
           link.offers + 1 \in OfferIds,
           NEW q, q.snapshots = posts.snapshots, NEW s, s = Append(stream, o)
    PROVE  StreamOK(client, s, q, l, durable)
<1>1. /\ o \in Message /\ IsOffer(o) /\ Level(o) = durable /\ o.cursor = durable
      /\ o.id = link.offers + 1
  BY InvSays DEF Message, IsOffer, Level
<1>2. stream \in Seq(Message) /\ StreamOK(client, stream, posts, link, durable)
  BY InvSays DEF StreamOK
<1>3. /\ s \in Seq(Message) /\ Len(stream) \in Nat /\ DOMAIN stream = 1..Len(stream)
      /\ DOMAIN s = 1..(Len(stream) + 1)
      /\ s[Len(stream) + 1] = o
      /\ \A i \in 1..Len(stream) : s[i] = stream[i]
  BY <1>1, <1>2, AppendProperties, LenProperties
<1>4. \A i \in DOMAIN s : \/ i \in DOMAIN stream /\ s[i] = stream[i] /\ i < Len(stream) + 1
                          \/ i = Len(stream) + 1 /\ s[i] = o
  BY <1>3
<1>5. link.offers \in Int /\ link.offers < link.offers + 1 /\ durable <= durable
  BY EventBoundAssumption, InvSays DEF Link, OfferIds
<1>6. \A i \in DOMAIN stream : stream[i] \in Message
  BY <1>2, <1>3
<1>7. StreamWithin(s, durable)
  <2>1. \A i \in DOMAIN stream : Level(stream[i]) <= durable
    BY <1>2 DEF StreamOK, StreamWithin
  <2> QED BY <1>1, <1>4, <1>5, <2>1 DEF StreamWithin
<1>8. ASSUME NEW i \in DOMAIN stream, IsOffer(stream[i])
      PROVE  stream[i].id <= link.offers /\ stream[i].id \in Int
  <2>1. OfferAhead(stream[i], client, posts, link)
    BY <1>2, <1>8 DEF StreamOK
  <2>2. stream[i].id \in OfferIds
    BY <1>6, <1>8, MessageIs
  <2> QED BY <2>1, <2>2, EventBoundAssumption DEF OfferAhead, OfferIds
<1>9. OffersInOrder(s)
  <2> SUFFICES ASSUME NEW i \in DOMAIN s, NEW j \in DOMAIN s, IsOffer(s[i]), IsOffer(s[j]),
                      j < i
               PROVE  s[j].id < s[i].id
    BY DEF OffersInOrder
  <2>1. j \in DOMAIN stream /\ s[j] = stream[j]
    BY <1>3, <1>4
  <2>2. CASE i \in DOMAIN stream /\ s[i] = stream[i]
    BY <1>2, <2>1, <2>2 DEF StreamOK, OffersInOrder
  <2>3. CASE s[i] = o
    <3>1. stream[j].id < link.offers + 1
      BY <1>5, <1>8, <2>1
    <3> QED BY <1>1, <2>1, <2>3, <3>1
  <2> QED BY <1>4, <2>2, <2>3
<1>10. ASSUME NEW i \in DOMAIN stream, IsOffer(stream[i])
       PROVE  OfferAhead(stream[i], client, q, l)
  <2>1. OfferAhead(stream[i], client, posts, link)
    BY <1>2, <1>10 DEF StreamOK
  <2>2. stream[i].id <= l.offers
    BY <1>5, <1>8, <1>10
  <2> QED BY <2>1, <2>2 DEF OfferAhead
<1>11. OfferAhead(o, client, q, l)
  <2>1. SnapshotsSay(client, posts, link)
    BY InvSays DEF RequestsOK
  <2>2. \A t \in posts.snapshots : t.id \in Int
    BY EventBoundAssumption, InvSays DEF Posts, SnapshotAck, OfferIds
  <2>3. \A t \in q.snapshots : t.id < o.id
    BY <1>1, <1>5, <2>1, <2>2 DEF SnapshotsSay
  <2>4. client.offer # NULL => client.offer.id < o.id
    <3>1. client.offer # NULL => client.offer.id \in Int
      BY ClientIs, InvSays, EventBoundAssumption DEF OfferIds
    <3> QED BY <1>1, <1>5, <2>1, <3>1 DEF SnapshotsSay
  <2> QED BY <1>1, <1>5, <2>3, <2>4 DEF OfferAhead
<1> QED BY <1>3, <1>4, <1>7, <1>9, <1>10, <1>11 DEF StreamOK

LEMMA HandleReplayKeeps ==
    ASSUME EInv, HandleReplay
    PROVE  EInv'
<1>1. /\ posts.control # <<>> /\ Head(posts.control).kind = "replay"
      /\ Head(posts.control).step = "sent"
  BY DEF HandleReplay
<1> DEFINE h == posts.control[1]
<1>2. /\ client.up /\ Head(posts.control) = h /\ h \in Control /\ 1 \in DOMAIN posts.control
      /\ posts.control \in Seq(Control) /\ h.cursor \in Seqs /\ h.cursor <= Applied(client)
  BY <1>1, ControlHead
<1>3. PICK r : r = [h EXCEPT !.step = "done"]
  OBVIOUS
<1>4. PICK q : q = [posts EXCEPT !.control[1] = r]
  OBVIOUS
<1>5. PICK g : g = [cursor |-> durable, id |-> link.offers + 1]
  OBVIOUS
<1>6. PICK l : l = [link EXCEPT !.watched = TRUE, !.applied = TRUE, !.cursor = h.cursor,
                        !.forwarded = h.cursor, !.boundary = 0, !.offer = g,
                        !.offers = link.offers + 1]
  OBVIOUS
<1>7. r \in Control /\ r.kind = "replay" /\ r.cursor = h.cursor /\ r.step = "done"
  BY <1>1, <1>2, <1>3 DEF Control
<1>8. posts' = q
  <2>1. posts' = [posts EXCEPT !.control[1].step = "done"]
    BY DEF HandleReplay
  <2>2. posts \in Posts
    BY InvSays
  <2> QED BY <1>2, <1>3, <1>4, <2>1, <2>2 DEF Posts, Control
<1>9. link' = l
  BY <1>2, <1>5, <1>6 DEF HandleReplay, Offered
<1>10. stream' = Append(stream, g)
  BY <1>5 DEF HandleReplay
<1> HIDE DEF h
<1>11. /\ RequestsOK(client, q, link) /\ q.snapshots = posts.snapshots
       /\ ReplaysLeft(q) = 0 /\ ReplaysLeft(posts) = 1
  BY <1>1, <1>2, <1>4, <1>7, ControlSteps, InvSays
<1>12. link.offers + 1 \in OfferIds /\ link.offers \in Int
       /\ CountOK(client, q, l, disruptions)
  <2>1. link.offers \in Nat /\ MaxDisruptions \in Nat /\ MaxOpens \in Nat
    BY EventBoundAssumption, InvSays DEF Link, OfferIds
  <2>2. disruptions \in Int /\ disruptions <= MaxDisruptions /\ disruptions \in 0..MaxDisruptions
    BY <2>1, InvSays
  <2>3. PICK dirty \in {0, 1} : dirty = IF client.dirty THEN 1 ELSE 0
    OBVIOUS
  <2>4. link.offers + 1 + dirty <= 1 + disruptions
    BY <1>2, <1>11, <2>3, InvSays DEF CountOK
  <2>5. link.offers + 1 \in OfferIds
    BY <2>1, <2>2, <2>3, <2>4 DEF OfferIds
  <2>6. l.offers = link.offers + 1
    BY <1>6, InvSays DEF Link
  <2>7. l.offers + ReplaysLeft(q) + dirty <= 1 + disruptions
    BY <1>11, <2>1, <2>4, <2>6
  <2> QED BY <2>1, <2>2, <2>3, <2>5, <2>7 DEF CountOK
<1>13. /\ l \in Link /\ l.watched /\ l.applied /\ l.cursor = h.cursor /\ l.forwarded = h.cursor
       /\ l.offer = g /\ l.offers = link.offers + 1
  <2>1. g \in [cursor : Seqs, id : OfferIds] /\ 0 \in Seqs
    BY <1>5, <1>12, SeqsAre, InvSays
  <2> QED BY <1>2, <1>6, <1>12, <2>1, InvSays DEF Link
<1>14. LinkOK(client, l, durable)
  <2>1. Applied(client) <= durable /\ Applied(client) \in Int
    BY AppliedSays
  <2>2. h.cursor \in Int
    BY <1>2, SeqsAre
  <2>3. h.cursor <= durable
    BY <1>2, <2>1, <2>2, InvSays
  <2> QED BY <1>2, <1>5, <1>13, <2>3 DEF LinkOK, Kept
<1>15. RequestsOK(client, q, l)
  <2>1. SnapshotsSay(client, q, link)
    BY <1>11 DEF RequestsOK
  <2>2. \A t \in q.snapshots : t.id \in Int
    BY EventBoundAssumption, <1>11, InvSays DEF Posts, SnapshotAck, OfferIds
  <2>3. client.offer # NULL => client.offer.id \in Int
    BY ClientIs, InvSays, EventBoundAssumption DEF OfferIds
  <2>4. \A t \in q.snapshots : t.id < l.offers /\ t.id <= l.offers
    BY <1>12, <1>13, <2>1, <2>2 DEF SnapshotsSay
  <2>5. client.offer # NULL => client.offer.id <= l.offers
    BY <1>2, <1>12, <1>13, <2>1, <2>3 DEF SnapshotsSay
  <2>6. SnapshotsSay(client, q, l)
    BY <2>1, <2>4, <2>5 DEF SnapshotsSay
  <2> QED BY <1>11, <2>6 DEF RequestsOK
<1> DEFINE now == Append(stream, g)
<1>16. StreamOK(client, now, q, l, durable)
  BY <1>2, <1>5, <1>11, <1>12, <1>13, OfferGrows
<1>17. DownOK(client, acks, now, q, l)
  BY <1>2 DEF DownOK
<1>18. UNCHANGED <<client, acks, view, durable, disruptions>>
  BY DEF HandleReplay, clientVars
<1> QED BY <1>8, <1>9, <1>10, <1>12, <1>14, <1>15, <1>16, <1>17, <1>18, InvSays DEF EInv

LEMMA ReplayReturnsKeeps ==
    ASSUME EInv, ReplayReturns
    PROVE  EInv'
<1>1. /\ posts.control # <<>> /\ Head(posts.control).kind = "replay"
      /\ UNCHANGED <<acks, view, stream, link, durable, disruptions>>
  BY DEF ReplayReturns
<1>2. client.up
  BY <1>1, ControlHead
<1>3. PICK t : t = [posts EXCEPT !.control = Tail(@)]
  OBVIOUS
<1>4. /\ t.snapshots = posts.snapshots /\ ReplaysLeft(t) \in {0, ReplaysLeft(posts)}
      /\ NoReplay(t)
  BY <1>1, <1>3, ControlLeaves, InvSays
<1>5. PICK dirty \in {0, 1} : dirty = IF client.dirty THEN 1 ELSE 0
  OBVIOUS
<1>6. ReplaysLeft(t) = 0 /\ ReplaysLeft(posts) \in {0, 1} /\ link.offers \in Int /\ disruptions \in Int
  <2>1. \A i \in DOMAIN t.control : t.control[i].kind # "replay"
    BY <1>4 DEF NoReplay
  <2> QED BY <2>1, EventBoundAssumption, InvSays DEF ReplaysLeft, Link, OfferIds
<1>7. link.offers + ReplaysLeft(posts) + dirty <= 1 + disruptions
  BY <1>2, <1>5, InvSays DEF CountOK
<1>8. CASE client.dirty
  <2>1. PICK k : k = [client EXCEPT !.dirty = FALSE, !.replaying = TRUE]
    OBVIOUS
  <2>2. PICK r : r = Queued("replay", client.cursor)
    OBVIOUS
  <2>3. PICK q : q = WithControl(t, r)
    OBVIOUS
  <2>4. client' = k /\ posts' = q
    BY <1>3, <1>8, <2>1, <2>2, <2>3 DEF ReplayReturns
  <2>5. /\ k \in Client /\ k.cursor = client.cursor /\ k.restored = client.restored
        /\ k.events = client.events /\ k.offer = client.offer /\ k.up = client.up
        /\ k.held = client.held /\ k.tracked = client.tracked /\ ~k.dirty /\ k.replaying
        /\ k.overtaken = client.overtaken
    BY <2>1, InvSays DEF Client
  <2>6. /\ r \in Control /\ r.kind = "replay" /\ r.cursor = client.cursor /\ r.cursor # NULL
        /\ r.step = "queued"
    BY <2>2, ReplayIs, InvSays
  <2>7. RequestsOK(k, posts, link)
    BY <2>5, FlagsMove
  <2>8. RequestsOK(k, t, link) /\ t.snapshots = posts.snapshots
    BY <1>1, <1>3, <1>4, <2>7, ControlLeaves
  <2>9. r.cursor <= Applied(k)
    BY <2>5, <2>6, AppliedIs
  <2>10. /\ RequestsOK(k, q, link) /\ ReplaysLeft(q) = 1 /\ q.snapshots = posts.snapshots
    <3>1. \A i \in DOMAIN t.control : t.control[i].kind # "replay"
      BY <1>4 DEF NoReplay
    <3> QED BY <2>3, <2>5, <2>6, <2>8, <2>9, <3>1, ControlGrows
  <2>11. /\ ScreenOK(k, view, durable) /\ BufferOK(k)
         /\ StreamOK(k, stream, q, link, durable)
         /\ LinkOK(k, link, durable) /\ AcksOK(k, acks)
    BY <2>5, <2>10, FlagsMove
  <2>12. DownOK(k, acks, stream, q, link)
    BY <1>2, <2>5 DEF DownOK
  <2>13. CountOK(k, q, link, disruptions)
    BY <1>5, <1>6, <1>7, <1>8, <2>5, <2>10, InvSays DEF CountOK
  <2> QED BY <1>1, <2>4, <2>10, <2>11, <2>12, <2>13, InvSays DEF EInv
<1>9. CASE ~client.dirty
  <2>1. PICK k : k = [client EXCEPT !.connected = TRUE]
    OBVIOUS
  <2>2. client' = k /\ posts' = t
    BY <1>3, <1>9, <2>1 DEF ReplayReturns
  <2>3. /\ k \in Client /\ k.cursor = client.cursor /\ k.restored = client.restored
        /\ k.events = client.events /\ k.offer = client.offer /\ k.up = client.up
        /\ k.held = client.held /\ k.tracked = client.tracked /\ ~k.dirty
        /\ k.replaying = client.replaying /\ k.overtaken = client.overtaken
    BY <1>9, <2>1, InvSays DEF Client
  <2>4. RequestsOK(k, posts, link)
    BY <2>3, FlagsMove
  <2>5. RequestsOK(k, t, link) /\ t.snapshots = posts.snapshots
    BY <1>1, <1>3, <1>4, <2>4, ControlLeaves
  <2>6. /\ ScreenOK(k, view, durable) /\ BufferOK(k)
        /\ StreamOK(k, stream, t, link, durable)
        /\ LinkOK(k, link, durable) /\ AcksOK(k, acks)
    BY <2>3, <2>5, FlagsMove
  <2>7. DownOK(k, acks, stream, t, link)
    BY <1>2, <2>3 DEF DownOK
  <2>8. CountOK(k, t, link, disruptions)
    BY <1>5, <1>6, <1>7, <2>3, InvSays DEF CountOK
  <2> QED BY <1>1, <2>2, <2>5, <2>6, <2>7, <2>8, InvSays DEF EInv
<1> QED BY <1>8, <1>9

LEMMA SwitchFailsKeeps ==
    ASSUME EInv, SwitchFails
    PROVE  EInv'
<1>1. /\ posts.control # <<>> /\ Disrupt
      /\ UNCHANGED <<client, acks, stream, link, durable>>
  BY DEF SwitchFails
<1>2. client.up
  BY <1>1, ControlHead
<1>3. PICK t : t = [posts EXCEPT !.control = Tail(@)]
  OBVIOUS
<1>4. PICK w : w = [view EXCEPT !.error = view.open \/ view.error]
  OBVIOUS
<1>5. posts' = t /\ view' = w
  BY <1>3, <1>4 DEF SwitchFails
<1>6. /\ RequestsOK(client, t, link) /\ t.snapshots = posts.snapshots
      /\ ReplaysLeft(t) \in {0, ReplaysLeft(posts)}
  BY <1>1, <1>3, ControlLeaves, InvSays
<1>7. /\ w \in View /\ w.background = view.background /\ w.rendered = view.rendered
      /\ w.read = view.read /\ w.open = view.open
  <2>1. PICK b \in BOOLEAN : b = (view.open \/ view.error)
    OBVIOUS
  <2>2. w = [view EXCEPT !.error = b]
    BY <1>4, <2>1
  <2> QED BY <2>2, InvSays DEF View
<1>8. ClosedSays(client, w)
  BY <1>7, InvSays DEF ScreenOK, ClosedSays
<1>9. ScreenOK(client, w, durable) /\ StreamOK(client, stream, t, link, durable)
  BY <1>6, <1>7, <1>8, ViewMoves, InvSays
<1>10. DownOK(client, acks, stream, t, link)
  BY <1>2 DEF DownOK
<1>11. CountOK(client, t, link, disruptions')
  <2>1. CountOK(client, posts, link, disruptions') /\ disruptions' \in Int
    BY <1>1, DisruptCounts
  <2>2. ReplaysLeft(posts) \in {0, 1} /\ link.offers \in Int
    BY EventBoundAssumption, InvSays DEF ReplaysLeft, Link, OfferIds
  <2>3. PICK dirty \in {0, 1} : dirty = IF client.dirty THEN 1 ELSE 0
    OBVIOUS
  <2> QED BY <1>2, <1>6, <2>1, <2>2, <2>3 DEF CountOK
<1> QED BY <1>1, <1>5, <1>6, <1>9, <1>10, <1>11, InvSays DEF EInv

\* Offers on their way are to a client that acknowledges what it applies.
LEMMA OffersAhead ==
    ASSUME EInv, \E i \in DOMAIN stream : IsOffer(stream[i])
    PROVE  link.applied /\ link.cursor <= Applied(client)
<1>1. PICK i \in DOMAIN stream : IsOffer(stream[i])
  OBVIOUS
<1>2. OfferAhead(stream[i], client, posts, link)
  BY <1>1, InvSays DEF StreamOK
<1> QED BY <1>2 DEF OfferAhead

LEMMA NoEvents ==
    ASSUME NEW s \in Seq(Message)
    PROVE  s = s \o <<>> /\ <<>> \in Seq(Message) /\ DOMAIN <<>> = {}
<1>1. <<>> \in Seq(Message) /\ DOMAIN <<>> = {}
  OBVIOUS
<1>2. s = s \o <<>>
  BY ConcatEmptySeq, Zenon
<1> QED BY <1>1, <1>2

LEMMA HandleSwitchKeeps ==
    ASSUME EInv, HandleSwitch
    PROVE  EInv'
<1>1. posts.control # <<>> /\ UNCHANGED <<client, acks, view, stream, durable, disruptions>>
  BY DEF HandleSwitch, clientVars
<1> DEFINE n == Head(posts.control).cursor
<1>2. client.up /\ (n # NULL => n \in Seqs /\ n <= Applied(client))
  BY <1>1, ControlHead
<1>3. PICK t : t = [posts EXCEPT !.control = Tail(@)]
  OBVIOUS
<1>4. PICK f : f = [link EXCEPT !.watched = TRUE]
  OBVIOUS
<1>5. PICK m : m = IF n # NULL
                  THEN [f EXCEPT !.applied = TRUE, !.offer = NULL, !.cursor = n,
                                 !.forwarded = n, !.boundary = 0]
                  ELSE IF link.watched THEN link
                  ELSE [f EXCEPT !.cursor = durable, !.forwarded = durable, !.boundary = 0]
  OBVIOUS
<1>6. posts' = t /\ link' = m
  BY <1>3, <1>4, <1>5 DEF HandleSwitch
<1>7. /\ RequestsOK(client, t, link) /\ t.snapshots = posts.snapshots
      /\ ReplaysLeft(t) \in {0, ReplaysLeft(posts)}
  BY <1>1, <1>3, ControlLeaves, InvSays
<1> HIDE DEF n
<1>8. f \in Link /\ f.watched /\ f.applied = link.applied /\ f.offer = link.offer
      /\ f.offers = link.offers /\ f.cursor = link.cursor /\ f.forwarded = link.forwarded
  BY <1>4, InvSays DEF Link
<1>9. LinkOK(client, link, durable) /\ 0 \in Seqs /\ durable \in Seqs /\ durable <= durable
  BY SeqsAre, InvSays
<1>10. /\ m \in Link /\ m.offers = link.offers /\ (m.applied => m.watched)
       /\ m.offer # NULL => m.offer.id = m.offers
       /\ m.cursor <= durable /\ m.forwarded <= durable /\ Kept(client, m)
       /\ (\E i \in DOMAIN stream : IsOffer(stream[i])) => m.applied /\ m.cursor <= Applied(client)
  <2>1. CASE n # NULL
    <3>1. m = [f EXCEPT !.applied = TRUE, !.offer = NULL, !.cursor = n, !.forwarded = n, !.boundary = 0]
      BY <1>5, <2>1
    <3>2. /\ m \in Link /\ m.offers = link.offers /\ m.watched /\ m.applied /\ m.offer = NULL
          /\ m.cursor = n /\ m.forwarded = n
      BY <1>2, <1>8, <1>9, <2>1, <3>1 DEF Link
    <3>3. n <= durable
      <4>1. Applied(client) <= durable /\ Applied(client) \in Int
        BY AppliedSays
      <4>2. n \in Int
        BY <1>2, <2>1, SeqsAre
      <4> QED BY <1>2, <2>1, <4>1, <4>2, InvSays
    <3> QED BY <1>2, <2>1, <3>2, <3>3 DEF Kept
  <2>2. CASE n = NULL /\ link.watched
    <3>1. m = link
      BY <1>5, <2>2
    <3> QED BY <1>9, <3>1, OffersAhead DEF LinkOK
  <2>3. CASE n = NULL /\ ~link.watched
    <3>1. m = [f EXCEPT !.cursor = durable, !.forwarded = durable, !.boundary = 0]
      BY <1>5, <2>3
    <3>2. ~link.applied
      BY <1>9, <2>3 DEF LinkOK
    <3>3. /\ m \in Link /\ m.offers = link.offers /\ ~m.applied /\ m.offer = link.offer
          /\ m.cursor = durable /\ m.forwarded = durable
      BY <1>8, <1>9, <3>1, <3>2 DEF Link
    <3> QED BY <1>9, <3>2, <3>3, OffersAhead DEF LinkOK, Kept
  <2> QED BY <2>1, <2>2, <2>3
<1>11. PICK b : b = <<>>
  OBVIOUS
<1>12. /\ b \in Seq(Message) /\ stream = stream \o b
       /\ \A i \in DOMAIN b : ~IsOffer(b[i]) /\ Level(b[i]) <= durable
  BY <1>11, NoEvents, InvSays DEF StreamOK
<1>13. /\ RequestsOK(client, posts', link) /\ ReplaysLeft(posts') <= ReplaysLeft(posts)
       /\ \A y \in posts'.snapshots : \E u \in posts.snapshots : u.id = y.id
       /\ AcksOK(client, acks')
  <2>1. ReplaysLeft(t) <= ReplaysLeft(posts)
    BY <1>7 DEF ReplaysLeft
  <2>2. \A y \in t.snapshots : \E u \in posts.snapshots : u.id = y.id
    BY <1>7
  <2> QED BY <1>1, <1>6, <1>7, <2>1, <2>2, InvSays
<1> QED BY <1>1, <1>2, <1>6, <1>9, <1>10, <1>12, <1>13, ServerKeeps

-----------------------------------------------------------------------------
(* Events and acknowledgements on the server's side.                       *)

LEMMA AppendEventKeeps ==
    ASSUME EInv, NEW live \in BOOLEAN, AppendEvent(live)
    PROVE  EInv'
<1>1. /\ durable < MaxEvents /\ durable' = durable + 1
      /\ UNCHANGED <<client, acks, view, posts, disruptions>>
  BY DEF AppendEvent, clientVars
<1>2. PICK e : e = durable + 1
  OBVIOUS
<1>3. e \in Seqs /\ e \in Events /\ durable <= e /\ durable' = e
  BY <1>1, <1>2, SeqsAre, InvSays
<1>4. LinkOK(client, link, durable) /\ link.cursor <= e /\ link.forwarded <= e
      /\ link.cursor \in Seqs /\ link.forwarded \in Seqs
  BY <1>2, SeqsAre, InvSays DEF LinkOK, Link
<1> DEFINE gap == link.applied /\ durable > link.forwarded
<1>5. /\ RequestsOK(client, posts', link) /\ ReplaysLeft(posts') <= ReplaysLeft(posts)
      /\ \A y \in posts'.snapshots : \E u \in posts.snapshots : u.id = y.id
      /\ AcksOK(client, acks')
  <2>1. ReplaysLeft(posts) <= ReplaysLeft(posts)
    BY DEF ReplaysLeft
  <2> QED BY <1>1, <2>1, InvSays
<1>6. CASE UNCHANGED <<stream, link>>
  <2>1. PICK b : b = <<>>
    OBVIOUS
  <2>2. /\ b \in Seq(Message) /\ stream = stream \o b
        /\ \A i \in DOMAIN b : ~IsOffer(b[i]) /\ Level(b[i]) <= e
    BY <2>1, NoEvents, InvSays DEF StreamOK
  <2>3. /\ link.applied => link.watched
        /\ link.offer # NULL => link.offer.id = link.offers
        /\ Kept(client, link)
        /\ (\E i \in DOMAIN stream : IsOffer(stream[i])) =>
               link.applied /\ link.cursor <= Applied(client)
    BY <1>4, OffersAhead DEF LinkOK
  <2>4. client' = client /\ view' = view /\ disruptions' = disruptions
        /\ link' = link /\ stream' = stream \o b /\ acks' = acks /\ posts' = posts
    BY <1>1, <1>6, <2>2
  <2> QED BY <1>3, <1>4, <1>5, <2>1, <2>2, <2>3, <2>4, ServerKeeps, InvSays
<1>7. CASE /\ client.up /\ link.watched /\ link.offer = NULL /\ gap
           /\ stream' = stream \o EventsFrom(link.forwarded, Missed(link, link.forwarded, durable + 1))
           /\ link' = Retried(link, link.forwarded, durable + 1)
  <2>1. PICK k : k = Missed(link, link.forwarded, e)
    OBVIOUS
  <2>2. PICK m : m = Retried(link, link.forwarded, e)
    OBVIOUS
  <2>3. PICK b : b = EventsFrom(link.forwarded, k)
    OBVIOUS
  <2>4. stream' = stream \o b /\ link' = m
    BY <1>2, <1>7, <2>1, <2>2, <2>3
  <2>5. /\ m \in Link /\ m.watched = link.watched /\ m.applied = link.applied
        /\ m.offer = link.offer /\ m.offers = link.offers
        /\ m.cursor <= e /\ m.forwarded <= e
        /\ m.applied => m.cursor = link.cursor
        /\ b \in Seq(Message)
        /\ \A i \in DOMAIN b : ~IsOffer(b[i]) /\ Level(b[i]) <= e
    <3>1. link \in Link
      BY InvSays
    <3>2. /\ link.forwarded \in Seqs /\ e \in Seqs
          /\ link.cursor <= e /\ link.forwarded <= e
      BY <1>3, <1>4
    <3> QED BY <2>1, <2>2, <2>3, <3>1, <3>2, RetriedIs
  <2>6. Kept(client, m)
    BY <1>4, <2>5 DEF LinkOK, Kept
  <2>7. (\E i \in DOMAIN stream : IsOffer(stream[i])) => m.applied /\ m.cursor <= Applied(client)
    BY <2>5, OffersAhead
  <2>8. m.applied => m.watched
    BY <1>7, <2>5
  <2>9. m.offer # NULL => m.offer.id = m.offers
    BY <1>7, <2>5
  <2> QED BY <1>1, <1>3, <1>5, <1>7, <2>4, <2>5, <2>6, <2>7, <2>8, <2>9, ServerKeeps
<1>8. CASE /\ client.up /\ link.watched /\ link.offer = NULL /\ ~gap
           /\ stream' = Append(stream, [event |-> durable + 1])
           /\ link' = [link EXCEPT !.forwarded = Larger(@, durable + 1),
                              !.cursor = IF link.applied THEN @ ELSE Larger(@, durable + 1)]
  <2>1. PICK f : f = Larger(link.forwarded, e)
    OBVIOUS
  <2>2. PICK r : r = IF link.applied THEN link.cursor ELSE Larger(link.cursor, e)
    OBVIOUS
  <2>3. PICK m : m = [link EXCEPT !.forwarded = f, !.cursor = r]
    OBVIOUS
  <2>4. PICK g : g = [event |-> e]
    OBVIOUS
  <2>5. PICK b : b = <<g>>
    OBVIOUS
  <2>6. f \in Seqs /\ f <= e /\ r \in Seqs /\ r <= e
    <3>1. e \in Int /\ link.forwarded \in Int /\ link.cursor \in Int
      BY <1>3, <1>4, SeqsAre
    <3> QED BY <1>3, <1>4, <2>1, <2>2, <3>1 DEF Larger
  <2>7. /\ m \in Link /\ m.watched = link.watched /\ m.applied = link.applied
        /\ m.offer = link.offer /\ m.offers = link.offers
        /\ m.cursor = r /\ m.forwarded = f
    BY <2>3, <2>6, InvSays DEF Link
  <2>8. g \in Message /\ ~IsOffer(g) /\ Level(g) = e /\ e <= e
    <3>1. g \in Message /\ g.event = e
      BY <1>3, <2>4 DEF Message
    <3>2. ~IsOffer(g)
      BY <2>4 DEF IsOffer
    <3>3. e <= e
      BY <1>3, SeqsAre
    <3> QED BY <3>1, <3>2, <3>3 DEF Level
  <2>9. b \in Seq(Message) /\ DOMAIN b = {1} /\ b[1] = g
    BY <2>5, <2>8
  <2>10. stream' = stream \o b
    <3>1. stream \in Seq(Message)
      BY InvSays DEF StreamOK
    <3>2. Append(stream, g) = stream \o <<g>>
      BY <2>8, <3>1, AppendIsConcat
    <3> QED BY <1>2, <1>8, <2>4, <2>5, <3>2
  <2>11. link' = m
    BY <1>2, <1>8, <2>1, <2>2, <2>3
  <2>12. Kept(client, m)
    BY <1>4, <2>2, <2>7 DEF LinkOK, Kept
  <2>13. (\E i \in DOMAIN stream : IsOffer(stream[i])) => m.applied /\ m.cursor <= Applied(client)
    BY <2>2, <2>7, OffersAhead
  <2>14. /\ m.applied => m.watched
         /\ m.offer # NULL => m.offer.id = m.offers
         /\ m.cursor <= e /\ m.forwarded <= e
         /\ \A i \in DOMAIN b : ~IsOffer(b[i]) /\ Level(b[i]) <= e
    BY <1>8, <2>6, <2>7, <2>8, <2>9
  <2> QED BY <1>1, <1>3, <1>5, <1>8, <2>7, <2>9, <2>10, <2>11, <2>12, <2>13, <2>14, ServerKeeps
<1> QED BY <1>6, <1>7, <1>8 DEF AppendEvent

LEMMA PeriodicSyncKeeps ==
    ASSUME EInv, PeriodicSync
    PROVE  EInv'
<1>1. /\ client.up /\ link.watched /\ stream = <<>>
      /\ UNCHANGED <<client, acks, view, posts, durable, disruptions>>
  BY DEF PeriodicSync, clientVars
<1>2. LinkOK(client, link, durable) /\ link.cursor \in Seqs
  BY InvSays DEF LinkOK, Link
<1>3. PICK k : k = Missed(link, link.cursor, durable)
  OBVIOUS
<1>4. PICK m : m = Retried(link, link.cursor, durable)
  OBVIOUS
<1>5. PICK b : b = EventsFrom(link.cursor, k)
  OBVIOUS
<1>6. /\ m \in Link /\ m.watched = link.watched /\ m.applied = link.applied
      /\ m.offer = link.offer /\ m.offers = link.offers
      /\ m.cursor <= durable /\ m.forwarded <= durable
      /\ m.applied => m.cursor = link.cursor
      /\ b \in Seq(Message)
      /\ \A i \in DOMAIN b : ~IsOffer(b[i]) /\ Level(b[i]) <= durable
  <2>1. /\ link \in Link /\ durable \in Seqs
        /\ link.cursor <= durable /\ link.forwarded <= durable
    BY <1>2, InvSays DEF LinkOK
  <2> QED BY <1>2, <1>3, <1>4, <1>5, <2>1, RetriedIs
<1>7. stream' = stream \o b /\ link' = m
  <2>1. <<>> \o b = b
    BY <1>6, ConcatEmptySeq, Zenon
  <2> QED BY <1>1, <1>3, <1>4, <1>5, <2>1 DEF PeriodicSync
<1>8. Kept(client, m)
  BY <1>2, <1>6 DEF LinkOK, Kept
<1>9. /\ (\E i \in DOMAIN stream : IsOffer(stream[i])) => m.applied /\ m.cursor <= Applied(client)
      /\ m.applied => m.watched
      /\ m.offer # NULL => m.offer.id = m.offers
      /\ durable <= durable
  BY <1>1, <1>2, <1>6, InvSays DEF LinkOK
<1>10. /\ RequestsOK(client, posts', link) /\ ReplaysLeft(posts') <= ReplaysLeft(posts)
       /\ \A y \in posts'.snapshots : \E u \in posts.snapshots : u.id = y.id
       /\ AcksOK(client, acks')
  <2>1. ReplaysLeft(posts) <= ReplaysLeft(posts)
    BY DEF ReplaysLeft
  <2> QED BY <1>1, <2>1, InvSays
<1> QED BY <1>1, <1>6, <1>7, <1>8, <1>9, <1>10, ServerKeeps, InvSays

LEMMA ReadAnsweredKeeps ==
    ASSUME EInv, ReadAnswered
    PROVE  EInv'
<1>1. /\ view.read # NULL /\ view.read.kind # "bounded" /\ view.read.cursor = NULL
      /\ UNCHANGED <<client, acks, stream, posts, link, durable, disruptions>>
  BY DEF ReadAnswered
<1>2. PICK r : r = [view.read EXCEPT !.cursor = durable]
  OBVIOUS
<1>3. PICK w : w = [view EXCEPT !.read = r]
  OBVIOUS
<1>4. view.read \in Read
  BY <1>1, InvSays DEF View
<1>5. /\ r \in Read /\ r.kind = view.read.kind /\ r.through = view.read.through
      /\ r.cursor = durable /\ r.live = view.read.live /\ r # NULL
  <2>1. /\ r \in Read /\ r.kind = view.read.kind /\ r.through = view.read.through
        /\ r.cursor = durable /\ r.live = view.read.live
    BY <1>2, <1>4, InvSays DEF Read
  <2> QED BY <2>1, EventAbsentAssumption
<1>6. view' = w
  <2>1. view' = [view EXCEPT !.read.cursor = durable]
    BY DEF ReadAnswered
  <2> QED BY <1>2, <1>3, <2>1
<1>7. /\ w \in View /\ w.open = view.open /\ w.rendered = view.rendered /\ w.read = r
      /\ w.background = view.background
  BY <1>3, <1>5, InvSays DEF View
<1>8. ReadsWithin(w, durable)
  BY <1>1, <1>5, <1>7, InvSays DEF ScreenOK, ReadsWithin
<1>9. ScreenOK(client, w, durable)
  <2>1. ClientWithin(client, durable) /\ ReadWithin(view, durable)
    BY InvSays DEF ScreenOK
  <2>2. durable <= durable
    BY InvSays
  <2>3. ReadWithin(w, durable)
    BY <1>1, <1>5, <1>7, <2>1, <2>2 DEF ReadWithin
  <2>4. TranscriptSays(client, w)
    <3>1. \A e \in Events : e > durable => ~(e <= client.cursor)
      BY <2>1, SeqsAre, InvSays DEF ClientWithin
    <3>2. \A e \in Events : e > durable => e \notin r.live
      BY <1>1, <1>5, <2>1, SeqsAre, InvSays DEF ReadWithin
    <3> QED BY <1>1, <1>5, <1>7, <2>1, <3>1, <3>2 DEF TranscriptSays, ClientWithin
  <2>5. OfferSays(client, w) /\ InOrder(w)
    BY <1>7, InvSays DEF ScreenOK, OfferSays, InOrder
  <2>6. ScreenSays(client, w) /\ BackgroundSays(client, w)
    BY <1>7, InvSays DEF ScreenOK, ScreenSays, BackgroundSays
  <2>7. ClosedSays(client, w)
    BY <1>1, <1>7, InvSays DEF ScreenOK, ClosedSays
  <2> QED BY <1>7, <1>8, <2>3, <2>4, <2>5, <2>6, <2>7, InvSays DEF ScreenOK
<1> QED BY <1>1, <1>6, <1>9, InvSays DEF EInv

\* An acknowledgement of what the client has applied is accepted.
LEMMA AcceptKeeps ==
    ASSUME EInv, client.up, NEW n \in Seqs, n <= Applied(client), Acknowledging,
           AcceptUpTo(n),
           client' = client, view' = view, disruptions' = disruptions, durable' = durable,
           RequestsOK(client, posts', link), ReplaysLeft(posts') <= ReplaysLeft(posts),
           \A t \in posts'.snapshots : \E u \in posts.snapshots : u.id = t.id,
           AcksOK(client, acks')
    PROVE  EInv'
<1>1. /\ link \in Link /\ durable \in Seqs /\ link.applied /\ link.watched /\ link.offer = NULL
      /\ link.cursor <= durable /\ link.forwarded <= durable /\ durable <= durable
  BY InvSays DEF LinkOK, Acknowledging
<1>2. n <= durable
  <2>1. Applied(client) <= durable /\ Applied(client) \in Int /\ durable \in Int /\ n \in Int
    BY SeqsAre, AppliedSays, InvSays
  <2> QED BY <2>1
<1>3. CASE link.boundary # 0 /\ n >= link.boundary
  <2>1. PICK f : f = [link EXCEPT !.cursor = n, !.boundary = 0]
    OBVIOUS
  <2>2. PICK k : k = Missed(f, n, durable)
    OBVIOUS
  <2>3. PICK m : m = Retried(f, n, durable)
    OBVIOUS
  <2>4. PICK b : b = EventsFrom(n, k)
    OBVIOUS
  <2>5. link' = m /\ stream' = stream \o b
    BY <1>3, <2>1, <2>2, <2>3, <2>4 DEF AcceptUpTo
  <2>6. /\ f \in Link /\ f.watched /\ f.applied /\ f.offer = NULL
        /\ f.offers = link.offers /\ f.cursor = n /\ f.forwarded = link.forwarded
    <3>1. 0 \in Seqs
      BY SeqsAre
    <3> QED BY <1>1, <2>1, <3>1 DEF Link
  <2>7. f.cursor <= durable /\ f.forwarded <= durable
    BY <1>1, <1>2, <2>6
  <2>8. /\ m \in Link /\ m.watched = f.watched /\ m.applied = f.applied
        /\ m.offer = f.offer /\ m.offers = f.offers
        /\ m.cursor <= durable /\ m.forwarded <= durable
        /\ m.applied => m.cursor = f.cursor
        /\ b \in Seq(Message)
        /\ \A i \in DOMAIN b : ~IsOffer(b[i]) /\ Level(b[i]) <= durable
    <3>1. f \in Link /\ durable \in Seqs
      BY <1>1, <2>6
    <3> QED BY <2>2, <2>3, <2>4, <2>7, <3>1, RetriedIs
  <2>9. /\ m.applied /\ m.watched /\ m.offer = NULL /\ m.offers = link.offers /\ m.cursor = n
        /\ Kept(client, m)
    BY <2>6, <2>8 DEF Kept
  <2> QED BY <1>1, <2>5, <2>8, <2>9, ServerKeeps
<1>4. CASE ~(link.boundary # 0 /\ n >= link.boundary)
  <2>1. PICK m : m = [link EXCEPT !.cursor = n]
    OBVIOUS
  <2>2. PICK b : b = <<>>
    OBVIOUS
  <2>3. /\ b \in Seq(Message) /\ stream = stream \o b
        /\ \A i \in DOMAIN b : ~IsOffer(b[i]) /\ Level(b[i]) <= durable
    BY <2>2, NoEvents, InvSays DEF StreamOK
  <2>4. link' = m /\ stream' = stream \o b
    BY <1>4, <2>1, <2>3 DEF AcceptUpTo
  <2>5. /\ m \in Link /\ m.watched /\ m.applied /\ m.offer = NULL
        /\ m.offers = link.offers /\ m.cursor = n /\ m.forwarded = link.forwarded
    BY <1>1, <2>1 DEF Link
  <2>6. Kept(client, m) /\ m.cursor <= durable /\ m.forwarded <= durable
    BY <1>1, <1>2, <2>5 DEF Kept
  <2> QED BY <1>1, <2>3, <2>4, <2>5, <2>6, ServerKeeps
<1> QED BY <1>3, <1>4

LEMMA HandleAckKeeps ==
    ASSUME EInv, HandleAck
    PROVE  EInv'
<1>1. /\ acks # NULL /\ acks.batch # {}
      /\ UNCHANGED <<client, view, posts, durable, disruptions>>
  BY DEF HandleAck
<1>2. /\ acks \in Acks /\ acks.batch \cap acks.pending = {}
      /\ \A e \in acks.batch \cup acks.pending : e <= Applied(client) /\ e <= acks.highest
  BY <1>1, InvSays DEF AcksOK
<1>3. client.up
  BY <1>1, InvSays DEF DownOK
<1>4. PICK n \in Seqs : n = Max(acks.batch) /\ n <= Applied(client)
  <2>1. acks.batch \subseteq Events
    BY <1>2 DEF Acks
  <2>2. acks.batch \in SUBSET (0..MaxEvents)
    BY <2>1 DEF Events
  <2>3. Max(acks.batch) \in acks.batch
    BY <1>1, <2>2, SeqsAre, MaxBelongs
  <2> QED BY <1>2, <2>1, <2>3, SeqsAre
<1>5. ASSUME NEW x \in {"none", "applied", "refused"}, NEW a, a = [acks EXCEPT !.answer = x]
      PROVE  AcksOK(client, a)
  <2>1. a \in Acks /\ a.batch = acks.batch /\ a.pending = acks.pending /\ a.highest = acks.highest
    BY <1>2, <1>5 DEF Acks
  <2> QED BY <1>2, <2>1 DEF AcksOK
<1>6. PICK a : a = [acks EXCEPT !.answer = "applied"]
  OBVIOUS
<1>7. PICK r : r = [acks EXCEPT !.answer = "refused"]
  OBVIOUS
<1>8. AcksOK(client, a) /\ AcksOK(client, r)
  BY <1>5, <1>6, <1>7
<1>9. CASE Acknowledging /\ acks' = a /\ AcceptUpTo(n)
  <2>1. /\ RequestsOK(client, posts', link) /\ ReplaysLeft(posts') <= ReplaysLeft(posts)
        /\ \A y \in posts'.snapshots : \E u \in posts.snapshots : u.id = y.id
        /\ AcksOK(client, acks')
    <3>1. ReplaysLeft(posts) <= ReplaysLeft(posts)
      BY DEF ReplaysLeft
    <3> QED BY <1>1, <1>8, <1>9, <3>1, InvSays
  <2> QED BY <1>1, <1>3, <1>4, <1>9, <2>1, AcceptKeeps
<1>10. CASE acks' \in {a, r} /\ UNCHANGED <<link, stream>>
  <2>1. AcksOK(client, acks')
    BY <1>8, <1>10
  <2>2. DownOK(client, acks', stream, posts, link)
    BY <1>3 DEF DownOK
  <2> QED BY <1>1, <1>10, <2>1, <2>2, InvSays DEF EInv
<1> QED BY <1>4, <1>6, <1>7, <1>9, <1>10 DEF HandleAck

LEMMA AckReturnsKeeps ==
    ASSUME EInv, AckReturns
    PROVE  EInv'
<1>1. acks # NULL /\ durable' = durable /\ disruptions' = disruptions
  BY DEF AckReturns
<1>2. /\ acks \in Acks /\ \A e \in acks.batch \cup acks.pending : e <= Applied(client) /\ e <= acks.highest
  BY <1>1, InvSays DEF AcksOK
<1>3. CASE /\ client' = Down(client) /\ view' = [view EXCEPT !.background = NULL]
           /\ Disconnect
  BY <1>1, <1>3, DropKeeps
<1>4. CASE /\ acks' = Flushed([acks EXCEPT !.batch = {}])
           /\ UNCHANGED <<client, view, stream, posts, link>>
  <2>1. PICK a : a = [acks EXCEPT !.batch = {}]
    OBVIOUS
  <2>2. PICK b : b = Flushed(a)
    OBVIOUS
  <2>3. a \in Acks /\ a.batch = {} /\ a.pending = acks.pending /\ a.highest = acks.highest
    BY <1>2, <2>1 DEF Acks
  <2>4. /\ a.batch \cap a.pending = {}
        /\ \A e \in a.batch \cup a.pending : e <= Applied(client) /\ e <= a.highest
    BY <1>2, <2>3
  <2>5. /\ b \in Acks /\ b.batch \cap b.pending = {}
        /\ \A e \in b.batch \cup b.pending : e <= Applied(client) /\ e <= b.highest
    BY <2>2, <2>3, <2>4, FlushedIs, AppliedSays
  <2>6. AcksOK(client, b)
    BY <2>5 DEF AcksOK
  <2>7. client.up
    BY <1>1, InvSays DEF DownOK
  <2>8. DownOK(client, b, stream, posts, link)
    BY <2>7 DEF DownOK
  <2>9. acks' = b
    BY <1>4, <2>1, <2>2
  <2> QED BY <1>1, <1>4, <2>6, <2>8, <2>9, InvSays DEF EInv
<1> QED BY <1>3, <1>4 DEF AckReturns

LEMMA HandleSingleKeeps ==
    ASSUME EInv, HandleSingle
    PROVE  EInv'
<1>1. /\ posts.singles # <<>>
      /\ UNCHANGED <<client, acks, view, durable, disruptions>>
  BY DEF HandleSingle, clientVars
<1>2. client.up
  BY <1>1, InvSays DEF DownOK, NoPosts
<1>3. /\ posts \in Posts /\ posts.singles \in Seq(Events) /\ Len(posts.singles) \in Nat
      /\ Len(posts.singles) # 0 /\ DOMAIN posts.singles = 1..Len(posts.singles)
  BY <1>1, EmptySeq, LenProperties, InvSays DEF Posts
<1> DEFINE tail == Tail(posts.singles)
<1>4. /\ tail \in Seq(Events) /\ DOMAIN tail = 1..(Len(posts.singles) - 1)
      /\ \A i \in DOMAIN tail : tail[i] = posts.singles[i + 1] /\ i + 1 \in DOMAIN posts.singles
  BY <1>1, <1>3, HeadTailProperties, LenProperties
<1>5. SinglesSay(client, posts)
  BY InvSays DEF RequestsOK
<1>6. PICK n \in Seqs : n = Head(posts.singles) /\ n <= Applied(client)
  <2>1. Head(posts.singles) = posts.singles[1] /\ 1 \in DOMAIN posts.singles
        /\ posts.singles[1] \in Events
    BY <1>3
  <2> QED BY <1>5, <2>1, SeqsAre DEF SinglesSay
<1>7. PICK t : t = [posts EXCEPT !.singles = tail]
  OBVIOUS
<1>8. posts' = t
  BY <1>7 DEF HandleSingle
<1> HIDE DEF tail
<1>9. t \in Posts /\ t.singles = tail /\ t.control = posts.control /\ t.snapshots = posts.snapshots
  BY <1>3, <1>4, <1>7 DEF Posts
<1>10. RequestsOK(client, t, link) /\ ReplaysLeft(t) = ReplaysLeft(posts)
  <2>1. SinglesSay(client, t)
    BY <1>4, <1>5, <1>9 DEF SinglesSay
  <2>2. ControlSays(client, t) /\ SnapshotsSay(client, t, link) /\ ReplaysLeft(t) = ReplaysLeft(posts)
    BY <1>9, InvSays DEF RequestsOK, ControlSays, SnapshotsSay, ReplaysLeft
  <2> QED BY <1>9, <2>1, <2>2 DEF RequestsOK
<1>11. CASE Acknowledging /\ AcceptUpTo(n)
  <2>1. /\ RequestsOK(client, posts', link) /\ ReplaysLeft(posts') <= ReplaysLeft(posts)
        /\ \A y \in posts'.snapshots : \E u \in posts.snapshots : u.id = y.id
        /\ AcksOK(client, acks')
    <3>1. ReplaysLeft(posts) <= ReplaysLeft(posts)
      BY DEF ReplaysLeft
    <3>2. \A y \in t.snapshots : \E u \in posts.snapshots : u.id = y.id
      BY <1>9
    <3> QED BY <1>1, <1>8, <1>10, <3>1, <3>2, InvSays
  <2> QED BY <1>1, <1>2, <1>6, <1>11, <2>1, AcceptKeeps
<1>12. CASE UNCHANGED <<link, stream>>
  <2>1. StreamOK(client, stream, t, link, durable)
    BY <1>9, InvSays DEF StreamOK, OfferAhead
  <2>2. CountOK(client, t, link, disruptions) /\ DownOK(client, acks, stream, t, link)
    BY <1>2, <1>10, InvSays DEF CountOK, DownOK
  <2> QED BY <1>1, <1>8, <1>10, <1>12, <2>1, <2>2, InvSays DEF EInv
<1> QED BY <1>6, <1>11, <1>12 DEF HandleSingle

LEMMA HandleSnapshotAckKeeps ==
    ASSUME EInv, NEW s, HandleSnapshotAck(s)
    PROVE  EInv'
<1>1. /\ s \in posts.snapshots /\ s.answer = "none"
      /\ UNCHANGED <<client, acks, view, durable, disruptions>>
  BY DEF HandleSnapshotAck, clientVars
<1>2. client.up
  BY <1>1, InvSays DEF DownOK, NoPosts
<1>3. /\ s \in SnapshotAck /\ s.cursor \in Seqs /\ s.id \in OfferIds
      /\ posts \in Posts /\ posts.snapshots \subseteq SnapshotAck
      /\ SnapshotsSay(client, posts, link)
  BY <1>1, InvSays DEF Posts, SnapshotAck, RequestsOK
<1>4. ASSUME NEW x \in {"applied", "refused"}, NEW u, u = [s EXCEPT !.answer = x],
             NEW q, q = [posts EXCEPT !.snapshots = (@ \ {s}) \cup {u}]
      PROVE  /\ RequestsOK(client, q, link) /\ ReplaysLeft(q) = ReplaysLeft(posts)
             /\ \A y \in q.snapshots : \E z \in posts.snapshots : z.id = y.id
  <2>1. u \in SnapshotAck /\ u.id = s.id /\ u.cursor = s.cursor /\ u.answer # "none"
    BY <1>3, <1>4 DEF SnapshotAck
  <2>2. /\ q \in Posts /\ q.control = posts.control /\ q.singles = posts.singles
        /\ q.snapshots = (posts.snapshots \ {s}) \cup {u}
    BY <1>3, <1>4, <2>1 DEF Posts
  <2>3. ControlSays(client, q) /\ SinglesSay(client, q) /\ ReplaysLeft(q) = ReplaysLeft(posts)
    BY <2>2, InvSays DEF RequestsOK, ControlSays, SinglesSay, ReplaysLeft
  <2>4. \A y \in q.snapshots : \E z \in posts.snapshots : z.id = y.id
    BY <1>1, <2>1, <2>2
  <2>5. SnapshotsSay(client, q, link)
    <3>1. \A y \in q.snapshots : y = u \/ (y \in posts.snapshots /\ y # s)
      BY <2>2
    <3>2. \A y \in posts.snapshots : y.id = s.id => y = s
      BY <1>1, <1>3 DEF SnapshotsSay
    <3>3. ASSUME NEW y \in q.snapshots, NEW z \in q.snapshots, y.id = z.id
          PROVE  y = z
      <4>1. y \in posts.snapshots /\ z \in posts.snapshots => y = z
        BY <1>3, <3>3 DEF SnapshotsSay
      <4> QED BY <2>1, <3>1, <3>2, <3>3, <4>1
    <3>4. \A y \in q.snapshots : y.id <= link.offers
      BY <1>1, <1>3, <2>1, <3>1 DEF SnapshotsSay
    <3>5. ASSUME NEW y \in q.snapshots, y.answer = "none"
          PROVE  \/ y.id < link.offers
                 \/ /\ client.offer # NULL /\ client.offer.acked
                    /\ client.offer.id = y.id /\ client.offer.cursor = y.cursor
      <4>1. y \in posts.snapshots
        BY <2>1, <3>1, <3>5
      <4> QED BY <1>3, <3>5, <4>1 DEF SnapshotsSay
    <3>6. ASSUME client.offer # NULL
          PROVE  /\ client.offer.id <= link.offers
                 /\ ~client.offer.acked => \A y \in q.snapshots : y.id # client.offer.id
      <4>1. client.offer.id <= link.offers
        BY <1>2, <1>3, <3>6 DEF SnapshotsSay
      <4>2. ~client.offer.acked => \A y \in posts.snapshots : y.id # client.offer.id
        BY <1>2, <1>3, <3>6 DEF SnapshotsSay
      <4> QED BY <1>1, <2>1, <3>1, <4>1, <4>2
    <3> QED BY <3>3, <3>4, <3>5, <3>6 DEF SnapshotsSay
  <2> QED BY <2>2, <2>3, <2>4, <2>5 DEF RequestsOK
<1>5. CASE link.applied /\ link.offer = [cursor |-> s.cursor, id |-> s.id]
  <2>1. PICK u : u = [s EXCEPT !.answer = "applied"]
    OBVIOUS
  <2>2. PICK q : q = [posts EXCEPT !.snapshots = (@ \ {s}) \cup {u}]
    OBVIOUS
  <2>3. PICK f : f = [link EXCEPT !.cursor = s.cursor, !.forwarded = s.cursor, !.offer = NULL]
    OBVIOUS
  <2>4. PICK k : k = Missed(f, s.cursor, durable)
    OBVIOUS
  <2>5. PICK m : m = Retried(f, s.cursor, durable)
    OBVIOUS
  <2>6. PICK b : b = EventsFrom(s.cursor, k)
    OBVIOUS
  <2>7. posts' = q /\ link' = m /\ stream' = stream \o b
    BY <1>5, <2>1, <2>2, <2>3, <2>4, <2>5, <2>6 DEF HandleSnapshotAck
  <2>8. /\ RequestsOK(client, q, link) /\ ReplaysLeft(q) = ReplaysLeft(posts)
        /\ \A y \in q.snapshots : \E z \in posts.snapshots : z.id = y.id
    BY <1>4, <2>1, <2>2
  <2>9. LinkOK(client, link, durable)
    BY InvSays
  <2>10. s.id = link.offers /\ link.offers \in Int
    <3>1. link.offer # NULL
      <4>1. [cursor |-> s.cursor, id |-> s.id] \in [cursor : Seqs, id : OfferIds]
        BY <1>3
      <4> QED BY <1>5, <4>1, EventAbsentAssumption
    <3>2. link.offer.id = s.id
      BY <1>5
    <3> QED BY <2>9, <3>1, <3>2, EventBoundAssumption DEF LinkOK, Link, OfferIds
  <2>11. client.offer # NULL /\ client.offer.acked /\ client.offer.cursor = s.cursor
    <3>1. \/ s.id < link.offers
          \/ /\ client.offer # NULL /\ client.offer.acked
             /\ client.offer.id = s.id /\ client.offer.cursor = s.cursor
      BY <1>1, <1>3 DEF SnapshotsSay
    <3> QED BY <2>10, <3>1
  <2>12. s.cursor <= durable
    BY <2>11, InvSays DEF ScreenOK, ClientWithin
  <2>13. ASSUME NEW i \in DOMAIN stream, IsOffer(stream[i])
         PROVE  FALSE
    <3>1. OfferAhead(stream[i], client, posts, link) /\ stream[i] \in Message
      BY <2>13, InvSays DEF StreamOK
    <3>2. stream[i].id \in Int
      BY <2>13, <3>1, MessageIs, EventBoundAssumption DEF OfferIds
    <3> QED BY <1>1, <2>10, <3>1, <3>2 DEF OfferAhead
  <2>14. /\ f \in Link /\ f.watched = link.watched /\ f.applied /\ f.offer = NULL
         /\ f.offers = link.offers /\ f.cursor = s.cursor /\ f.forwarded = s.cursor
    BY <1>3, <1>5, <2>3, <2>9 DEF LinkOK, Link
  <2>15. /\ m \in Link /\ m.watched = f.watched /\ m.applied = f.applied
         /\ m.offer = f.offer /\ m.offers = f.offers
         /\ m.cursor <= durable /\ m.forwarded <= durable
         /\ m.applied => m.cursor = f.cursor
         /\ b \in Seq(Message)
         /\ \A i \in DOMAIN b : ~IsOffer(b[i]) /\ Level(b[i]) <= durable
    <3>1. f \in Link /\ durable \in Seqs /\ s.cursor \in Seqs
      BY <1>3, <2>14, InvSays
    <3>2. f.cursor <= durable /\ f.forwarded <= durable
      BY <2>12, <2>14
    <3> QED BY <2>4, <2>5, <2>6, <3>1, <3>2, RetriedIs
  <2>16. /\ m.applied => m.watched
         /\ m.offer # NULL => m.offer.id = m.offers
         /\ m.offers = link.offers
    BY <1>5, <2>9, <2>14, <2>15 DEF LinkOK
  <2>17. Kept(client, m)
    <3>1. client.offer.cursor <= client.offer.cursor
      BY <1>3, <2>11, SeqsAre
    <3> QED BY <2>11, <2>14, <2>15, <3>1 DEF Kept
  <2>18. /\ RequestsOK(client, posts', link) /\ ReplaysLeft(posts') <= ReplaysLeft(posts)
         /\ \A y \in posts'.snapshots : \E z \in posts.snapshots : z.id = y.id
         /\ AcksOK(client, acks')
    <3>1. ReplaysLeft(q) <= ReplaysLeft(posts)
      BY <2>8 DEF ReplaysLeft
    <3> QED BY <1>1, <2>7, <2>8, <3>1, InvSays
  <2>19. durable \in Seqs /\ durable <= durable
    BY InvSays
  <2> QED BY <1>1, <1>2, <2>7, <2>13, <2>15, <2>16, <2>17, <2>18, <2>19, ServerKeeps
<1>6. CASE ~(link.applied /\ link.offer = [cursor |-> s.cursor, id |-> s.id])
  <2>1. PICK u : u = [s EXCEPT !.answer = "refused"]
    OBVIOUS
  <2>2. PICK q : q = [posts EXCEPT !.snapshots = (@ \ {s}) \cup {u}]
    OBVIOUS
  <2>3. posts' = q /\ UNCHANGED <<link, stream>>
    BY <1>6, <2>1, <2>2 DEF HandleSnapshotAck
  <2>4. /\ RequestsOK(client, q, link) /\ ReplaysLeft(q) = ReplaysLeft(posts)
        /\ \A y \in q.snapshots : \E z \in posts.snapshots : z.id = y.id
    BY <1>4, <2>1, <2>2
  <2>5. StreamOK(client, stream, q, link, durable)
    <3>1. durable <= durable
      BY InvSays
    <3> QED BY <2>4, <3>1, StreamStays, OffersAhead, InvSays
  <2>6. CountOK(client, q, link, disruptions) /\ DownOK(client, acks, stream, q, link)
    BY <1>2, <2>4, InvSays DEF CountOK, DownOK
  <2> QED BY <1>1, <2>3, <2>4, <2>5, <2>6, InvSays DEF EInv
<1> QED BY <1>5, <1>6

-----------------------------------------------------------------------------
(* The theorems.                                                           *)

LEMMA EventStarts ==
    ASSUME EventInit
    PROVE  EInv
<1>1. /\ client = [up |-> TRUE, connected |-> TRUE, replaying |-> FALSE, dirty |-> FALSE,
                   tracked |-> FALSE, cursor |-> 0, events |-> {}, held |-> FALSE,
                   offer |-> NULL, restored |-> 0, overtaken |-> 0]
      /\ acks = NULL
      /\ view = [open |-> FALSE, rendered |-> NULL, read |-> NULL, background |-> NULL,
                 error |-> FALSE]
      /\ stream = <<>> /\ posts = NoPosts /\ link = NoLink
      /\ durable = 0 /\ disruptions = 0
  BY DEF EventInit
<1>2. 0 \in Seqs /\ 0 <= 0 /\ 0 \in OfferIds /\ 0 \in 0..MaxDisruptions
  BY EventBoundAssumption DEF Seqs, OfferIds
<1>3. /\ client \in Client /\ client.up /\ client.cursor = 0 /\ client.restored = 0
      /\ client.overtaken = 0
      /\ client.events = {} /\ client.offer = NULL /\ ~client.tracked /\ ~client.dirty
  BY <1>1, <1>2 DEF Client
<1>4. /\ view \in View /\ ~view.open /\ view.rendered = NULL /\ view.read = NULL
      /\ view.background = NULL
  BY <1>1 DEF View
<1>5. ScreenOK(client, view, durable)
  BY <1>1, <1>2, <1>3, <1>4
     DEF ScreenOK, ClientWithin, ReadsWithin, ReadWithin, TranscriptSays, OfferSays,
         ScreenSays, InOrder, ClosedSays, BackgroundSays
<1>6. BufferOK(client)
  BY <1>3, FS_EmptySet, SeqsAre DEF BufferOK
<1>7. /\ posts \in Posts /\ DOMAIN posts.control = {} /\ DOMAIN posts.singles = {}
      /\ posts.snapshots = {}
  BY <1>1 DEF NoPosts, Posts
<1>8. RequestsOK(client, posts, link) /\ ReplaysLeft(posts) = 0
  BY <1>3, <1>7 DEF RequestsOK, ControlSays, SinglesSay, SnapshotsSay, ReplaysLeft
<1>9. /\ link \in Link /\ ~link.applied /\ link.offer = NULL /\ link.cursor = 0
      /\ link.forwarded = 0 /\ link.offers = 0
  BY <1>1, <1>2 DEF NoLink, Link
<1>10. LinkOK(client, link, durable)
  BY <1>1, <1>2, <1>9 DEF LinkOK, Kept
<1>11. StreamOK(client, stream, posts, link, durable)
  BY <1>1 DEF StreamOK, StreamWithin, OffersInOrder
<1>12. CountOK(client, posts, link, disruptions)
  BY <1>1, <1>2, <1>3, <1>8, <1>9 DEF CountOK
<1>13. AcksOK(client, acks) /\ DownOK(client, acks, stream, posts, link)
  BY <1>1, <1>3 DEF AcksOK, DownOK
<1> QED BY <1>1, <1>2, <1>5, <1>6, <1>8, <1>10, <1>11, <1>12, <1>13 DEF EInv

LEMMA EventSteps ==
    ASSUME EInv, [EventNext]_eventVars
    PROVE  EInv'
<1>1. CASE UNCHANGED eventVars
  <2>1. UNCHANGED <<client, acks, view, stream, posts, link, durable, disruptions>>
    BY <1>1 DEF eventVars, clientVars
  <2> QED BY <2>1 DEF EInv
<1>2. CASE Welcome \/ GapTimer \/ PeriodicSync
  BY <1>2, WelcomeKeeps, LinkDropsKeeps, PeriodicSyncKeeps
<1>3. CASE ControlStep
  BY <1>3, SendControlKeeps, HandleReplayKeeps, HandleSwitchKeeps, ReplayReturnsKeeps
     DEF ControlStep
<1>4. CASE StreamStep
  BY <1>4, ReceiveEventKeeps, ReceiveOfferKeeps DEF StreamStep
<1>5. CASE ReadStep
  BY <1>5, ReadAnsweredKeeps, ReadInstallsKeeps, BoundedInstallsKeeps, BackgroundInstallsKeeps
     DEF ReadStep
<1>6. CASE AckStep
  BY <1>6, HandleAckKeeps, AckReturnsKeeps, HandleSingleKeeps, HandleSnapshotAckKeeps,
     SnapshotAckReturnsKeeps DEF AckStep
<1>7. CASE Environment
  BY <1>7, OpenKeeps, LeaveKeeps, RefreshKeeps, ResumeKeeps, AppendEventKeeps,
     LinkDropsKeeps, SwitchFailsKeeps, ReadFailsKeeps DEF Environment
<1> QED BY <1>1, <1>2, <1>3, <1>4, <1>5, <1>6, <1>7 DEF EventNext

\* Every reachable state satisfies the inductive invariant.
THEOREM EventInvariance == EventSpec => []EInv
<1>1. EventInit => EInv
  BY EventStarts
<1>2. EInv /\ [EventNext]_eventVars => EInv'
  BY EventSteps
<1> QED BY <1>1, <1>2, PTL DEF EventSpec

\* Every variable has its type, the server's cursors stay within the durable
\* events, and the client's buffer within its bound.
THEOREM EventTypes == EventSpec => []EventTypeOK
<1>1. EInv => EventTypeOK
  BY InvSays DEF EventTypeOK, AcksOK, StreamOK, LinkOK, BufferOK
<1> QED BY <1>1, EventInvariance, PTL

\* Whatever the transcripts, the stream and the reconnects bring in which order,
\* the screen shows each event once and none out of its place.
THEOREM ScreenInOrder == EventSpec => []RenderedInOrder
<1>1. EInv => RenderedInOrder
  BY InvSays DEF ScreenOK, InOrder, RenderedInOrder
<1> QED BY <1>1, EventInvariance, PTL

\* The cursor that a reconnect would advertise is the number of events shown.
THEOREM CursorsShown == EventSpec => []CursorIsShown
<1>1. EInv => CursorIsShown
  <2> SUFFICES ASSUME EInv, Settled
               PROVE  Len(view.rendered) = Larger(client.cursor, client.restored)
    BY DEF CursorIsShown
  <2>1. client.up
    BY InvSays DEF DownOK, Settled
  <2> QED BY <2>1, InvSays DEF ScreenOK, ScreenSays, Settled, Covered
<1> QED BY <1>1, EventInvariance, PTL

\* The server's cursor for a client covers only what that client has applied or
\* is about to be told it has restored.
THEOREM NothingIsGivenUp == EventSpec => []NothingGivenUp
<1>1. EInv => NothingGivenUp
  BY InvSays DEF LinkOK, Kept, NothingGivenUp
<1> QED BY <1>1, EventInvariance, PTL

=====
