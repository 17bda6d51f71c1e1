------------------------- MODULE SendDeliveryProofs ------------------------
(***************************************************************************)
(* Proofs about SendDelivery, for all values of its constants: types, one  *)
(* dispatch per command, acceptances backed by the server, dispatches in   *)
(* order, reviewed commands kept, interrupted commands surfaced, the       *)
(* follow-ups of a draft in one conversation.                              *)
(*                                                                         *)
(* The invariant says what the outbox, its storage, the requests on their  *)
(* way and the rows of the server know of a message, and what the user was *)
(* shown of it.  A message is tried only when all before it are out of its *)
(* way for good: that keeps the order.  First come lemmas on queues, then  *)
(* what a step may do to a queue (Quiet: it says what it said) and to the  *)
(* standing of a message, then one lemma per action.                       *)
(***************************************************************************)
EXTENDS SendDelivery, FiniteSetTheorems, SequenceTheorems, TLAPS

-----------------------------------------------------------------------------
(* The inductive invariant.                                                *)

\* What a queue, or its stored copy, says of a message: that it is there, with
\* which session, and whether it is marked as possibly accepted.
Listed(q, m) == \E i \in DOMAIN q : q[i].msg = m
Asks(q, m, s) == \E i \in DOMAIN q : q[i].msg = m /\ q[i].sid = s
Marked(q, m) == \E i \in DOMAIN q : q[i].msg = m /\ q[i].uncertain

\* Composed messages are queued in the order they were composed.
Ordered(q, C) ==
    /\ \A i, j \in DOMAIN q : i < j => q[i].msg < q[j].msg
    /\ \A i \in DOMAIN q : q[i].msg \in C

\* Only a reviewed head is ever marked.
HeadMarked(q) ==
    \A i \in DOMAIN q : q[i].uncertain => i = 1 /\ q[i].msg \in Reviewed

Queues ==
    /\ Ordered(client.queue, composed) /\ Ordered(client.saved, composed)
    /\ HeadMarked(client.queue) /\ HeadMarked(client.saved)
    /\ \A m \in composed : \A n \in Msgs : n < m => n \in composed

\* The message was sent, addressed to that session: the server has it, or may
\* still receive it.
Asked(m, s) ==
    \/ receipts[m] # NULL /\ receipts[m].sid = s
    \/ [msg |-> m, sid |-> s] \in late
    \/ /\ client.attempt # NULL /\ client.attempt.step # "prepare"
       /\ Head1.msg = m /\ Head1.sid = s

Tried(m) == \E s \in Sessions \cup {NULL} : Asked(m, s)

\* A mark is in the storage, too; a reviewed command in hand is marked; one that
\* was tried stays marked until an answer was shown.
MarksKept ==
    /\ \A m \in Reviewed : Marked(client.queue, m) => Marked(client.saved, m)
    /\ client.attempt # NULL /\ Head1.msg \in Reviewed => Head1.uncertain
    /\ \A m \in Reviewed :
         Tried(m) => Marked(client.queue, m) \/ told[m] \cap {"accepted", "failed"} # {}

\* What the rows say of the dispatches.
RowsDispatched ==
    /\ \A m \in Msgs : receipts[m] # NULL <=> \E i \in DOMAIN dispatched : dispatched[i] = m
    /\ \A m \in live : receipts[m] # NULL
    /\ \A m \in Msgs : receipts[m] # NULL =>
          receipts[m].session \in {NULL, IF receipts[m].sid = NULL THEN m ELSE receipts[m].sid}
    /\ DispatchedOnce

\* An acceptance that no step takes back.
Backed(m, s) ==
    /\ receipts[m] # NULL /\ receipts[m].session = s
    /\ m \in dispatching => receipts[m].prompted

AnswerBacked ==
    client.attempt # NULL =>
        /\ client.attempt.step \in {"answered", "handoff"} => client.attempt.answer # NULL
        /\ client.attempt.step = "answered" /\ client.attempt.answer.status = "accepted" =>
              Backed(Head1.msg, client.attempt.answer.session)
        /\ client.attempt.step = "handoff" =>
              client.attempt.answer.session \in acceptedIn[Head1.msg]

Acceptances ==
    /\ \A m \in Msgs : \A s \in acceptedIn[m] : Backed(m, s)
    /\ \A m \in Msgs : "accepted" \in told[m] <=> acceptedIn[m] # {}
    /\ AnswerBacked

\* The user was shown something else than an acceptance.
Spoilt(m) == told[m] \cap {"failed", "uncertain", "rejected"} # {}

\* A message that was forgotten before it was answered.
Lost(m) ==
    /\ m \in composed
    /\ ~Listed(client.queue, m) /\ ~Listed(client.saved, m)
    /\ "accepted" \notin told[m]

\* The message is out of the way of later ones.
Passed(m) == "accepted" \in told[m] \/ Spoilt(m) \/ Lost(m)

\* A message is tried only when those before it are out of its way.
InTurn ==
    /\ \A m \in composed : Listed(client.queue, m) \/ Passed(m)
    /\ \A m \in Msgs : Tried(m) => m \in composed /\ \A n \in Msgs : n < m => Passed(n)

\* A dispatch that was overtaken is never reported as accepted alone.
Overtaken ==
    \A i, j \in DOMAIN dispatched :
        (i < j /\ dispatched[j] < dispatched[i]) =>
            Spoilt(dispatched[j]) \/ Lost(dispatched[j])

\* Nothing was shown of the message but acceptances, and what its receipt says
\* is an acceptance in a conversation.
Good(m) ==
    /\ ~Spoilt(m)
    /\ receipts[m] # NULL => ~receipts[m].error /\ receipts[m].session # NULL

Follows(m, n) == Opens(m) /\ Good(m) /\ m # n /\ Scope[n] = Scope[m]

\* The first message of a draft asks for a conversation of its own; a later one
\* asks for that one, or waits behind it.
QueueShares ==
    /\ \A m \in Msgs : \A s \in Sessions \cup {NULL} :
          Opens(m) /\ Asks(client.queue, m, s) => s = NULL
    /\ \A m, n \in Msgs : \A s \in Sessions \cup {NULL} :
          Follows(m, n) /\ Asks(client.queue, n, s) =>
              s = m \/ (s = NULL /\ Listed(client.queue, m)) \/ Lost(m)

StorageShares ==
    /\ \A m \in Msgs : \A s \in Sessions \cup {NULL} :
          Opens(m) /\ Asks(client.saved, m, s) => s = NULL
    /\ \A m, n \in Msgs : \A s \in Sessions \cup {NULL} :
          Follows(m, n) /\ Asks(client.saved, n, s) =>
              s = m \/ (s = NULL /\ Listed(client.saved, m)) \/ Lost(m)

RequestsShare ==
    /\ \A m \in Msgs : \A s \in Sessions \cup {NULL} :
          Opens(m) /\ Asked(m, s) => s = NULL
    /\ \A m, n \in Msgs : \A s \in Sessions \cup {NULL} :
          Follows(m, n) /\ Asked(n, s) => s = m \/ Lost(m)

DraftShared == QueueShares /\ StorageShares /\ RequestsShare

DInv ==
    /\ DeliveryTypeOK /\ Queues /\ MarksKept /\ RowsDispatched /\ Acceptances
    /\ InTurn /\ Overtaken /\ DraftShared /\ InterruptionsSurface

-----------------------------------------------------------------------------
(* Updates of the outbox.  A client d comes of b by persisting the queue   *)
(* and pumping: it may be stored, and a reviewed head marked and retained. *)

Marking(q) == [q EXCEPT ![1].uncertain = TRUE]
Preparing == [step |-> "prepare", answer |-> NULL]

Updated(b, d) ==
    /\ d \in Client
    /\ d.saved \in {b.saved, d.queue}
    /\ \/ d.queue = b.queue
       \/ /\ b.queue # <<>> /\ b.queue[1].msg \in Reviewed
          /\ d.queue = Marking(b.queue) /\ d.saved = d.queue
    /\ \/ d.attempt = b.attempt
       \/ /\ b.attempt = NULL /\ d.attempt = Preparing
          /\ d.queue # <<>>
          /\ d.queue[1].msg \in Reviewed => d.queue[1].uncertain

LEMMA MarkingMarks ==
    ASSUME NEW q \in Seq(Entry), q # <<>>
    PROVE  /\ Marking(q) \in Seq(Entry) /\ DOMAIN Marking(q) = DOMAIN q
           /\ 1 \in DOMAIN q /\ Marking(q) # <<>>
           /\ \A i \in DOMAIN q :
                 /\ Marking(q)[i].msg = q[i].msg /\ Marking(q)[i].sid = q[i].sid
                 /\ Marking(q)[i].uncertain <=> (i = 1 \/ q[i].uncertain)
<1> DEFINE e == [q[1] EXCEPT !.uncertain = TRUE]
<1>1. 1 \in 1..Len(q) /\ DOMAIN q = 1..Len(q)
  OBVIOUS
<1>2. \A i \in 1..Len(q) : q[i] \in Entry
  OBVIOUS
<1>3. e \in Entry /\ e.msg = q[1].msg /\ e.sid = q[1].sid /\ e.uncertain = TRUE
  BY <1>1, <1>2 DEF Entry
<1>4. Marking(q) = [q EXCEPT ![1] = e]
  BY DEF Marking
<1> HIDE DEF e
<1>5. /\ Marking(q) \in Seq(Entry) /\ Len(Marking(q)) = Len(q)
      /\ \A i \in 1..Len(q) : Marking(q)[i] = IF i = 1 THEN e ELSE q[i]
  BY <1>1, <1>3, <1>4, ExceptSeq
<1>6. DOMAIN Marking(q) = DOMAIN q /\ Marking(q) # <<>>
  BY <1>1, <1>5
<1> QED BY <1>1, <1>2, <1>3, <1>5, <1>6

LEMMA PreparingTyped ==
    Preparing \in Attempt /\ Preparing # NULL
BY AbsentAssumption DEF Preparing, Attempt, Steps

LEMMA PumpUpdates ==
    ASSUME NEW b \in Client, NEW d \in Pump(b)
    PROVE  Updated(b, d)
<1> DEFINE trying == [b EXCEPT !.attempt = Preparing]
           marked == [trying EXCEPT !.queue[1].uncertain = TRUE]
           retained == [marked EXCEPT !.saved = marked.queue]
           failed == Backoff(trying)
<1> USE PreparingTyped
<1>1. b.queue \in Seq(Entry) /\ b.saved \in Seq(Entry) /\ b.attempt \in Attempt \cup {NULL}
  BY DEF Client
<1>2. CASE ~b.active \/ b.attempt # NULL \/ b.timer \/ b.queue = <<>>
  <2>1. d = b
    BY <1>2 DEF Pump
  <2> QED BY <2>1 DEF Updated
<1>3. CASE ~(~b.active \/ b.attempt # NULL \/ b.timer \/ b.queue = <<>>)
  <2>1. /\ trying \in Client /\ trying.queue = b.queue /\ trying.saved = b.saved
        /\ trying.attempt = Preparing
    BY <1>1 DEF Client
  <2>2. CASE b.queue[1].msg \in Reviewed /\ ~b.queue[1].uncertain
    <3>1. d \in {retained} \cup {failed}
      <4>1. d \in {retained} \cup (IF StorageFails THEN {failed} ELSE {})
        BY <1>3, <2>2 DEF Pump, Preparing
      <4> QED BY <4>1
    <3>2. marked.queue = Marking(b.queue)
      BY <2>1 DEF Marking, Client
    <3>3. /\ Marking(b.queue) \in Seq(Entry) /\ Marking(b.queue) # <<>>
          /\ Marking(b.queue)[1].uncertain
      BY <1>1, <1>3, MarkingMarks
    <3>4. retained.queue = Marking(b.queue) /\ retained.saved = Marking(b.queue)
          /\ retained.attempt = Preparing
      BY <2>1, <3>2 DEF Client
    <3>5. retained \in Client
      BY <1>1, <3>2, <3>3 DEF Client
    <3>6. CASE d = retained
      BY <1>3, <2>2, <3>3, <3>4, <3>5, <3>6 DEF Updated
    <3>7. CASE d = failed
      <4>1. d \in Client /\ d.queue = b.queue /\ d.saved = b.saved /\ d.attempt = NULL
        BY <1>1, <3>7 DEF Client, Backoff
      <4> QED BY <1>3, <4>1 DEF Updated
    <3> QED BY <3>1, <3>6, <3>7
  <2>3. CASE ~(b.queue[1].msg \in Reviewed /\ ~b.queue[1].uncertain)
    <3>1. d = trying
      BY <1>3, <2>3 DEF Pump, Preparing
    <3> QED BY <1>3, <2>1, <2>3, <3>1 DEF Updated
  <2> QED BY <2>2, <2>3
<1> QED BY <1>2, <1>3

LEMMA PersistUpdates ==
    ASSUME NEW b \in Client, NEW d \in Persist(b)
    PROVE  /\ d \in Client /\ d.queue = b.queue /\ d.attempt = b.attempt
           /\ d.saved \in {b.saved, d.queue}
           /\ Updated(b, d)
<1>1. d \in {[b EXCEPT !.saved = b.queue]} \cup {b}
  BY DEF Persist
<1>2. /\ d \in Client /\ d.queue = b.queue /\ d.attempt = b.attempt
      /\ d.saved \in {b.saved, d.queue}
  BY <1>1 DEF Client
<1> QED BY <1>2 DEF Updated

LEMMA PersistAndPumpUpdates ==
    ASSUME NEW b \in Client, NEW p \in Persist(b), NEW d \in Pump(p)
    PROVE  Updated(b, d)
<1>1. /\ p \in Client /\ p.queue = b.queue /\ p.attempt = b.attempt
      /\ p.saved \in {b.saved, p.queue}
  BY PersistUpdates
<1>2. Updated(p, d)
  BY <1>1, PumpUpdates
<1> QED BY <1>1, <1>2 DEF Updated

\* Marking changes nothing else that a queue says.
LEMMA MarkingSays ==
    ASSUME NEW q \in Seq(Entry), q # <<>>, q[1].msg \in Reviewed
    PROVE  /\ \A m : Listed(Marking(q), m) <=> Listed(q, m)
           /\ \A m, s : Asks(Marking(q), m, s) <=> Asks(q, m, s)
           /\ \A m : Marked(q, m) => Marked(Marking(q), m)
           /\ \A C : Ordered(q, C) => Ordered(Marking(q), C)
           /\ HeadMarked(q) => HeadMarked(Marking(q))
<1> DEFINE p == Marking(q)
<1>1. /\ DOMAIN p = DOMAIN q
      /\ \A i \in DOMAIN q :
            /\ p[i].msg = q[i].msg /\ p[i].sid = q[i].sid
            /\ p[i].uncertain <=> (i = 1 \/ q[i].uncertain)
  BY MarkingMarks
<1> HIDE DEF p
<1>2. \A m : Listed(p, m) <=> Listed(q, m)
  BY <1>1 DEF Listed
<1>3. \A m, s : Asks(p, m, s) <=> Asks(q, m, s)
  BY <1>1 DEF Asks
<1>4. \A m : Marked(q, m) => Marked(p, m)
  BY <1>1 DEF Marked
<1>5. \A C : Ordered(q, C) => Ordered(p, C)
  BY <1>1 DEF Ordered
<1>6. HeadMarked(q) => HeadMarked(p)
  BY <1>1 DEF HeadMarked
<1> QED BY <1>2, <1>3, <1>4, <1>5, <1>6 DEF p

LEMMA UpdatedSays ==
    ASSUME NEW b \in Client, NEW d, Updated(b, d)
    PROVE  /\ \A m : Listed(d.queue, m) <=> Listed(b.queue, m)
           /\ \A m, s : Asks(d.queue, m, s) <=> Asks(b.queue, m, s)
           /\ \A m : Marked(b.queue, m) => Marked(d.queue, m)
           /\ d.queue # b.queue => d.saved = d.queue
           /\ \A C : Ordered(b.queue, C) => Ordered(d.queue, C)
           /\ HeadMarked(b.queue) => HeadMarked(d.queue)
           /\ b.queue # <<>> => d.queue # <<>>
<1>1. CASE d.queue = b.queue
  BY <1>1
<1>2. CASE /\ b.queue # <<>> /\ b.queue[1].msg \in Reviewed
           /\ d.queue = Marking(b.queue) /\ d.saved = d.queue
  <2>1. b.queue \in Seq(Entry)
    BY DEF Client
  <2> QED BY <1>2, <2>1, MarkingSays, MarkingMarks
<1> QED BY <1>1, <1>2 DEF Updated

LEMMA AppendSays ==
    ASSUME NEW q \in Seq(Entry), NEW e \in Entry
    PROVE  LET p == Append(q, e) IN
           /\ p \in Seq(Entry) /\ p # <<>>
           /\ q # <<>> => p[1] = q[1]
           /\ \A m : Listed(p, m) <=> Listed(q, m) \/ m = e.msg
           /\ \A m, s : Asks(p, m, s) <=> Asks(q, m, s) \/ (m = e.msg /\ s = e.sid)
           /\ \A m : Marked(q, m) => Marked(p, m)
           /\ ~e.uncertain => \A m : Marked(p, m) => Marked(q, m)
           /\ \A C : Ordered(q, C) /\ (\A x \in C : x < e.msg) => Ordered(p, C \cup {e.msg})
           /\ HeadMarked(q) /\ ~e.uncertain => HeadMarked(p)
<1> DEFINE p == Append(q, e)
<1>1. /\ p \in Seq(Entry) /\ p # <<>> /\ Len(p) = Len(q) + 1
      /\ \A i \in 1..Len(q) : p[i] = q[i]
      /\ p[Len(q) + 1] = e
  BY AppendProperties
<1>2. DOMAIN p = 1..(Len(q) + 1) /\ DOMAIN q = 1..Len(q) /\ Len(q) \in Nat
  BY <1>1
<1>3. /\ DOMAIN p = DOMAIN q \cup {Len(q) + 1} /\ Len(q) + 1 \notin DOMAIN q
      /\ \A i \in DOMAIN q : p[i] = q[i] /\ i < Len(q) + 1
  BY <1>1, <1>2
<1>4. q # <<>> => p[1] = q[1]
  BY <1>1, <1>2
<1>5. p[Len(q) + 1] = e
  BY <1>1
<1> DEFINE last == Len(q) + 1
<1> HIDE DEF p, last
<1>6. \A m : Listed(p, m) <=> Listed(q, m) \/ m = e.msg
  BY <1>3, <1>5 DEF Listed, last
<1>7. \A m, s : Asks(p, m, s) <=> Asks(q, m, s) \/ (m = e.msg /\ s = e.sid)
  BY <1>3, <1>5 DEF Asks, last
<1>8. \A m : Marked(q, m) => Marked(p, m)
  BY <1>3, <1>5 DEF Marked, last
<1>9. ~e.uncertain => \A m : Marked(p, m) => Marked(q, m)
  BY <1>3, <1>5 DEF Marked, last
<1>10. ASSUME NEW C, Ordered(q, C), \A x \in C : x < e.msg
       PROVE  Ordered(p, C \cup {e.msg})
  <2>1. SUFFICES ASSUME NEW i \in DOMAIN p, NEW j \in DOMAIN p, i < j
                 PROVE  p[i].msg < p[j].msg
    BY <1>3, <1>5, <1>10 DEF Ordered, last
  <2>2. i \in DOMAIN q
    BY <1>2, <2>1
  <2>3. CASE j \in DOMAIN q
    BY <1>3, <1>10, <2>1, <2>2, <2>3 DEF Ordered
  <2>4. CASE j = Len(q) + 1
    <3>1. p[i].msg = q[i].msg /\ p[j].msg = e.msg /\ q[i].msg \in C
      BY <1>3, <1>5, <1>10, <2>2, <2>4 DEF Ordered
    <3> QED BY <1>10, <3>1
  <2> QED BY <1>3, <2>3, <2>4
<1>11. HeadMarked(q) /\ ~e.uncertain => HeadMarked(p)
  BY <1>3, <1>5 DEF HeadMarked, last
<1> QED BY <1>1, <1>4, <1>6, <1>7, <1>8, <1>9, <1>10, <1>11 DEF p

LEMMA TailSays ==
    ASSUME NEW q \in Seq(Entry), q # <<>>
    PROVE  LET p == Tail(q) IN
           /\ p \in Seq(Entry)
           /\ \A m : Listed(q, m) => Listed(p, m) \/ m = q[1].msg
           /\ \A m : Listed(p, m) => Listed(q, m)
           /\ \A m, s : Asks(p, m, s) => Asks(q, m, s)
           /\ \A C : Ordered(q, C) => Ordered(p, C) /\ ~Listed(p, q[1].msg)
           /\ HeadMarked(q) => \A i \in DOMAIN p : ~p[i].uncertain
<1> DEFINE p == Tail(q)
<1>1. p \in Seq(Entry) /\ Len(p) = Len(q) - 1 /\ \A i \in 1..Len(p) : p[i] = q[i + 1]
  BY HeadTailProperties
<1>2. DOMAIN p = 1..(Len(q) - 1) /\ DOMAIN q = 1..Len(q) /\ Len(q) \in Nat /\ Len(q) >= 1
  BY <1>1
<1>3. /\ \A i \in DOMAIN p : i + 1 \in DOMAIN q /\ p[i] = q[i + 1] /\ 1 < i + 1
      /\ \A j \in DOMAIN q : j = 1 \/ (j - 1 \in DOMAIN p /\ p[j - 1] = q[j])
      /\ 1 \in DOMAIN q
  BY <1>1, <1>2
<1> HIDE DEF p
<1>4. \A m : Listed(q, m) => Listed(p, m) \/ m = q[1].msg
  BY <1>3 DEF Listed
<1>5. \A m : Listed(p, m) => Listed(q, m)
  BY <1>3 DEF Listed
<1>6. \A m, s : Asks(p, m, s) => Asks(q, m, s)
  BY <1>3 DEF Asks
<1>7. ASSUME NEW C, Ordered(q, C) PROVE Ordered(p, C) /\ ~Listed(p, q[1].msg)
  <2>1. \A i, j \in DOMAIN p : i < j => p[i].msg < p[j].msg
    <3> SUFFICES ASSUME NEW i \in DOMAIN p, NEW j \in DOMAIN p, i < j
                 PROVE  p[i].msg < p[j].msg
      OBVIOUS
    <3>1. i + 1 < j + 1
      BY <1>2
    <3> QED BY <1>3, <1>7, <3>1 DEF Ordered
  <2>2. \A i \in DOMAIN p : p[i].msg \in C
    BY <1>3, <1>7 DEF Ordered
  <2>3. ASSUME NEW i \in DOMAIN p PROVE p[i].msg # q[1].msg
    <3>1. q[1].msg < q[i + 1].msg
      BY <1>3, <1>7 DEF Ordered
    <3>2. q[1] \in Entry
      BY <1>2, <1>3
    <3>3. q[1].msg \in Nat
      BY <3>2, MsgsAssumption DEF Entry
    <3> QED BY <1>3, <3>1, <3>3
  <2> QED BY <2>1, <2>2, <2>3 DEF Ordered, Listed
<1>8. HeadMarked(q) => \A i \in DOMAIN p : ~p[i].uncertain
  <2> SUFFICES ASSUME HeadMarked(q), NEW i \in DOMAIN p PROVE ~p[i].uncertain
    OBVIOUS
  <2>1. i + 1 \in DOMAIN q /\ p[i] = q[i + 1] /\ i + 1 # 1
    BY <1>2, <1>3
  <2> QED BY <2>1 DEF HeadMarked
<1> QED BY <1>1, <1>4, <1>5, <1>6, <1>7, <1>8 DEF p

\* Follow-ups of the draft take over the session, and nothing else.
LEMMA InheritSays ==
    ASSUME NEW q \in Seq(Entry), NEW e \in Entry, NEW session \in Sessions \cup {NULL}
    PROVE  LET p == Inherit(q, e, session)
               Heirs(m) == /\ e.sid = NULL /\ session # NULL
                           /\ Scope[m] = Scope[e.msg] /\ m \notin Reviewed
           IN
           /\ p \in Seq(Entry)
           /\ \A m : Listed(p, m) <=> Listed(q, m)
           /\ \A m, s : Asks(p, m, s) =>
                 \/ Asks(q, m, s) /\ ~(Heirs(m) /\ s = NULL)
                 \/ Heirs(m) /\ s = session
           /\ (\A i \in DOMAIN q : ~q[i].uncertain) => \A i \in DOMAIN p : ~p[i].uncertain
           /\ \A C : Ordered(q, C) => Ordered(p, C)
<1> DEFINE p == Inherit(q, e, session)
           Heirs(m) == /\ e.sid = NULL /\ session # NULL
                       /\ Scope[m] = Scope[e.msg] /\ m \notin Reviewed
           Turned(i) == Heirs(q[i].msg) /\ q[i].sid = NULL
           heir(i) == IF Turned(i) THEN [q[i] EXCEPT !.sid = session] ELSE q[i]
<1>1. DOMAIN q = 1..Len(q) /\ Len(q) \in Nat /\ \A i \in DOMAIN q : q[i] \in Entry
  OBVIOUS
<1>2. \A i \in DOMAIN q : /\ heir(i) \in Entry
                          /\ heir(i).msg = q[i].msg /\ heir(i).uncertain = q[i].uncertain
                          /\ heir(i).sid = IF Turned(i) THEN session ELSE q[i].sid
  BY <1>1 DEF Entry
<1>3. p = [i \in DOMAIN q |-> heir(i)]
  <2>1. \A i \in DOMAIN q :
          (IF e.sid = NULL /\ session # NULL /\ q[i].sid = NULL
              /\ Scope[q[i].msg] = Scope[e.msg] /\ q[i].msg \notin Reviewed
           THEN [q[i] EXCEPT !.sid = session] ELSE q[i]) = heir(i)
    OBVIOUS
  <2> HIDE DEF Turned, heir
  <2> QED BY <2>1 DEF Inherit
<1> HIDE DEF heir, p
<1>4. p \in Seq(Entry)
  BY <1>1, <1>2, <1>3
<1>5. /\ DOMAIN p = DOMAIN q
      /\ \A i \in DOMAIN q : /\ p[i].msg = q[i].msg /\ p[i].uncertain = q[i].uncertain
                             /\ p[i].sid = IF Turned(i) THEN session ELSE q[i].sid
  BY <1>2, <1>3
<1>6. \A m : Listed(p, m) <=> Listed(q, m)
  BY <1>5 DEF Listed
<1>7. ASSUME NEW m, NEW s, Asks(p, m, s)
      PROVE  \/ Asks(q, m, s) /\ ~(Heirs(m) /\ s = NULL)
             \/ Heirs(m) /\ s = session
  <2>1. PICK i \in DOMAIN q : p[i].msg = m /\ p[i].sid = s
    BY <1>5, <1>7 DEF Asks
  <2>2. CASE Turned(i)
    BY <1>5, <2>1, <2>2
  <2>3. CASE ~Turned(i)
    <3>1. q[i].msg = m /\ q[i].sid = s
      BY <1>5, <2>1, <2>3
    <3> QED BY <2>3, <3>1 DEF Asks
  <2> QED BY <2>2, <2>3
<1>8. (\A i \in DOMAIN q : ~q[i].uncertain) => \A i \in DOMAIN p : ~p[i].uncertain
  BY <1>5
<1>9. \A C : Ordered(q, C) => Ordered(p, C)
  BY <1>5 DEF Ordered
<1> HIDE DEF Heirs, Turned
<1>10. \A m, s : Asks(p, m, s) =>
                 \/ Asks(q, m, s) /\ ~(Heirs(m) /\ s = NULL)
                 \/ Heirs(m) /\ s = session
  BY <1>7
<1> QED BY <1>4, <1>6, <1>8, <1>9, <1>10 DEF p, Heirs

\* Of a queue in which only the head may be marked, a lost login leaves the head or
\* nothing.
LEMMA RetainedSays ==
    ASSUME NEW q \in Seq(Entry), NEW inFlight \in BOOLEAN, HeadMarked(q)
    PROVE  LET p == Retained(q, inFlight)
               stays == /\ q # <<>> /\ q[1].msg \in Reviewed
                        /\ q[1].uncertain \/ inFlight
           IN
           /\ p \in Seq(Entry)
           /\ \A m : Listed(p, m) <=> (stays /\ m = q[1].msg)
           /\ \A m : Marked(p, m) <=> (stays /\ m = q[1].msg)
           /\ \A m, s : Asks(p, m, s) => Asks(q, m, s)
           /\ \A C : Ordered(q, C) => Ordered(p, C)
           /\ HeadMarked(p)
<1> DEFINE p == Retained(q, inFlight)
           Kept(i) == /\ q[i].msg \in Reviewed
                      /\ q[i].uncertain \/ (inFlight /\ i = 1)
           kept == {i \in DOMAIN q : Kept(i)}
           upto(i) == {j \in kept : j <= i}
           stays == /\ q # <<>> /\ q[1].msg \in Reviewed
                    /\ q[1].uncertain \/ inFlight
           head == [q[1] EXCEPT !.uncertain = TRUE]
           which(k) == CHOOSE i \in kept : Cardinality(upto(i)) = k
           entry(k) == [q[which(k)] EXCEPT !.uncertain = TRUE]
<1>1. p = [k \in 1..Cardinality(kept) |-> entry(k)]
  BY DEF Retained
<1>2. DOMAIN q = 1..Len(q) /\ Len(q) \in Nat /\ \A i \in DOMAIN q : q[i] \in Entry
  OBVIOUS
<1>3. stays => q[1] \in Entry /\ 1 \in DOMAIN q
  BY <1>2
<1>4. kept = IF stays THEN {1} ELSE {}
  <2>1. \A i \in kept : i = 1
    BY DEF HeadMarked
  <2>2. 1 \in kept <=> stays
    BY <1>2
  <2> HIDE DEF kept, stays
  <2> QED BY <2>1, <2>2
<1>5. CASE ~stays
  <2>1. Cardinality(kept) = 0
    BY <1>4, <1>5, FS_EmptySet
  <2>2. p \in Seq(Entry) /\ DOMAIN p = {}
    <3> HIDE DEF p, kept, entry
    <3>1. p = [k \in 1..0 |-> entry(k)]
      BY <1>1, <2>1
    <3>2. DOMAIN p = {}
      BY <3>1
    <3> QED BY <3>1, <3>2
  <2> HIDE DEF p, stays
  <2> QED BY <1>5, <2>2 DEF Listed, Marked, Asks, Ordered, HeadMarked, p, stays
<1>6. CASE stays
  <2>1. kept = {1} /\ Cardinality(kept) = 1
    <3>1. kept = {1}
      BY <1>4, <1>6
    <3> HIDE DEF kept
    <3> QED BY <3>1, FS_Singleton
  <2>2. upto(1) = {1} /\ Cardinality(upto(1)) = 1
    <3>1. upto(1) = {1}
      BY <2>1
    <3> HIDE DEF upto
    <3> QED BY <3>1, FS_Singleton
  <2>3. which(1) = 1
    <3> HIDE DEF upto, kept
    <3>1. 1 \in kept /\ Cardinality(upto(1)) = 1
      BY <2>1, <2>2
    <3>2. which(1) \in kept
      BY <3>1
    <3> QED BY <2>1, <3>2
  <2>4. p = [k \in 1..1 |-> entry(k)] /\ entry(1) = head
    <3>1. entry(1) = head
      <4> HIDE DEF which
      <4> QED BY <2>3
    <3> HIDE DEF p, kept, entry, head
    <3> QED BY <1>1, <2>1, <3>1
  <2>5. /\ head \in Entry /\ head.msg = q[1].msg /\ head.sid = q[1].sid
        /\ head.uncertain = TRUE
    BY <1>3, <1>6 DEF Entry
  <2> HIDE DEF head, p, entry
  <2>6. p \in Seq(Entry)
    BY <2>4, <2>5
  <2>7. DOMAIN p = {1} /\ p[1] = head
    BY <2>4
  <2>8. \A m, s : Asks(p, m, s) => Asks(q, m, s)
    BY <1>3, <1>6, <2>5, <2>7 DEF Asks
  <2>9. \A C : Ordered(q, C) => Ordered(p, C)
    BY <1>3, <1>6, <2>5, <2>7 DEF Ordered
  <2>10. HeadMarked(p)
    BY <1>6, <2>5, <2>7 DEF HeadMarked
  <2> HIDE DEF stays
  <2>11. \A m : Listed(p, m) <=> (stays /\ m = q[1].msg)
    BY <1>6, <2>5, <2>7 DEF Listed
  <2>12. \A m : Marked(p, m) <=> (stays /\ m = q[1].msg)
    BY <1>6, <2>5, <2>7 DEF Marked
  <2> QED BY <2>6, <2>8, <2>9, <2>10, <2>11, <2>12 DEF p, stays
<1> QED BY <1>5, <1>6

-----------------------------------------------------------------------------
(* What a step may do to the messages.                                     *)

ToldGrows == \A m \in Msgs : told[m] \subseteq told'[m]

\* Only what is in the queue is reported as accepted.
AcceptedFromQueue ==
    \A m \in Msgs : "accepted" \in told'[m] => "accepted" \in told[m] \/ Listed(client.queue, m)

\* What was forgotten does not come back.
NoneReturns ==
    \A m \in composed :
        Listed(client'.queue, m) \/ Listed(client'.saved, m) =>
            Listed(client.queue, m) \/ Listed(client.saved, m)

StandingKept ==
    \A m \in Msgs : /\ Lost(m) => Lost(m)'
                    /\ Passed(m) => Passed(m)'
                    /\ Spoilt(m) => Spoilt(m)'

\* What leaves the queue is out of the way.
LeavesPassed ==
    \A m \in composed' :
        \/ Listed(client'.queue, m) \/ ~Listed(client'.saved, m)
        \/ "accepted" \in told'[m] \/ Spoilt(m)'
        \/ m \in composed /\ ~Listed(client.queue, m)

\* Only the command in hand is sent.
OnlyHeadSent ==
    \A m \in Msgs : \A s \in Sessions \cup {NULL} :
        Asked(m, s)' =>
            \/ Asked(m, s)
            \/ client.attempt # NULL /\ m = Head1.msg /\ s = Head1.sid

GoodFalls == \A m \in Msgs : Good(m)' => Good(m)

MarksGrow ==
    \A m \in Reviewed :
        Marked(client.queue, m) =>
            Marked(client'.queue, m) \/ told'[m] \cap {"accepted", "failed"} # {}

LEMMA StandingStays ==
    ASSUME composed \subseteq composed', ToldGrows, AcceptedFromQueue, NoneReturns
    PROVE  StandingKept
<1> SUFFICES ASSUME NEW m \in Msgs
             PROVE  /\ Lost(m) => Lost(m)'
                    /\ Passed(m) => Passed(m)'
                    /\ Spoilt(m) => Spoilt(m)'
  BY DEF StandingKept
<1>1. Lost(m) => Lost(m)'
  BY DEF Lost, AcceptedFromQueue, NoneReturns
<1>2. Spoilt(m) => Spoilt(m)'
  BY DEF Spoilt, ToldGrows
<1>3. Passed(m) => Passed(m)'
  BY <1>1, <1>2 DEF Passed, ToldGrows
<1> QED BY <1>1, <1>2, <1>3

\* The head of the queue may be sent.
LEMMA HeadReady ==
    ASSUME DInv, client.attempt # NULL
    PROVE  /\ Head1 \in Entry /\ Head1 = client.queue[1]
           /\ Head1.msg \in composed /\ Head1.msg \in Msgs
           /\ \A n \in Msgs : n < Head1.msg => Passed(n)
           /\ \A n \in Msgs : n < Head1.msg => ~Listed(client.queue, n)
           /\ Listed(client.queue, Head1.msg) /\ Asks(client.queue, Head1.msg, Head1.sid)
           /\ Opens(Head1.msg) => Head1.sid = NULL
           /\ \A m \in Msgs : Follows(m, Head1.msg) => Head1.sid = m \/ Lost(m)
           /\ Head1.msg \in Reviewed => Marked(client.queue, Head1.msg)
<1> DEFINE q == client.queue
<1>1. q \in Seq(Entry) /\ q # <<>>
  BY DEF DInv, DeliveryTypeOK, Client
<1>2. Head1 = q[1] /\ Head1 \in Entry /\ 1 \in DOMAIN q /\ DOMAIN q = 1..Len(q)
  BY <1>1 DEF Head1
<1>3. Head1.msg \in composed /\ Head1.msg \in Msgs
  BY <1>2 DEF DInv, Queues, Ordered, Entry
<1>4. Listed(q, Head1.msg) /\ Asks(q, Head1.msg, Head1.sid)
  BY <1>2 DEF Listed, Asks
<1>5. Head1.msg \in Reviewed => Marked(q, Head1.msg)
  BY <1>2 DEF DInv, MarksKept, Marked
<1>6. ASSUME NEW n \in Msgs, n < Head1.msg PROVE ~Listed(q, n)
  <2> SUFFICES ASSUME NEW i \in DOMAIN q, q[i].msg = n PROVE FALSE
    BY DEF Listed
  <2>1. i = 1 \/ 1 < i
    BY <1>2
  <2>2. 1 < i => Head1.msg < n
    BY <1>2 DEF DInv, Queues, Ordered
  <2> QED BY <1>2, <1>3, <1>6, <2>1, <2>2, MsgsAssumption
<1>7. ASSUME NEW n \in Msgs, n < Head1.msg PROVE Passed(n)
  BY <1>3, <1>6, <1>7 DEF DInv, Queues, InTurn
<1>8. Opens(Head1.msg) => Head1.sid = NULL
  BY <1>2, <1>3, <1>4 DEF DInv, DraftShared, QueueShares, Entry
<1>9. ASSUME NEW m \in Msgs, Follows(m, Head1.msg) PROVE Head1.sid = m \/ Lost(m)
  <2>1. m <= Head1.msg /\ m # Head1.msg
    BY <1>3, <1>9 DEF Follows, Opens
  <2>2. ~Listed(q, m)
    <3>1. m \in Nat /\ Head1.msg \in Nat
      BY <1>3, MsgsAssumption
    <3>2. m < Head1.msg
      BY <2>1, <3>1
    <3> QED BY <1>6, <3>2
  <2>3. Head1.sid \in Sessions \cup {NULL}
    BY <1>2 DEF Entry
  <2> QED BY <1>3, <1>4, <1>9, <2>2, <2>3 DEF DInv, DraftShared, QueueShares
<1> QED BY <1>2, <1>3, <1>4, <1>5, <1>6, <1>7, <1>8, <1>9

LEMMA InTurnKept ==
    ASSUME DInv, StandingKept, composed \subseteq composed', composed' \subseteq Msgs,
           LeavesPassed, OnlyHeadSent
    PROVE  InTurn'
<1>1. ASSUME NEW m \in composed' PROVE Listed(client'.queue, m) \/ Passed(m)'
  <2>1. m \in Msgs
    OBVIOUS
  <2>2. CASE m \in composed /\ ~Listed(client.queue, m)
    BY <2>1, <2>2 DEF DInv, InTurn, StandingKept
  <2>3. CASE ~(m \in composed /\ ~Listed(client.queue, m))
    BY <1>1, <2>3 DEF LeavesPassed, Passed, Lost
  <2> QED BY <2>2, <2>3
<1>2. ASSUME NEW m \in Msgs, Tried(m)'
      PROVE  m \in composed' /\ \A n \in Msgs : n < m => Passed(n)'
  <2>1. PICK s \in Sessions \cup {NULL} : Asked(m, s)'
    BY <1>2 DEF Tried
  <2>2. m \in composed /\ \A n \in Msgs : n < m => Passed(n)
    <3>1. CASE Asked(m, s)
      BY <3>1 DEF DInv, InTurn, Tried
    <3>2. CASE client.attempt # NULL /\ m = Head1.msg /\ s = Head1.sid
      BY <3>2, HeadReady
    <3> QED BY <2>1, <3>1, <3>2 DEF OnlyHeadSent
  <2> QED BY <2>2 DEF StandingKept
<1> QED BY <1>1, <1>2 DEF InTurn

LEMMA OvertakenKept ==
    ASSUME DInv, StandingKept, UNCHANGED dispatched
    PROVE  Overtaken'
<1>1. \A i \in DOMAIN dispatched : dispatched[i] \in Msgs
  BY DEF DInv, DeliveryTypeOK
<1> QED BY <1>1 DEF DInv, Overtaken, StandingKept

LEMMA MarksStay ==
    ASSUME DInv, ToldGrows, MarksGrow, OnlyHeadSent
    PROVE  \A m \in Reviewed :
              Tried(m)' => Marked(client'.queue, m) \/ told'[m] \cap {"accepted", "failed"} # {}
<1> SUFFICES ASSUME NEW m \in Reviewed, Tried(m)'
             PROVE  Marked(client'.queue, m) \/ told'[m] \cap {"accepted", "failed"} # {}
  OBVIOUS
<1>1. m \in Msgs
  BY ReviewedAssumption
<1>2. PICK s \in Sessions \cup {NULL} : Asked(m, s)'
  BY DEF Tried
<1>3. Marked(client.queue, m) \/ told[m] \cap {"accepted", "failed"} # {}
  <2>1. CASE Asked(m, s)
    BY <2>1 DEF DInv, MarksKept, Tried
  <2>2. CASE client.attempt # NULL /\ m = Head1.msg /\ s = Head1.sid
    BY <2>2, HeadReady
  <2> QED BY <1>1, <1>2, <2>1, <2>2 DEF OnlyHeadSent
<1> QED BY <1>1, <1>3 DEF ToldGrows, MarksGrow

LEMMA FollowsFalls ==
    ASSUME GoodFalls
    PROVE  \A m, n \in Msgs : Follows(m, n)' => Follows(m, n)
BY DEF GoodFalls, Follows, Opens

LEMMA DraftKept ==
    ASSUME DInv, StandingKept, GoodFalls, OnlyHeadSent, QueueShares',
           client'.saved \in {client.saved, client'.queue}
    PROVE  DraftShared'
<1>1. StorageShares'
  <2>1. CASE client'.saved = client'.queue
    BY <2>1 DEF QueueShares, StorageShares
  <2>2. CASE client'.saved = client.saved
    <3>1. ASSUME NEW m \in Msgs, NEW s \in Sessions \cup {NULL}, Opens(m), Asks(client'.saved, m, s)
          PROVE  s = NULL
      BY <2>2, <3>1 DEF DInv, DraftShared, StorageShares
    <3>2. ASSUME NEW m \in Msgs, NEW n \in Msgs, NEW s \in Sessions \cup {NULL},
                 Follows(m, n)', Asks(client'.saved, n, s)
          PROVE  s = m \/ (s = NULL /\ Listed(client'.saved, m)) \/ Lost(m)'
      <4>1. Follows(m, n)
        BY <3>2, FollowsFalls
      <4>2. s = m \/ (s = NULL /\ Listed(client.saved, m)) \/ Lost(m)
        BY <2>2, <3>2, <4>1 DEF DInv, DraftShared, StorageShares
      <4> QED BY <2>2, <4>2 DEF StandingKept
    <3> QED BY <3>1, <3>2 DEF StorageShares, Opens
  <2> QED BY <2>1, <2>2
<1>2. RequestsShare'
  <2>1. ASSUME NEW m \in Msgs, NEW s \in Sessions \cup {NULL}, Opens(m), Asked(m, s)'
        PROVE  s = NULL
    BY <2>1, HeadReady DEF DInv, DraftShared, RequestsShare, OnlyHeadSent
  <2>2. ASSUME NEW m \in Msgs, NEW n \in Msgs, NEW s \in Sessions \cup {NULL},
               Follows(m, n)', Asked(n, s)'
        PROVE  s = m \/ Lost(m)'
    <3>1. Follows(m, n)
      BY <2>2, FollowsFalls
    <3>2. s = m \/ Lost(m)
      <4>1. CASE Asked(n, s)
        BY <3>1, <4>1 DEF DInv, DraftShared, RequestsShare
      <4>2. CASE client.attempt # NULL /\ n = Head1.msg /\ s = Head1.sid
        BY <3>1, <4>2, HeadReady
      <4> QED BY <2>2, <4>1, <4>2 DEF OnlyHeadSent
    <3> QED BY <3>2 DEF StandingKept
  <2> QED BY <2>1, <2>2 DEF RequestsShare, Opens
<1> QED BY <1>1, <1>2 DEF DraftShared

-----------------------------------------------------------------------------
(* Quiet steps: the queue says what it said, but that a head may be marked.*)

Quiet ==
    /\ \A m : Listed(client'.queue, m) <=> Listed(client.queue, m)
    /\ \A m, s : Asks(client'.queue, m, s) <=> Asks(client.queue, m, s)
    /\ \A m : Marked(client.queue, m) => Marked(client'.queue, m)
    /\ client'.saved \in {client.saved, client'.queue}
    /\ client'.queue # client.queue => client'.saved = client'.queue
    /\ \A C : Ordered(client.queue, C) => Ordered(client'.queue, C)
    /\ HeadMarked(client.queue) => HeadMarked(client'.queue)
    /\ client.queue # <<>> =>
          /\ client'.queue # <<>>
          /\ client'.queue[1].msg = client.queue[1].msg
          /\ client'.queue[1].sid = client.queue[1].sid

\* A reviewed command in hand is marked.
HandMarked ==
    client'.attempt # NULL /\ client'.queue[1].msg \in Reviewed => client'.queue[1].uncertain

\* A request that is given up is that of the head.
OnlyHeadAbandoned ==
    \A r \in late' :
        \/ r \in late
        \/ client.attempt # NULL /\ r.msg = Head1.msg /\ r.sid = Head1.sid

\* No attempt is under way but the one that was begun.
NoneBegun ==
    client'.attempt # NULL /\ client'.attempt.step # "prepare" =>
        /\ client.attempt # NULL
        /\ client'.queue[1].msg = client.queue[1].msg
        /\ client'.queue[1].sid = client.queue[1].sid

LEMMA UpdateQuiet ==
    ASSUME DInv, NEW b \in Client, b.queue = client.queue, b.saved = client.saved,
           b.attempt = client.attempt, Updated(b, client')
    PROVE  /\ Quiet /\ HandMarked /\ NoneBegun /\ client' \in Client
           /\ client'.attempt # NULL => client'.queue # <<>>
<1>1. client.queue \in Seq(Entry) /\ (client.attempt # NULL => client.queue # <<>>)
  BY DEF DInv, DeliveryTypeOK, Client
<1>2. client.queue # <<>> =>
          /\ client'.queue # <<>>
          /\ client'.queue[1].msg = client.queue[1].msg
          /\ client'.queue[1].sid = client.queue[1].sid
          /\ client.queue[1].uncertain => client'.queue[1].uncertain
  <2>1. CASE client'.queue = client.queue
    BY <2>1
  <2>2. CASE b.queue # <<>> /\ client'.queue = Marking(b.queue)
    BY <1>1, <2>2, MarkingMarks
  <2> QED BY <2>1, <2>2 DEF Updated
<1>3. Quiet
  BY <1>2, UpdatedSays DEF Quiet, Updated
<1>4. client.attempt # NULL /\ client.queue[1].msg \in Reviewed => client.queue[1].uncertain
  <2> SUFFICES ASSUME client.attempt # NULL, client.queue[1].msg \in Reviewed
               PROVE  client.queue[1].uncertain
    OBVIOUS
  <2>1. Head1 = client.queue[1]
    BY HeadReady
  <2> QED BY <2>1 DEF DInv, MarksKept
<1>5. HandMarked
  BY <1>1, <1>2, <1>4 DEF HandMarked, Updated
<1>6. NoneBegun
  BY <1>1, <1>2 DEF NoneBegun, Updated, Preparing
<1> QED BY <1>1, <1>2, <1>3, <1>5, <1>6 DEF Updated

LEMMA SameQuiet ==
    ASSUME DInv, client'.queue = client.queue, client'.saved = client.saved,
           client'.attempt # NULL => client.attempt # NULL
    PROVE  Quiet /\ HandMarked /\ NoneBegun
<1>1. Quiet
  BY DEF Quiet
<1>2. HandMarked
  <2> SUFFICES ASSUME client.attempt # NULL, client.queue[1].msg \in Reviewed
               PROVE  client.queue[1].uncertain
    BY DEF HandMarked
  <2>1. Head1 = client.queue[1]
    BY HeadReady
  <2> QED BY <2>1 DEF DInv, MarksKept
<1> QED BY <1>1, <1>2 DEF NoneBegun

LEMMA RequestsSent ==
    ASSUME DInv, DeliveryTypeOK', NoneBegun, OnlyHeadAbandoned, UNCHANGED receipts
    PROVE  OnlyHeadSent
<1> SUFFICES ASSUME NEW m \in Msgs, NEW s \in Sessions \cup {NULL}, Asked(m, s)'
             PROVE  \/ Asked(m, s)
                    \/ client.attempt # NULL /\ m = Head1.msg /\ s = Head1.sid
  BY DEF OnlyHeadSent
<1>1. CASE receipts'[m] # NULL /\ receipts'[m].sid = s
  BY <1>1 DEF Asked
<1>2. CASE [msg |-> m, sid |-> s] \in late'
  <2> DEFINE r == [msg |-> m, sid |-> s]
  <2>1. r.msg = m /\ r.sid = s
    OBVIOUS
  <2> HIDE DEF r
  <2> QED BY <1>2, <2>1 DEF OnlyHeadAbandoned, Asked, r
<1>3. CASE /\ client'.attempt # NULL /\ client'.attempt.step # "prepare"
           /\ Head(client'.queue).msg = m /\ Head(client'.queue).sid = s
  <2>1. client.attempt # NULL
    BY <1>3 DEF NoneBegun
  <2>2. /\ client.queue \in Seq(Entry) /\ client.queue # <<>>
        /\ client'.queue \in Seq(Entry) /\ client'.queue # <<>>
    BY <1>3, <2>1 DEF DInv, DeliveryTypeOK, Client
  <2>3. Head1 = client.queue[1] /\ Head(client'.queue) = client'.queue[1]
    BY <2>2 DEF Head1
  <2> QED BY <1>3, <2>1, <2>3 DEF NoneBegun
<1> QED BY <1>1, <1>2, <1>3 DEF Asked, Head1

LEMMA QuietKeeps ==
    ASSUME DInv, DeliveryTypeOK', Quiet, HandMarked, UNCHANGED composed,
           ToldGrows, AcceptedFromQueue, GoodFalls, OnlyHeadSent
    PROVE  /\ Queues' /\ MarksKept' /\ InTurn' /\ DraftShared'
           /\ StandingKept
<1>1. Queues'
  BY DEF DInv, Queues, Quiet
<1>2. NoneReturns /\ LeavesPassed
  BY DEF NoneReturns, LeavesPassed, Quiet
<1>3. StandingKept
  BY <1>2, StandingStays
<1>4. InTurn'
  <2>1. composed \subseteq composed' /\ composed' \subseteq Msgs
    BY DEF DInv, DeliveryTypeOK
  <2> QED BY <1>2, <1>3, <2>1, InTurnKept
<1>5. MarksKept'
  <2>1. \A m \in Reviewed : Marked(client'.queue, m) => Marked(client'.saved, m)
    BY DEF Quiet, DInv, MarksKept
  <2>2. client'.attempt # NULL /\ Head1'.msg \in Reviewed => Head1'.uncertain
    <3> SUFFICES ASSUME client'.attempt # NULL
                 PROVE  Head1' = client'.queue[1]
      BY DEF HandMarked
    <3>1. client'.queue \in Seq(Entry) /\ client'.queue # <<>>
      BY DEF DeliveryTypeOK, Client
    <3> QED BY <3>1 DEF Head1
  <2>3. MarksGrow
    BY DEF MarksGrow, Quiet
  <2> QED BY <2>1, <2>2, <2>3, MarksStay DEF MarksKept
<1>6. QueueShares'
  <2>1. ASSUME NEW m \in Msgs, NEW s \in Sessions \cup {NULL}, Opens(m), Asks(client'.queue, m, s)
        PROVE  s = NULL
    BY <2>1 DEF Quiet, DInv, DraftShared, QueueShares
  <2>2. ASSUME NEW m \in Msgs, NEW n \in Msgs, NEW s \in Sessions \cup {NULL},
               Follows(m, n)', Asks(client'.queue, n, s)
        PROVE  s = m \/ (s = NULL /\ Listed(client'.queue, m)) \/ Lost(m)'
    <3>1. Follows(m, n)
      BY <2>2, FollowsFalls
    <3>2. s = m \/ (s = NULL /\ Listed(client.queue, m)) \/ Lost(m)
      BY <2>2, <3>1 DEF Quiet, DInv, DraftShared, QueueShares
    <3> QED BY <1>3, <3>2 DEF Quiet, StandingKept
  <2> QED BY <2>1, <2>2 DEF QueueShares, Opens
<1>7. DraftShared'
  BY <1>3, <1>6, DraftKept DEF Quiet
<1> QED BY <1>1, <1>3, <1>4, <1>5, <1>7

-----------------------------------------------------------------------------
(* Steps of the client that leave the server alone.                        *)

BackedStays == \A m \in Msgs : \A s : Backed(m, s) => Backed(m, s)'

LEMMA ServerUntouched ==
    ASSUME DInv, UNCHANGED serverVars
    PROVE  /\ RowsDispatched' /\ InterruptionsSurface' /\ BackedStays
           /\ ToldGrows => GoodFalls
<1>1. RowsDispatched'
  BY DEF DInv, RowsDispatched, DispatchedOnce, serverVars
<1>2. InterruptionsSurface'
  BY DEF DInv, InterruptionsSurface, serverVars
<1>3. BackedStays
  BY DEF BackedStays, Backed, serverVars
<1>4. ToldGrows => GoodFalls
  BY DEF ToldGrows, GoodFalls, Good, Spoilt, serverVars
<1> QED BY <1>1, <1>2, <1>3, <1>4

\* No acceptance is shown.
NoneAccepted ==
    /\ acceptedIn' = acceptedIn
    /\ \A m \in Msgs : "accepted" \in told'[m] <=> "accepted" \in told[m]

LEMMA NothingShown ==
    ASSUME UNCHANGED <<told, acceptedIn>>
    PROVE  ToldGrows /\ AcceptedFromQueue /\ NoneAccepted
BY DEF ToldGrows, AcceptedFromQueue, NoneAccepted

\* An attempt is as it was, or new, or given up, or moves on without an answer.
LEMMA AcceptancesKept ==
    ASSUME DInv, DeliveryTypeOK', NoneBegun, BackedStays, NoneAccepted,
           \/ client'.attempt = client.attempt \/ client'.attempt = NULL
           \/ client'.attempt.step \notin {"answered", "handoff"}
    PROVE  Acceptances'
<1>1. \A m \in Msgs : \A s \in acceptedIn'[m] : Backed(m, s)'
  BY DEF DInv, Acceptances, BackedStays, NoneAccepted
<1>2. \A m \in Msgs : "accepted" \in told'[m] <=> acceptedIn'[m] # {}
  BY DEF DInv, Acceptances, NoneAccepted
<1>3. ASSUME client'.attempt # NULL, client'.attempt.step \in {"answered", "handoff"}
      PROVE  AnswerBacked'
  <2>1. client'.attempt = client.attempt
    BY <1>3
  <2>2. /\ client.queue \in Seq(Entry) /\ client.queue # <<>>
        /\ client'.queue \in Seq(Entry) /\ client'.queue # <<>>
    BY <1>3, <2>1 DEF DInv, DeliveryTypeOK, Client
  <2>3. Head1'.msg = Head1.msg
    BY <1>3, <2>2 DEF Head1, NoneBegun
  <2>4. PICK m \in Msgs : m = Head1.msg
    BY <1>3, <2>1, HeadReady
  <2>5. PICK s : s = client.attempt.answer.session
    OBVIOUS
  <2>6. AnswerBacked
    BY DEF DInv, Acceptances
  <2>7. client.attempt.step = "answered" /\ client.attempt.answer.status = "accepted"
           => Backed(m, s)'
    BY <1>3, <2>1, <2>4, <2>5, <2>6 DEF AnswerBacked, BackedStays
  <2>8. client.attempt.step = "handoff" => s \in acceptedIn'[m]
    BY <1>3, <2>1, <2>4, <2>5, <2>6 DEF AnswerBacked, NoneAccepted
  <2>9. client.attempt.answer # NULL
    BY <1>3, <2>1, <2>6 DEF AnswerBacked
  <2> QED BY <2>1, <2>3, <2>4, <2>5, <2>7, <2>8, <2>9 DEF AnswerBacked, Backed
<1>4. ASSUME ~(client'.attempt # NULL /\ client'.attempt.step \in {"answered", "handoff"})
      PROVE  AnswerBacked'
  BY <1>4 DEF AnswerBacked
<1> QED BY <1>1, <1>2, <1>3, <1>4 DEF Acceptances

LEMMA QuietClientStep ==
    ASSUME DInv, DeliveryTypeOK', Quiet, HandMarked, NoneBegun, OnlyHeadAbandoned,
           UNCHANGED <<composed, serverVars>>, ToldGrows, AcceptedFromQueue, Acceptances'
    PROVE  DInv'
<1>1. OnlyHeadSent
  BY RequestsSent DEF serverVars
<1>2. GoodFalls /\ RowsDispatched' /\ InterruptionsSurface'
  BY ServerUntouched
<1>3. /\ Queues' /\ MarksKept' /\ InTurn' /\ DraftShared' /\ StandingKept
  BY <1>1, <1>2, QuietKeeps
<1>4. Overtaken'
  BY <1>3, OvertakenKept DEF serverVars
<1> QED BY <1>2, <1>3, <1>4 DEF DInv

LEMMA StartKeeps ==
    ASSUME DInv, Start \/ TimerFires
    PROVE  DInv'
<1> DEFINE b == IF Start THEN [client EXCEPT !.active = TRUE] ELSE [client EXCEPT !.timer = FALSE]
<1>1. client \in Client
  BY DEF DInv, DeliveryTypeOK
<1>2. /\ b \in Client /\ b.queue = client.queue /\ b.saved = client.saved
      /\ b.attempt = client.attempt
  BY <1>1 DEF Client
<1>3. client' \in Pump(b)
  BY DEF Start, TimerFires
<1>4. Updated(b, client')
  BY <1>2, <1>3, PumpUpdates
<1>5. UNCHANGED <<composed, told, acceptedIn, disruptions, late, serverVars>>
  BY DEF Start, TimerFires, shown
<1> HIDE DEF b
<1>6. /\ Quiet /\ HandMarked /\ NoneBegun /\ client' \in Client
      /\ client'.attempt # NULL => client'.queue # <<>>
  BY <1>2, <1>4, UpdateQuiet
<1>7. DeliveryTypeOK'
  BY <1>5, <1>6 DEF DInv, DeliveryTypeOK, serverVars
<1>8. ToldGrows /\ AcceptedFromQueue /\ BackedStays
  BY <1>5, ServerUntouched, NothingShown
<1>9. Acceptances'
  <2>1. \/ client'.attempt = client.attempt
        \/ client'.attempt.step \notin {"answered", "handoff"}
    BY <1>2, <1>4 DEF Updated, Preparing
  <2> QED BY <1>5, <1>6, <1>7, <1>8, <2>1, AcceptancesKept, NothingShown
<1>10. OnlyHeadAbandoned
  BY <1>5 DEF OnlyHeadAbandoned
<1> QED BY <1>5, <1>6, <1>7, <1>8, <1>9, <1>10, QuietClientStep

LEMMA StopKeeps ==
    ASSUME DInv, Stop
    PROVE  DInv'
<1>1. client \in Client /\ client.attempt \in Attempt \cup {NULL}
  BY DEF DInv, DeliveryTypeOK, Client
<1>2. /\ client' \in Client /\ client'.queue = client.queue /\ client'.saved = client.saved
      /\ client'.attempt = client.attempt
  BY <1>1 DEF Stop, Client
<1>3. /\ UNCHANGED <<composed, told, acceptedIn, late, serverVars>>
      /\ disruptions' \in 0..MaxDisruptions
  BY DeliveryBoundAssumption DEF Stop, Disrupt, shown, DInv, DeliveryTypeOK
<1>4. DeliveryTypeOK'
  BY <1>2, <1>3 DEF DInv, DeliveryTypeOK, serverVars
<1>5. Quiet /\ HandMarked /\ NoneBegun
  BY <1>2, SameQuiet
<1>6. ToldGrows /\ AcceptedFromQueue /\ BackedStays
  BY <1>3, ServerUntouched, NothingShown
<1>7. Acceptances'
  BY <1>2, <1>3, <1>4, <1>5, <1>6, AcceptancesKept, NothingShown
<1>8. OnlyHeadAbandoned
  BY <1>3 DEF OnlyHeadAbandoned
<1> QED BY <1>3, <1>4, <1>5, <1>6, <1>7, <1>8, QuietClientStep

LEMMA FetchKeeps ==
    ASSUME DInv, Fetch
    PROVE  DInv'
<1>1. client \in Client /\ client.attempt \in Attempt /\ client.queue # <<>>
  BY DEF DInv, DeliveryTypeOK, Client, Fetch
<1>2. /\ client' \in Client /\ client'.queue = client.queue /\ client'.saved = client.saved
      /\ client'.attempt = NULL \/ client'.attempt.step = "sent"
  BY <1>1 DEF Fetch, Client, Attempt, Steps
<1>3. UNCHANGED <<composed, told, acceptedIn, disruptions, late, serverVars>>
  BY DEF Fetch, shown
<1>4. DeliveryTypeOK'
  BY <1>1, <1>2, <1>3 DEF DInv, DeliveryTypeOK, serverVars
<1>5. Quiet /\ HandMarked /\ NoneBegun
  BY <1>2, SameQuiet DEF Fetch
<1>6. ToldGrows /\ AcceptedFromQueue /\ BackedStays
  BY <1>3, ServerUntouched, NothingShown
<1>7. Acceptances'
  BY <1>2, <1>3, <1>4, <1>5, <1>6, AcceptancesKept, NothingShown
<1>8. OnlyHeadAbandoned
  BY <1>3 DEF OnlyHeadAbandoned
<1> QED BY <1>3, <1>4, <1>5, <1>6, <1>7, <1>8, QuietClientStep

\* A request that is given up is one the client sent.
LEMMA AbandonTyped ==
    ASSUME DInv, Abandon
    PROVE  late' \subseteq Request /\ OnlyHeadAbandoned
<1>1. CASE client.attempt # NULL /\ client.attempt.step = "sent"
  <2> DEFINE r == [msg |-> Head1.msg, sid |-> Head1.sid]
  <2>1. late' = late \cup {r}
    BY <1>1 DEF Abandon
  <2>2. r.msg = Head1.msg /\ r.sid = Head1.sid
    OBVIOUS
  <2>3. r \in Request
    BY <1>1, HeadReady DEF Request, Entry
  <2> HIDE DEF r
  <2> QED BY <1>1, <2>1, <2>2, <2>3 DEF OnlyHeadAbandoned, DInv, DeliveryTypeOK
<1>2. CASE ~(client.attempt # NULL /\ client.attempt.step = "sent")
  <2>1. late' = late
    BY <1>2 DEF Abandon
  <2> QED BY <2>1 DEF OnlyHeadAbandoned, DInv, DeliveryTypeOK
<1> QED BY <1>1, <1>2

LEMMA AttemptFailsKeeps ==
    ASSUME DInv, AttemptFails
    PROVE  DInv'
<1>1. client \in Client
  BY DEF DInv, DeliveryTypeOK
<1>2. /\ client' \in Client /\ client'.queue = client.queue /\ client'.saved = client.saved
      /\ client'.attempt = NULL
  BY <1>1 DEF AttemptFails, Backoff, Client
<1>3. UNCHANGED <<composed, told, acceptedIn, disruptions, serverVars>>
  BY DEF AttemptFails, shown
<1>4. late' \subseteq Request /\ OnlyHeadAbandoned
  BY AbandonTyped DEF AttemptFails
<1>5. DeliveryTypeOK'
  BY <1>2, <1>3, <1>4 DEF DInv, DeliveryTypeOK, serverVars
<1>6. Quiet /\ HandMarked /\ NoneBegun
  BY <1>2, SameQuiet
<1>7. ToldGrows /\ AcceptedFromQueue /\ BackedStays
  BY <1>3, ServerUntouched, NothingShown
<1>8. Acceptances'
  BY <1>2, <1>3, <1>5, <1>6, <1>7, AcceptancesKept, NothingShown
<1> QED BY <1>3, <1>4, <1>5, <1>6, <1>7, <1>8, QuietClientStep

LEMMA TurnAwayKeeps ==
    ASSUME DInv, TurnAway
    PROVE  DInv'
<1>1. client \in Client /\ client.attempt \in Attempt /\ client.queue # <<>>
  BY DEF DInv, DeliveryTypeOK, Client, TurnAway
<1>2. PICK status \in {"refused", "unavailable"} :
        client' = [client EXCEPT !.attempt =
            [step |-> "answered", answer |-> Answered(status, NULL)]]
  BY DEF TurnAway
<1> DEFINE answer == Answered(status, NULL)
           attempt == [step |-> "answered", answer |-> answer]
<1>3. answer \in Answer /\ answer # NULL /\ answer.status # "accepted"
  BY AbsentAssumption DEF Answered, Answer
<1>4. attempt \in Attempt /\ attempt.step = "answered" /\ attempt.answer = answer
  BY <1>3 DEF Attempt, Steps
<1> HIDE DEF answer, attempt
<1>5. /\ client' \in Client /\ client'.queue = client.queue /\ client'.saved = client.saved
      /\ client'.attempt = attempt
  BY <1>1, <1>2, <1>4 DEF Client, answer, attempt
<1>6. UNCHANGED <<composed, told, acceptedIn, disruptions, late, serverVars>>
  BY DEF TurnAway, shown
<1>7. DeliveryTypeOK'
  BY <1>1, <1>5, <1>6 DEF DInv, DeliveryTypeOK, serverVars
<1>8. Quiet /\ HandMarked /\ NoneBegun
  BY <1>5, SameQuiet DEF TurnAway
<1>9. ToldGrows /\ AcceptedFromQueue /\ BackedStays
  BY <1>6, ServerUntouched, NothingShown
<1>10. Acceptances'
  <2>1. AnswerBacked'
    BY <1>3, <1>4, <1>5 DEF AnswerBacked
  <2> QED BY <1>6, <1>9, <2>1 DEF DInv, Acceptances, BackedStays
<1>11. OnlyHeadAbandoned
  BY <1>6 DEF OnlyHeadAbandoned
<1> QED BY <1>6, <1>7, <1>8, <1>9, <1>10, <1>11, QuietClientStep

LEMMA AcceptedKeeps ==
    ASSUME DInv, Accepted
    PROVE  DInv'
<1> DEFINE m == Head1.msg
           s == client.attempt.answer.session
<1>1. client \in Client /\ client.attempt \in Attempt /\ client.queue # <<>>
  BY DEF DInv, DeliveryTypeOK, Client, Accepted
<1>2. /\ client' \in Client /\ client'.queue = client.queue /\ client'.saved = client.saved
      /\ client'.attempt \in Attempt /\ client'.attempt.step = "handoff"
      /\ client'.attempt.answer = client.attempt.answer
  BY <1>1 DEF Accepted, Client, Attempt, Steps
<1>3. m \in Msgs /\ Listed(client.queue, m)
  BY <1>1, AbsentAssumption, HeadReady
<1>4. client.attempt.answer \in Answer /\ Backed(m, s)
  BY <1>1, AbsentAssumption DEF DInv, Acceptances, AnswerBacked, Accepted, Attempt
<1>5. s \in Sessions \cup {NULL}
  BY <1>4 DEF Answer
<1>6. /\ told' = [told EXCEPT ![m] = @ \cup {"accepted"}]
      /\ acceptedIn' = [acceptedIn EXCEPT ![m] = @ \cup {s}]
      /\ UNCHANGED <<composed, disruptions, late, serverVars>>
  BY DEF Accepted, Show
<1>7. DeliveryTypeOK'
  <2>1. told' \in [Msgs -> SUBSET {"accepted", "failed", "uncertain", "rejected"}]
    BY <1>3, <1>6 DEF DInv, DeliveryTypeOK
  <2>2. acceptedIn' \in [Msgs -> SUBSET (Sessions \cup {NULL})]
    BY <1>3, <1>5, <1>6 DEF DInv, DeliveryTypeOK
  <2> QED BY <1>1, <1>2, <1>6, <2>1, <2>2 DEF DInv, DeliveryTypeOK, serverVars
<1>8. Quiet /\ HandMarked /\ NoneBegun
  BY <1>2, SameQuiet DEF Accepted
<1> HIDE DEF m, s
<1>9. /\ \A n \in Msgs : told'[n] = IF n = m THEN told[n] \cup {"accepted"} ELSE told[n]
      /\ \A n \in Msgs : acceptedIn'[n] = IF n = m THEN acceptedIn[n] \cup {s} ELSE acceptedIn[n]
  BY <1>6 DEF DInv, DeliveryTypeOK
<1>10. ToldGrows /\ AcceptedFromQueue
  BY <1>3, <1>9 DEF ToldGrows, AcceptedFromQueue
<1>11. BackedStays
  BY <1>6, ServerUntouched
<1>12. Acceptances'
  <2>1. \A n \in Msgs : \A t \in acceptedIn'[n] : Backed(n, t)'
    <3> SUFFICES ASSUME NEW n \in Msgs, NEW t \in acceptedIn'[n] PROVE Backed(n, t)'
      OBVIOUS
    <3>1. Backed(n, t)
      BY <1>4, <1>9 DEF DInv, Acceptances
    <3> QED BY <1>11, <3>1 DEF BackedStays
  <2>2. \A n \in Msgs : "accepted" \in told'[n] <=> acceptedIn'[n] # {}
    BY <1>9 DEF DInv, Acceptances
  <2>3. Head1' = Head1
    BY <1>2 DEF Head1
  <2>4. AnswerBacked'
    BY <1>2, <1>3, <1>4, <1>9, <2>3, AbsentAssumption DEF AnswerBacked, m, s
  <2> QED BY <2>1, <2>2, <2>4 DEF Acceptances
<1>13. OnlyHeadAbandoned
  BY <1>6 DEF OnlyHeadAbandoned
<1> QED BY <1>6, <1>7, <1>8, <1>10, <1>12, <1>13, QuietClientStep

-----------------------------------------------------------------------------
(* Steps of the client that change its queue.                              *)

LEMMA ClientStepKeeps ==
    ASSUME DInv, DeliveryTypeOK', UNCHANGED serverVars, composed \subseteq composed',
           ToldGrows, AcceptedFromQueue, NoneReturns, LeavesPassed, MarksGrow,
           NoneBegun, OnlyHeadAbandoned, HandMarked, Queues', QueueShares', Acceptances',
           client'.saved \in {client.saved, client'.queue},
           \A m \in Reviewed : Marked(client'.queue, m) => Marked(client'.saved, m)
    PROVE  DInv'
<1>1. OnlyHeadSent
  BY RequestsSent DEF serverVars
<1>2. GoodFalls /\ RowsDispatched' /\ InterruptionsSurface'
  BY ServerUntouched
<1>3. StandingKept
  BY StandingStays
<1>4. InTurn'
  <2>1. composed' \subseteq Msgs
    BY DEF DeliveryTypeOK
  <2> QED BY <1>1, <1>3, <2>1, InTurnKept
<1>5. Overtaken'
  BY <1>3, OvertakenKept DEF serverVars
<1>6. DraftShared'
  BY <1>1, <1>2, <1>3, DraftKept
<1>7. MarksKept'
  <2>1. client'.attempt # NULL /\ Head1'.msg \in Reviewed => Head1'.uncertain
    <3> SUFFICES ASSUME client'.attempt # NULL
                 PROVE  Head1' = client'.queue[1]
      BY DEF HandMarked
    <3>1. client'.queue \in Seq(Entry) /\ client'.queue # <<>>
      BY DEF DeliveryTypeOK, Client
    <3> QED BY <3>1 DEF Head1
  <2> QED BY <1>1, <2>1, MarksStay DEF MarksKept
<1> QED BY <1>2, <1>4, <1>5, <1>6, <1>7 DEF DInv

\* A command of a draft has the conversation of the first message, unless that was
\* forgotten.
LEMMA ConversationShared ==
    ASSUME DInv, NEW m \in Msgs, NEW n \in Msgs, Opens(m), Good(m), Scope[n] = Scope[m],
           receipts[n] # NULL, receipts[n].session # NULL
    PROVE  receipts[n].session = m \/ Lost(m)
<1>1. /\ receipts[n] \in Receipt /\ receipts[n].sid \in Sessions \cup {NULL}
      /\ receipts[n].session \in {NULL, IF receipts[n].sid = NULL THEN n ELSE receipts[n].sid}
  BY DEF DInv, DeliveryTypeOK, RowsDispatched, Receipt
<1>2. Asked(n, receipts[n].sid)
  BY DEF Asked
<1>3. CASE n = m
  <2>1. receipts[n].sid = NULL
    BY <1>1, <1>2, <1>3 DEF DInv, DraftShared, RequestsShare
  <2> QED BY <1>1, <1>3, <2>1
<1>4. CASE n # m
  <2>1. receipts[n].sid = m \/ Lost(m)
    BY <1>1, <1>2, <1>4 DEF DInv, DraftShared, RequestsShare, Follows
  <2>2. m # NULL
    BY MsgsAssumption
  <2> QED BY <1>1, <2>1, <2>2
<1> QED BY <1>3, <1>4

\* Once the first attempt of the queue ended, b is what the outbox is left with.
LEMMA DroppedUpdates ==
    ASSUME DInv, NEW b \in Client, b.saved = client.saved, b.attempt = NULL,
           client' \in PersistAndPump(b)
    PROVE  /\ Updated(b, client') /\ HandMarked /\ NoneBegun /\ client' \in Client
           /\ client'.saved \in {client.saved, client'.queue}
           /\ client'.attempt # NULL => client'.queue # <<>>
<1>1. PICK p \in Persist(b) : client' \in Pump(p)
  BY DEF PersistAndPump
<1>2. Updated(b, client')
  BY <1>1, PersistAndPumpUpdates
<1> QED BY <1>2 DEF Updated, HandMarked, NoneBegun, Preparing

\* The head was dropped from a queue with nothing else marked.
LEMMA DroppedQueues ==
    ASSUME DInv, NEW b \in Client, b.saved = client.saved, Updated(b, client'),
           Ordered(b.queue, composed), \A i \in DOMAIN b.queue : ~b.queue[i].uncertain,
           UNCHANGED composed
    PROVE  /\ Queues'
           /\ \A m \in Reviewed : Marked(client'.queue, m) => Marked(client'.saved, m)
<1>1. HeadMarked(b.queue)
  BY DEF HeadMarked
<1>2. /\ Ordered(client'.queue, composed) /\ HeadMarked(client'.queue)
      /\ client'.queue # b.queue => client'.saved = client'.queue
  BY <1>1, UpdatedSays
<1>3. client'.saved \in {client.saved, client'.queue}
  BY DEF Updated
<1>4. Queues'
  BY <1>2, <1>3 DEF DInv, Queues
<1>5. \A m : ~Marked(b.queue, m)
  BY DEF Marked
<1> QED BY <1>2, <1>4, <1>5

LEMMA RefusedKeeps ==
    ASSUME DInv, Refused
    PROVE  DInv'
<1> DEFINE b == [client EXCEPT !.queue = Tail(@), !.attempt = NULL]
<1>1. client \in Client /\ client.queue \in Seq(Entry) /\ client.queue # <<>>
  BY DEF DInv, DeliveryTypeOK, Client, Refused
<1>2. PICK h \in Msgs : h = Head1.msg /\ Head1 = client.queue[1] /\ h \in composed
  BY HeadReady DEF Refused
<1>3. Tail(client.queue) \in Seq(Entry)
  BY <1>1, TailSays
<1>4. /\ b \in Client /\ b.queue = Tail(client.queue) /\ b.saved = client.saved
      /\ b.attempt = NULL
  BY <1>1, <1>3 DEF Client
<1>5. client' \in PersistAndPump(b)
  BY DEF Refused
<1>6. /\ told' = [told EXCEPT ![h] = @ \cup {"failed"}]
      /\ UNCHANGED <<composed, acceptedIn, disruptions, late, serverVars>>
  BY <1>2 DEF Refused, Show
<1> HIDE DEF b
<1>7. /\ Updated(b, client') /\ HandMarked /\ NoneBegun /\ client' \in Client
      /\ client'.saved \in {client.saved, client'.queue}
      /\ client'.attempt # NULL => client'.queue # <<>>
  BY <1>4, <1>5, DroppedUpdates
<1>8. \A n \in Msgs : told'[n] = IF n = h THEN told[n] \cup {"failed"} ELSE told[n]
  BY <1>6 DEF DInv, DeliveryTypeOK
<1>9. DeliveryTypeOK'
  <2>1. told' \in [Msgs -> SUBSET {"accepted", "failed", "uncertain", "rejected"}]
    BY <1>2, <1>6 DEF DInv, DeliveryTypeOK
  <2> QED BY <1>6, <1>7, <2>1 DEF DInv, DeliveryTypeOK, serverVars
<1>10. /\ \A m : Listed(client.queue, m) => Listed(b.queue, m) \/ m = h
       /\ \A m : Listed(b.queue, m) => Listed(client.queue, m)
       /\ \A m, s : Asks(b.queue, m, s) => Asks(client.queue, m, s)
       /\ Ordered(b.queue, composed)
       /\ \A i \in DOMAIN b.queue : ~b.queue[i].uncertain
  BY <1>1, <1>2, <1>4, TailSays DEF DInv, Queues
<1>11. /\ \A m : Listed(client'.queue, m) <=> Listed(b.queue, m)
       /\ \A m, s : Asks(client'.queue, m, s) <=> Asks(b.queue, m, s)
  BY <1>4, <1>7, UpdatedSays
<1>12. ToldGrows /\ AcceptedFromQueue /\ NoneAccepted
  BY <1>6, <1>8 DEF ToldGrows, AcceptedFromQueue, NoneAccepted
<1>13. NoneReturns
  BY <1>7, <1>10, <1>11 DEF NoneReturns
<1>14. LeavesPassed
  <2>1. Spoilt(h)'
    BY <1>2, <1>8 DEF Spoilt
  <2> QED BY <1>6, <1>10, <1>11, <2>1 DEF LeavesPassed
<1>15. MarksGrow
  <2>1. ASSUME NEW m, Marked(client.queue, m) PROVE m = h
    BY <1>1, <1>2, <2>1 DEF Marked, HeadMarked, DInv, Queues
  <2> QED BY <1>2, <1>8, <2>1 DEF MarksGrow
<1>16. StandingKept
  BY <1>6, <1>12, <1>13, StandingStays
<1>17. QueueShares'
  <2>1. ASSUME NEW m \in Msgs, NEW s \in Sessions \cup {NULL}, Opens(m), Asks(client'.queue, m, s)
        PROVE  s = NULL
    BY <1>10, <1>11, <2>1 DEF DInv, DraftShared, QueueShares
  <2>2. ASSUME NEW m \in Msgs, NEW n \in Msgs, NEW s \in Sessions \cup {NULL},
               Follows(m, n)', Asks(client'.queue, n, s)
        PROVE  s = m \/ (s = NULL /\ Listed(client'.queue, m)) \/ Lost(m)'
    <3>1. Follows(m, n)
      BY <1>6, <1>12, <2>2, FollowsFalls, ServerUntouched
    <3>2. s = m \/ (s = NULL /\ Listed(client.queue, m)) \/ Lost(m)
      BY <1>10, <1>11, <2>2, <3>1 DEF DInv, DraftShared, QueueShares
    <3>3. m # h
      BY <1>8, <2>2 DEF Follows, Good, Spoilt
    <3> QED BY <1>10, <1>11, <1>16, <3>2, <3>3 DEF StandingKept
  <2> QED BY <2>1, <2>2 DEF QueueShares, Opens
<1>18. Acceptances'
  <2>1. \/ client'.attempt = NULL
        \/ client'.attempt.step \notin {"answered", "handoff"}
    BY <1>4, <1>7 DEF Updated, Preparing
  <2> QED BY <1>6, <1>7, <1>9, <1>12, <2>1, AcceptancesKept, ServerUntouched
<1>19. /\ Queues'
       /\ \A m \in Reviewed : Marked(client'.queue, m) => Marked(client'.saved, m)
  BY <1>4, <1>6, <1>7, <1>10, DroppedQueues
<1>20. OnlyHeadAbandoned
  BY <1>6 DEF OnlyHeadAbandoned
<1> QED BY <1>6, <1>7, <1>9, <1>12, <1>13, <1>14, <1>15, <1>17, <1>18, <1>19, <1>20,
           ClientStepKeeps

LEMMA HandOffKeeps ==
    ASSUME DInv, HandOff
    PROVE  DInv'
<1> DEFINE rest == Tail(client.queue)
           b == [client EXCEPT !.queue = Inherit(Tail(@), Head1, client.attempt.answer.session),
                               !.attempt = NULL]
<1>1. /\ client \in Client /\ client.queue \in Seq(Entry) /\ client.queue # <<>>
      /\ client.attempt \in Attempt /\ client.attempt # NULL
      /\ client.attempt.step = "handoff"
  BY DEF DInv, DeliveryTypeOK, Client, HandOff
<1>2. PICK e \in Entry, session \in Sessions \cup {NULL} :
        /\ e = Head1 /\ session = client.attempt.answer.session
        /\ e = client.queue[1] /\ e.msg \in composed /\ e.msg \in Msgs
        /\ session \in acceptedIn[e.msg] /\ Backed(e.msg, session)
  <2>1. Head1 \in Entry /\ Head1 = client.queue[1] /\ Head1.msg \in composed /\ Head1.msg \in Msgs
    BY <1>1, HeadReady
  <2>2. client.attempt.answer.session \in acceptedIn[Head1.msg]
    BY <1>1 DEF DInv, Acceptances, AnswerBacked
  <2>3. client.attempt.answer.session \in Sessions \cup {NULL}
    BY <2>1, <2>2 DEF DInv, DeliveryTypeOK
  <2> QED BY <2>1, <2>2, <2>3 DEF DInv, Acceptances
<1> DEFINE h == e.msg
           Heirs(m) == /\ e.sid = NULL /\ session # NULL
                       /\ Scope[m] = Scope[h] /\ m \notin Reviewed
<1>3. /\ rest \in Seq(Entry)
      /\ \A m : Listed(client.queue, m) => Listed(rest, m) \/ m = h
      /\ \A m : Listed(rest, m) => Listed(client.queue, m)
      /\ \A m, s : Asks(rest, m, s) => Asks(client.queue, m, s)
      /\ Ordered(rest, composed) /\ ~Listed(rest, h)
      /\ \A i \in DOMAIN rest : ~rest[i].uncertain
  BY <1>1, <1>2, TailSays DEF DInv, Queues
<1>4. b.queue = Inherit(rest, e, session) /\ b.saved = client.saved /\ b.attempt = NULL
  BY <1>1, <1>2 DEF Client
<1>5. /\ b.queue \in Seq(Entry)
      /\ \A m : Listed(b.queue, m) <=> Listed(rest, m)
      /\ \A m, s : Asks(b.queue, m, s) =>
            \/ Asks(rest, m, s) /\ ~(Heirs(m) /\ s = NULL)
            \/ Heirs(m) /\ s = session
      /\ Ordered(b.queue, composed)
      /\ \A i \in DOMAIN b.queue : ~b.queue[i].uncertain
  <2> DEFINE p == Inherit(rest, e, session)
  <2> HIDE DEF rest, b
  <2>1. /\ p \in Seq(Entry)
        /\ \A m : Listed(p, m) <=> Listed(rest, m)
        /\ (\A i \in DOMAIN rest : ~rest[i].uncertain) => \A i \in DOMAIN p : ~p[i].uncertain
        /\ \A C : Ordered(rest, C) => Ordered(p, C)
    BY <1>3, InheritSays
  <2>2. \A m, s : Asks(p, m, s) =>
            \/ Asks(rest, m, s) /\ ~(Heirs(m) /\ s = NULL)
            \/ Heirs(m) /\ s = session
    BY <1>3, InheritSays
  <2> HIDE DEF p, Heirs
  <2>3. b.queue = p
    BY <1>4 DEF p
  <2> QED BY <1>3, <2>1, <2>2, <2>3
<1>6. b \in Client
  BY <1>1, <1>4, <1>5 DEF Client
<1>7. client' \in PersistAndPump(b)
  BY DEF HandOff
<1>8. UNCHANGED <<composed, told, acceptedIn, disruptions, late, serverVars>>
  BY DEF HandOff, shown
<1> HIDE DEF b, rest
<1>9. /\ Updated(b, client') /\ HandMarked /\ NoneBegun /\ client' \in Client
      /\ client'.saved \in {client.saved, client'.queue}
      /\ client'.attempt # NULL => client'.queue # <<>>
  BY <1>4, <1>6, <1>7, DroppedUpdates
<1>10. DeliveryTypeOK'
  BY <1>8, <1>9 DEF DInv, DeliveryTypeOK, serverVars
<1>11. /\ \A m : Listed(client'.queue, m) <=> Listed(rest, m)
       /\ \A m, s : Asks(client'.queue, m, s) => Asks(b.queue, m, s)
  BY <1>5, <1>6, <1>9, UpdatedSays
<1>12. ToldGrows /\ AcceptedFromQueue /\ NoneAccepted
  BY <1>8, NothingShown
<1>13. NoneReturns
  BY <1>3, <1>9, <1>11 DEF NoneReturns
<1>14. "accepted" \in told'[h]
  BY <1>2, <1>8 DEF DInv, Acceptances
<1>15. LeavesPassed
  BY <1>3, <1>8, <1>11, <1>14 DEF LeavesPassed
<1>16. MarksGrow
  <2>1. ASSUME NEW m, Marked(client.queue, m) PROVE m = h
    BY <1>1, <1>2, <2>1 DEF Marked, HeadMarked, DInv, Queues
  <2> QED BY <1>14, <2>1 DEF MarksGrow
<1>17. StandingKept
  BY <1>8, <1>12, <1>13, StandingStays
<1>18. ASSUME NEW n \in Msgs, n < h PROVE ~Listed(client.queue, n)
  BY <1>1, <1>2, <1>18, HeadReady
<1>19. QueueShares'
  <2>1. ASSUME NEW m \in Msgs, NEW s \in Sessions \cup {NULL}, Opens(m), Asks(client'.queue, m, s)
        PROVE  s = NULL
    <3>1. Listed(rest, m)
      BY <1>11, <2>1 DEF Asks, Listed
    <3>2. m # h /\ Listed(client.queue, m)
      BY <1>3, <3>1
    <3>3. ~(Scope[m] = Scope[h])
      <4> SUFFICES ASSUME Scope[m] = Scope[h] PROVE FALSE
        OBVIOUS
      <4>1. m <= h
        BY <1>2, <2>1 DEF Opens
      <4>2. m \in Nat /\ h \in Nat
        BY <1>2, MsgsAssumption
      <4>3. m < h
        BY <3>2, <4>1, <4>2
      <4> QED BY <1>18, <3>2, <4>3
    <3>4. Asks(client.queue, m, s)
      BY <1>3, <1>5, <1>11, <2>1, <3>3
    <3> QED BY <2>1, <3>4 DEF DInv, DraftShared, QueueShares
  <2>2. ASSUME NEW m \in Msgs, NEW n \in Msgs, NEW s \in Sessions \cup {NULL},
               Follows(m, n)', Asks(client'.queue, n, s)
        PROVE  s = m \/ (s = NULL /\ Listed(client'.queue, m)) \/ Lost(m)'
    <3>1. Follows(m, n)
      BY <1>8, <1>12, <2>2, FollowsFalls, ServerUntouched
    <3>2. CASE Heirs(n) /\ s = session
      <4>1. receipts[h] # NULL /\ receipts[h].session = session /\ session # NULL
        BY <1>2, <3>2 DEF Backed
      <4>2. s = m \/ Lost(m)
        BY <1>2, <3>1, <3>2, <4>1, ConversationShared DEF Follows
      <4> QED BY <1>17, <4>2 DEF StandingKept
    <3>3. CASE Asks(rest, n, s) /\ ~(Heirs(n) /\ s = NULL)
      <4>1. s = m \/ (s = NULL /\ Listed(client.queue, m)) \/ Lost(m)
        BY <1>3, <3>1, <3>3 DEF DInv, DraftShared, QueueShares
      <4>2. CASE s = NULL /\ m = h
        <5>1. e.sid = NULL
          BY <1>1, <1>2, <3>1, <4>2, HeadReady DEF Follows
        <5>2. session # NULL
          BY <1>2, <3>1, <4>2 DEF Follows, Good, Backed
        <5>3. Scope[n] = Scope[h] /\ n \notin Reviewed
          BY <3>1, <4>2 DEF Follows, Opens
        <5> QED BY <3>3, <4>2, <5>1, <5>2, <5>3
      <4>3. CASE ~(s = NULL /\ m = h)
        BY <1>3, <1>11, <1>17, <4>1, <4>3 DEF StandingKept
      <4> QED BY <4>2, <4>3
    <3> QED BY <1>5, <1>11, <2>2, <3>2, <3>3
  <2> QED BY <2>1, <2>2 DEF QueueShares, Opens
<1>20. Acceptances'
  <2>1. \/ client'.attempt = NULL
        \/ client'.attempt.step \notin {"answered", "handoff"}
    BY <1>4, <1>9 DEF Updated, Preparing
  <2> QED BY <1>8, <1>9, <1>10, <1>12, <2>1, AcceptancesKept, ServerUntouched
<1>21. /\ Queues'
       /\ \A m \in Reviewed : Marked(client'.queue, m) => Marked(client'.saved, m)
  BY <1>4, <1>5, <1>6, <1>8, <1>9, DroppedQueues
<1>22. OnlyHeadAbandoned
  BY <1>8 DEF OnlyHeadAbandoned
<1> QED BY <1>8, <1>9, <1>10, <1>12, <1>13, <1>15, <1>16, <1>19, <1>20, <1>21, <1>22,
           ClientStepKeeps

LEMMA ReloadKeeps ==
    ASSUME DInv, Reload
    PROVE  DInv'
<1>1. client \in Client
  BY DEF DInv, DeliveryTypeOK
<1>2. /\ client' \in Client /\ client'.queue = client.saved /\ client'.saved = client.saved
      /\ client'.attempt = NULL
  BY <1>1 DEF Reload, Client
<1>3. /\ UNCHANGED <<composed, told, acceptedIn, serverVars>>
      /\ disruptions' \in 0..MaxDisruptions
  BY DeliveryBoundAssumption DEF Reload, Disrupt, shown, DInv, DeliveryTypeOK
<1>4. late' \subseteq Request /\ OnlyHeadAbandoned
  BY AbandonTyped DEF Reload
<1>5. DeliveryTypeOK'
  BY <1>2, <1>3, <1>4 DEF DInv, DeliveryTypeOK, serverVars
<1>6. HandMarked /\ NoneBegun
  BY <1>2 DEF HandMarked, NoneBegun
<1>7. ToldGrows /\ AcceptedFromQueue /\ NoneAccepted
  BY <1>3, NothingShown
<1>8. NoneReturns /\ LeavesPassed
  BY <1>2 DEF NoneReturns, LeavesPassed
<1>9. StandingKept
  BY <1>3, <1>7, <1>8, StandingStays
<1>10. MarksGrow
  BY <1>2 DEF MarksGrow, DInv, MarksKept
<1>11. Queues'
  BY <1>2, <1>3 DEF DInv, Queues
<1>12. QueueShares'
  <2>1. ASSUME NEW m \in Msgs, NEW s \in Sessions \cup {NULL}, Opens(m), Asks(client'.queue, m, s)
        PROVE  s = NULL
    BY <1>2, <2>1 DEF DInv, DraftShared, StorageShares
  <2>2. ASSUME NEW m \in Msgs, NEW n \in Msgs, NEW s \in Sessions \cup {NULL},
               Follows(m, n)', Asks(client'.queue, n, s)
        PROVE  s = m \/ (s = NULL /\ Listed(client'.queue, m)) \/ Lost(m)'
    <3>1. Follows(m, n)
      BY <1>3, <1>7, <2>2, FollowsFalls, ServerUntouched
    <3>2. s = m \/ (s = NULL /\ Listed(client.saved, m)) \/ Lost(m)
      BY <1>2, <2>2, <3>1 DEF DInv, DraftShared, StorageShares
    <3> QED BY <1>2, <1>9, <3>2 DEF StandingKept
  <2> QED BY <2>1, <2>2 DEF QueueShares, Opens
<1>13. Acceptances'
  BY <1>2, <1>3, <1>5, <1>6, <1>7, AcceptancesKept, ServerUntouched
<1> QED BY <1>2, <1>3, <1>4, <1>5, <1>6, <1>7, <1>8, <1>10, <1>11, <1>12, <1>13,
           ClientStepKeeps

LEMMA RejectAllKeeps ==
    ASSUME DInv, RejectAll
    PROVE  DInv'
<1> DEFINE q == client.queue
           inFlight == client.attempt # NULL
           Ambiguous(i) == q[i].uncertain \/ (inFlight /\ i = 1)
           Verdict(i) == IF Ambiguous(i) THEN "uncertain" ELSE "rejected"
           b == [client EXCEPT !.queue = Retained(q, inFlight),
                               !.active = FALSE, !.timer = FALSE, !.attempt = NULL]
<1>1. client \in Client /\ q \in Seq(Entry) /\ q # <<>>
  BY DEF DInv, DeliveryTypeOK, Client, RejectAll
<1>2. q[1] \in Entry /\ (inFlight => Head1 = q[1]) /\ 1 \in DOMAIN q
  BY <1>1, HeadReady
<1>3. PICK h \in Msgs : h = q[1].msg
  BY <1>2 DEF Entry
<1> DEFINE p == Retained(q, inFlight)
<1>4. /\ p \in Seq(Entry)
      /\ \A m : Listed(p, m) => m = h /\ h \in Reviewed
      /\ \A m : Marked(p, m) => m = h /\ h \in Reviewed /\ (q[1].uncertain \/ inFlight)
      /\ h \in Reviewed /\ q[1].uncertain => Marked(p, h)
      /\ \A m, s : Asks(p, m, s) => Asks(q, m, s)
      /\ Ordered(p, composed) /\ HeadMarked(p)
  <2>1. HeadMarked(q) /\ Ordered(q, composed)
    BY DEF DInv, Queues
  <2>2. inFlight \in BOOLEAN
    OBVIOUS
  <2> DEFINE stays == /\ q # <<>> /\ q[1].msg \in Reviewed
                      /\ q[1].uncertain \/ inFlight
  <2>3. /\ p \in Seq(Entry)
        /\ \A m : Listed(p, m) <=> (stays /\ m = q[1].msg)
        /\ \A m : Marked(p, m) <=> (stays /\ m = q[1].msg)
        /\ \A m, s : Asks(p, m, s) => Asks(q, m, s)
        /\ \A C : Ordered(q, C) => Ordered(p, C)
        /\ HeadMarked(p)
    <3> HIDE DEF q, inFlight
    <3> QED BY <1>1, <2>1, <2>2, RetainedSays
  <2> HIDE DEF p, q, inFlight
  <2> QED BY <1>1, <1>3, <2>1, <2>3
<1>6. client' \in Persist(b)
  BY DEF RejectAll
<1>7. b \in Client /\ b.queue = p /\ b.saved = client.saved /\ b.attempt = NULL
  <2> HIDE DEF p
  <2>1. b = [client EXCEPT !.queue = p, !.active = FALSE, !.timer = FALSE, !.attempt = NULL]
    BY DEF p
  <2> HIDE DEF b
  <2> QED BY <1>1, <1>4, <2>1 DEF Client
<1>8. told' = [m \in Msgs |-> told[m] \cup {Verdict(i) : i \in {j \in DOMAIN q : q[j].msg = m}}]
  BY DEF RejectAll
<1>9. /\ UNCHANGED <<composed, acceptedIn, serverVars>>
      /\ disruptions' \in 0..MaxDisruptions
  BY DeliveryBoundAssumption DEF RejectAll, Disrupt, DInv, DeliveryTypeOK
<1>10. late' \subseteq Request /\ OnlyHeadAbandoned
  BY AbandonTyped DEF RejectAll
<1> HIDE DEF b, p
<1>11. /\ client' \in Client /\ client'.queue = p /\ client'.attempt = NULL
       /\ client'.saved \in {client.saved, client'.queue}
  BY <1>6, <1>7, PersistUpdates
<1>12. /\ ToldGrows
       /\ \A m \in Msgs : \A i \in DOMAIN q : q[i].msg = m => Spoilt(m)'
       /\ \A m \in Msgs : told'[m] \subseteq told[m] \cup {"uncertain", "rejected"}
  <2>1. \A i : Verdict(i) \in {"uncertain", "rejected"}
    OBVIOUS
  <2> HIDE DEF Verdict
  <2>2. \A m \in Msgs :
          told'[m] = told[m] \cup {Verdict(i) : i \in {j \in DOMAIN q : q[j].msg = m}}
    BY <1>8
  <2>3. ToldGrows
    BY <2>2 DEF ToldGrows
  <2>4. \A m \in Msgs : told'[m] \subseteq told[m] \cup {"uncertain", "rejected"}
    BY <2>1, <2>2
  <2>5. ASSUME NEW m \in Msgs, NEW i \in DOMAIN q, q[i].msg = m PROVE Spoilt(m)'
    <3>1. Verdict(i) \in told'[m]
      BY <2>2, <2>5
    <3> QED BY <2>1, <3>1 DEF Spoilt
  <2> QED BY <2>3, <2>4, <2>5
<1>13. DeliveryTypeOK'
  <2>1. told' \in [Msgs -> SUBSET {"accepted", "failed", "uncertain", "rejected"}]
    <3> HIDE DEF Verdict
    <3>1. \A m \in Msgs : told[m] \subseteq {"accepted", "failed", "uncertain", "rejected"}
      BY DEF DInv, DeliveryTypeOK
    <3>2. \A m \in Msgs : told'[m] \subseteq {"accepted", "failed", "uncertain", "rejected"}
      BY <1>12, <3>1
    <3> QED BY <1>8, <3>2
  <2> QED BY <1>9, <1>10, <1>11, <2>1 DEF DInv, DeliveryTypeOK, serverVars
<1>14. HandMarked /\ NoneBegun
  BY <1>11 DEF HandMarked, NoneBegun
<1>15. AcceptedFromQueue /\ NoneAccepted
  <2>1. \A m \in Msgs : "accepted" \in told'[m] <=> "accepted" \in told[m]
    BY <1>12 DEF ToldGrows
  <2> QED BY <1>9, <2>1 DEF AcceptedFromQueue, NoneAccepted
<1>16. \A m : Listed(p, m) => Listed(q, m)
  BY <1>2, <1>3, <1>4 DEF Listed
<1>17. NoneReturns /\ LeavesPassed
  <2>1. \A m \in Msgs : Listed(q, m) => Spoilt(m)'
    BY <1>12 DEF Listed
  <2>2. composed \subseteq Msgs
    BY DEF DInv, DeliveryTypeOK
  <2> QED BY <1>9, <1>11, <1>16, <2>1, <2>2 DEF NoneReturns, LeavesPassed
<1>18. StandingKept
  BY <1>9, <1>12, <1>15, <1>17, StandingStays
<1>19. MarksGrow
  <2> SUFFICES ASSUME NEW m \in Reviewed, Marked(q, m)
               PROVE  Marked(p, m)
    BY <1>11 DEF MarksGrow
  <2>1. q[1].uncertain /\ m = h
    BY <1>3 DEF Marked, HeadMarked, DInv, Queues
  <2> QED BY <1>4, <2>1
<1>20. Queues'
  BY <1>4, <1>9, <1>11 DEF DInv, Queues
<1>21. \A m \in Reviewed : Marked(client'.queue, m) => Marked(client'.saved, m)
  <2> SUFFICES ASSUME NEW m \in Reviewed, Marked(p, m)
               PROVE  Marked(client.saved, m)
    BY <1>11
  <2>1. m = h /\ (q[1].uncertain \/ inFlight)
    BY <1>4
  <2>2. q[1].uncertain
    BY <1>2, <1>3, <2>1 DEF DInv, MarksKept
  <2>3. Marked(q, m)
    BY <1>2, <1>3, <2>1, <2>2 DEF Marked
  <2> QED BY <2>3 DEF DInv, MarksKept
<1>22. QueueShares'
  <2>1. ASSUME NEW m \in Msgs, NEW s \in Sessions \cup {NULL}, Opens(m), Asks(client'.queue, m, s)
        PROVE  s = NULL
    BY <1>4, <1>11, <2>1 DEF DInv, DraftShared, QueueShares
  <2>2. ASSUME NEW m \in Msgs, NEW n \in Msgs, NEW s \in Sessions \cup {NULL},
               Follows(m, n)', Asks(client'.queue, n, s)
        PROVE  FALSE
    <3>1. Listed(p, n)
      BY <1>11, <2>2 DEF Asks, Listed
    <3>2. n \in Reviewed
      BY <1>4, <3>1
    <3> QED BY <2>2, <3>2 DEF Follows, Opens
  <2> QED BY <2>1, <2>2 DEF QueueShares, Opens
<1>23. Acceptances'
  BY <1>9, <1>11, <1>13, <1>14, <1>15, AcceptancesKept, ServerUntouched
<1> QED BY <1>9, <1>10, <1>11, <1>12, <1>13, <1>14, <1>15, <1>17, <1>19, <1>20, <1>21,
           <1>22, <1>23, ClientStepKeeps

\* A new message is addressed to nobody, as long as the user was shown no session of
\* its draft, or to a session that was shown.
LEMMA AddressedSays ==
    ASSUME DInv, NEW m \in Msgs, NEW sid \in Addressed(m)
    PROVE  /\ sid \in Sessions \cup {NULL}
           /\ sid = NULL =>
                \/ m \in Reviewed
                \/ \A n \in composed : Scope[n] = Scope[m] => acceptedIn[n] \subseteq {NULL}
           /\ sid # NULL =>
                /\ m \notin Reviewed
                /\ \E n \in composed : Scope[n] = Scope[m] /\ sid \in acceptedIn[n]
<1> DEFINE known == (UNION {acceptedIn[n] : n \in {x \in composed : Scope[x] = Scope[m]}}) \ {NULL}
<1>1. sid \in IF known = {} \/ m \in Reviewed THEN {NULL} ELSE known
  BY DEF Addressed
<1>2. known \subseteq Sessions /\ NULL \notin known
  BY DEF DInv, DeliveryTypeOK
<1>3. \A s \in known : \E n \in composed : Scope[n] = Scope[m] /\ s \in acceptedIn[n]
  OBVIOUS
<1>4. known = {} => \A n \in composed : Scope[n] = Scope[m] => acceptedIn[n] \subseteq {NULL}
  OBVIOUS
<1> HIDE DEF known
<1> QED BY <1>1, <1>2, <1>3, <1>4

LEMMA EnqueueKeeps ==
    ASSUME DInv, NEW m \in Msgs, Enqueue(m)
    PROVE  DInv'
<1>1. /\ client \in Client /\ client.queue \in Seq(Entry)
      /\ client.attempt # NULL => client.queue # <<>>
  BY DEF DInv, DeliveryTypeOK, Client
<1>2. PICK sid \in Addressed(m) :
        LET entry == [msg |-> m, sid |-> sid, uncertain |-> FALSE]
            added == [client EXCEPT !.queue = Append(@, entry)]
        IN \E c \in Persist(added) : client' \in Pump(c)
  BY DEF Enqueue
<1> DEFINE entry == [msg |-> m, sid |-> sid, uncertain |-> FALSE]
           b == [client EXCEPT !.queue = Append(@, entry)]
<1>3. /\ m \notin composed /\ \A n \in Msgs : n < m => n \in composed
      /\ composed' = composed \cup {m}
      /\ UNCHANGED <<told, acceptedIn, disruptions, late, serverVars>>
  BY DEF Enqueue, shown
<1>4. /\ sid \in Sessions \cup {NULL}
      /\ sid = NULL =>
           \/ m \in Reviewed
           \/ \A n \in composed : Scope[n] = Scope[m] => acceptedIn[n] \subseteq {NULL}
      /\ sid # NULL =>
           /\ m \notin Reviewed
           /\ \E n \in composed : Scope[n] = Scope[m] /\ sid \in acceptedIn[n]
  BY AddressedSays
<1>5. entry \in Entry /\ entry.msg = m /\ entry.sid = sid /\ ~entry.uncertain
  BY <1>4 DEF Entry
<1>6. PICK c \in Persist(b) : client' \in Pump(c)
  BY <1>2
<1>7. \A n \in composed : n < m
  <2> SUFFICES ASSUME NEW n \in composed PROVE n < m
    OBVIOUS
  <2>1. n \in Msgs /\ n # m /\ ~(m < n)
    BY <1>3 DEF DInv, Queues, DeliveryTypeOK
  <2> QED BY <2>1, MsgsAssumption
<1> HIDE DEF entry
<1> DEFINE p == Append(client.queue, entry)
<1>8. /\ p \in Seq(Entry) /\ p # <<>>
      /\ client.queue # <<>> => p[1] = client.queue[1]
      /\ \A n : Listed(p, n) <=> Listed(client.queue, n) \/ n = m
      /\ \A n, s : Asks(p, n, s) <=> Asks(client.queue, n, s) \/ (n = m /\ s = sid)
      /\ \A n : Marked(p, n) <=> Marked(client.queue, n)
      /\ Ordered(p, composed \cup {m}) /\ HeadMarked(p)
  BY <1>1, <1>5, <1>7, AppendSays DEF DInv, Queues
<1>9. b \in Client /\ b.queue = p /\ b.saved = client.saved /\ b.attempt = client.attempt
  BY <1>1, <1>8 DEF Client
<1> HIDE DEF b, p
<1>10. Updated(b, client')
  BY <1>6, <1>9, PersistAndPumpUpdates
<1>11. /\ client' \in Client /\ client'.queue # <<>>
       /\ client'.saved \in {client.saved, client'.queue}
       /\ client'.queue # p => client'.saved = client'.queue
       /\ \A n : Listed(client'.queue, n) <=> Listed(p, n)
       /\ \A n, s : Asks(client'.queue, n, s) <=> Asks(p, n, s)
       /\ \A n : Marked(p, n) => Marked(client'.queue, n)
       /\ Ordered(client'.queue, composed') /\ HeadMarked(client'.queue)
  BY <1>3, <1>8, <1>9, <1>10, UpdatedSays DEF Updated
<1>12. DeliveryTypeOK'
  BY <1>3, <1>11 DEF DInv, DeliveryTypeOK, serverVars
<1>13. /\ client'.queue[1].msg = p[1].msg /\ client'.queue[1].sid = p[1].sid
       /\ p[1].uncertain => client'.queue[1].uncertain
  <2>1. CASE client'.queue = p
    BY <2>1
  <2>2. CASE client'.queue = Marking(p)
    BY <1>8, <2>2, MarkingMarks
  <2> QED BY <1>9, <1>10, <2>1, <2>2 DEF Updated
<1>14. HandMarked
  <2>1. client.attempt # NULL /\ client.queue[1].msg \in Reviewed => client.queue[1].uncertain
    <3> SUFFICES ASSUME client.attempt # NULL, client.queue[1].msg \in Reviewed
                 PROVE  client.queue[1].uncertain
      OBVIOUS
    <3>1. Head1 = client.queue[1]
      BY HeadReady
    <3> QED BY <3>1 DEF DInv, MarksKept
  <2> QED BY <1>1, <1>8, <1>9, <1>10, <1>13, <2>1 DEF HandMarked, Updated
<1>15. NoneBegun
  BY <1>1, <1>8, <1>9, <1>10, <1>13 DEF NoneBegun, Updated, Preparing
<1>16. ToldGrows /\ AcceptedFromQueue /\ NoneAccepted
  BY <1>3, NothingShown
<1>17. NoneReturns /\ LeavesPassed
  <2>1. NoneReturns
    BY <1>3, <1>8, <1>11 DEF NoneReturns
  <2>2. LeavesPassed
    BY <1>3, <1>8, <1>11 DEF LeavesPassed
  <2> QED BY <2>1, <2>2
<1>18. StandingKept
  BY <1>3, <1>16, <1>17, StandingStays
<1>19. MarksGrow
  BY <1>8, <1>11 DEF MarksGrow
<1>20. Queues'
  <2>1. Ordered(client.saved, composed')
    BY <1>3 DEF DInv, Queues, Ordered
  <2>2. Ordered(client'.saved, composed') /\ HeadMarked(client'.saved)
    BY <1>11, <2>1 DEF DInv, Queues
  <2>3. \A n \in composed' : \A x \in Msgs : x < n => x \in composed'
    BY <1>3 DEF DInv, Queues
  <2> QED BY <1>11, <2>2, <2>3 DEF Queues
<1>21. \A n \in Reviewed : Marked(client'.queue, n) => Marked(client'.saved, n)
  BY <1>8, <1>11 DEF DInv, MarksKept
<1>22. QueueShares'
  <2>1. ASSUME NEW n \in Msgs, NEW s \in Sessions \cup {NULL}, Opens(n), Asks(client'.queue, n, s)
        PROVE  s = NULL
    <3>1. CASE Asks(client.queue, n, s)
      BY <2>1, <3>1 DEF DInv, DraftShared, QueueShares
    <3>2. CASE n = m /\ s = sid
      <4> SUFFICES ASSUME NEW k \in composed, Scope[k] = Scope[m] PROVE FALSE
        BY <1>4, <3>2
      <4>1. k \in Msgs /\ k < m
        BY <1>7 DEF DInv, DeliveryTypeOK
      <4>2. m <= k
        BY <2>1, <3>2, <4>1 DEF Opens
      <4> QED BY <4>1, <4>2, MsgsAssumption
    <3> QED BY <1>8, <1>11, <2>1, <3>1, <3>2
  <2>2. ASSUME NEW x \in Msgs, NEW n \in Msgs, NEW s \in Sessions \cup {NULL},
               Follows(x, n)', Asks(client'.queue, n, s)
        PROVE  s = x \/ (s = NULL /\ Listed(client'.queue, x)) \/ Lost(x)'
    <3>1. Follows(x, n)
      BY <1>3, <1>16, <2>2, FollowsFalls, ServerUntouched
    <3>2. CASE Asks(client.queue, n, s)
      <4>1. s = x \/ (s = NULL /\ Listed(client.queue, x)) \/ Lost(x)
        BY <3>1, <3>2 DEF DInv, DraftShared, QueueShares
      <4> QED BY <1>8, <1>11, <1>18, <4>1 DEF StandingKept
    <3>3. CASE n = m /\ s = sid
      <4>1. /\ x \in composed /\ Scope[x] = Scope[m] /\ Opens(x) /\ Good(x)
            /\ m \notin Reviewed
        <5>1. /\ x <= m /\ x # m /\ Scope[x] = Scope[m] /\ Opens(x) /\ Good(x)
              /\ m \notin Reviewed
          BY <3>1, <3>3 DEF Follows, Opens
        <5>2. x \in Nat /\ m \in Nat
          BY MsgsAssumption
        <5>3. x < m
          BY <5>1, <5>2
        <5> QED BY <1>3, <5>1, <5>3
      <4>2. CASE sid = NULL
        <5>1. acceptedIn[x] \subseteq {NULL}
          BY <1>4, <4>1, <4>2
        <5>2. acceptedIn[x] = {}
          BY <4>1, <5>1 DEF DInv, Acceptances, Backed, Good
        <5>3. Listed(client.queue, x) \/ Lost(x)
          BY <4>1, <5>2 DEF DInv, InTurn, Passed, Acceptances, Good
        <5> QED BY <1>8, <1>11, <1>18, <3>3, <4>2, <5>3 DEF StandingKept
      <4>3. CASE sid # NULL
        <5>1. PICK k \in composed : Scope[k] = Scope[m] /\ sid \in acceptedIn[k]
          BY <1>4, <4>3
        <5>2. k \in Msgs
          BY DEF DInv, DeliveryTypeOK
        <5>3. receipts[k] # NULL /\ receipts[k].session = sid
          BY <5>1, <5>2 DEF DInv, Acceptances, Backed
        <5>4. sid = x \/ Lost(x)
          BY <4>1, <4>3, <5>1, <5>2, <5>3, ConversationShared
        <5> QED BY <1>18, <3>3, <5>4 DEF StandingKept
      <4> QED BY <4>2, <4>3
    <3> QED BY <1>8, <1>11, <2>2, <3>2, <3>3
  <2> QED BY <2>1, <2>2 DEF QueueShares, Opens
<1>23. Acceptances'
  <2>1. \/ client'.attempt = client.attempt
        \/ client'.attempt.step \notin {"answered", "handoff"}
    BY <1>9, <1>10 DEF Updated, Preparing
  <2> QED BY <1>3, <1>12, <1>15, <1>16, <2>1, AcceptancesKept, ServerUntouched
<1>24. OnlyHeadAbandoned
  BY <1>3 DEF OnlyHeadAbandoned
<1> QED BY <1>3, <1>11, <1>12, <1>14, <1>15, <1>16, <1>17, <1>19, <1>20, <1>21, <1>22,
           <1>23, <1>24, ClientStepKeeps

-----------------------------------------------------------------------------
(* Steps of the server.                                                    *)

\* A row stays, for the session it was asked for; failures stay, and a session is
\* only ever taken away.
RowsKept ==
    \A m \in Msgs : receipts[m] # NULL =>
        /\ receipts'[m] # NULL /\ receipts'[m].sid = receipts[m].sid
        /\ receipts[m].error => receipts'[m].error
        /\ receipts'[m].session \in {receipts[m].session, NULL}

\* A new row is one the client asked for.
NewRowsAsked ==
    \A m \in Msgs : receipts[m] = NULL /\ receipts'[m] # NULL => Asked(m, receipts'[m].sid)

\* The queue stays, and no attempt begins.
QueueStays ==
    /\ client'.queue = client.queue /\ client'.saved = client.saved
    /\ client'.attempt # NULL => client.attempt # NULL

LEMMA ServerStepKeeps ==
    ASSUME DInv, DeliveryTypeOK', QueueStays, UNCHANGED <<composed, told, acceptedIn>>,
           late' \subseteq late, RowsKept, NewRowsAsked
    PROVE  /\ Queues' /\ MarksKept' /\ InTurn' /\ DraftShared' /\ StandingKept
<1>1. Quiet /\ HandMarked /\ NoneBegun
  BY SameQuiet DEF QueueStays
<1>2. ToldGrows /\ AcceptedFromQueue
  BY NothingShown
<1>3. GoodFalls
  BY DEF GoodFalls, Good, Spoilt, RowsKept
<1>4. OnlyHeadSent
  <2> SUFFICES ASSUME NEW m \in Msgs, NEW s \in Sessions \cup {NULL}, Asked(m, s)'
               PROVE  \/ Asked(m, s)
                      \/ client.attempt # NULL /\ m = Head1.msg /\ s = Head1.sid
    BY DEF OnlyHeadSent
  <2>1. CASE receipts'[m] # NULL /\ receipts'[m].sid = s
    <3>1. CASE receipts[m] = NULL
      BY <2>1, <3>1 DEF NewRowsAsked
    <3>2. CASE receipts[m] # NULL
      BY <2>1, <3>2 DEF RowsKept, Asked
    <3> QED BY <3>1, <3>2
  <2>2. CASE [msg |-> m, sid |-> s] \in late'
    BY <2>2 DEF Asked
  <2>3. CASE client'.attempt # NULL /\ Head1'.msg = m /\ Head1'.sid = s
    BY <2>3 DEF QueueStays, Head1
  <2> QED BY <2>1, <2>2, <2>3 DEF Asked
<1> QED BY <1>1, <1>2, <1>3, <1>4, QuietKeeps

\* One row changes.
LEMMA RowChanges ==
    ASSUME DInv, NEW m \in Msgs, NEW row \in Receipt, receipts[m] # NULL,
           receipts' = [receipts EXCEPT ![m] = row],
           row.sid = receipts[m].sid, receipts[m].error => row.error,
           row.session \in {receipts[m].session, NULL},
           UNCHANGED dispatched, live' \subseteq live
    PROVE  /\ receipts' \in [Msgs -> Receipt \cup {NULL}]
           /\ \A n \in Msgs : receipts'[n] = IF n = m THEN row ELSE receipts[n]
           /\ RowsKept /\ NewRowsAsked /\ RowsDispatched'
<1>1. /\ receipts' \in [Msgs -> Receipt \cup {NULL}]
      /\ \A n \in Msgs : receipts'[n] = IF n = m THEN row ELSE receipts[n]
  BY DEF DInv, DeliveryTypeOK
<1>2. row # NULL
  BY AbsentAssumption
<1>3. RowsKept
  BY <1>1, <1>2 DEF RowsKept
<1>4. NewRowsAsked
  BY <1>1 DEF NewRowsAsked
<1>5. RowsDispatched'
  <2>1. \A n \in Msgs : receipts'[n] # NULL <=> receipts[n] # NULL
    BY <1>1, <1>2
  <2>2. \A n \in Msgs : receipts'[n] # NULL <=> \E i \in DOMAIN dispatched' : dispatched'[i] = n
    BY <2>1 DEF DInv, RowsDispatched
  <2>3. \A n \in live' : receipts'[n] # NULL
    BY <2>1 DEF DInv, RowsDispatched, DeliveryTypeOK
  <2>4. \A n \in Msgs : receipts'[n] # NULL =>
          receipts'[n].session \in {NULL, IF receipts'[n].sid = NULL THEN n ELSE receipts'[n].sid}
    <3> SUFFICES ASSUME NEW n \in Msgs, receipts'[n] # NULL
                 PROVE  receipts'[n].session \in
                           {NULL, IF receipts'[n].sid = NULL THEN n ELSE receipts'[n].sid}
      OBVIOUS
    <3>1. receipts[n] # NULL
      BY <2>1
    <3>2. receipts[n].session \in {NULL, IF receipts[n].sid = NULL THEN n ELSE receipts[n].sid}
      BY <3>1 DEF DInv, RowsDispatched
    <3>3. receipts'[n].sid = receipts[n].sid
      BY <1>3, <3>1 DEF RowsKept
    <3>4. receipts'[n].session = receipts[n].session \/ receipts'[n].session = NULL
      BY <1>3, <3>1 DEF RowsKept
    <3> QED BY <3>2, <3>3, <3>4
  <2> QED BY <2>2, <2>3, <2>4 DEF DInv, RowsDispatched, DispatchedOnce
<1> QED BY <1>1, <1>3, <1>4, <1>5

LEMMA AnsweredTyped ==
    ASSUME NEW status \in {"accepted", "refused", "unavailable"},
           NEW session \in Sessions \cup {NULL}
    PROVE  /\ Answered(status, session) \in Answer /\ Answered(status, session) # NULL
           /\ Answered(status, session).status = status
           /\ Answered(status, session).session = session
BY AbsentAssumption DEF Answered, Answer

\* The client gets the answer it waits for, or nothing changes for it.
LEMMA SettleAnswers ==
    ASSUME DInv, NEW m \in Msgs, NEW answer \in Answer, Settle(m, answer),
           UNCHANGED <<told, acceptedIn>>, BackedStays,
           answer.status = "accepted" => Backed(m, answer.session)'
    PROVE  /\ QueueStays /\ client' \in Client
           /\ client'.attempt # NULL => client'.queue # <<>>
           /\ Acceptances'
<1>1. client \in Client /\ (client.attempt # NULL => client.queue # <<>>)
  BY DEF DInv, DeliveryTypeOK
<1>2. /\ \A n \in Msgs : \A s \in acceptedIn'[n] : Backed(n, s)'
      /\ \A n \in Msgs : "accepted" \in told'[n] <=> acceptedIn'[n] # {}
  BY DEF DInv, Acceptances, BackedStays
<1> DEFINE attempt == [step |-> "answered", answer |-> answer]
<1>3. CASE /\ client.attempt # NULL /\ client.attempt.step = "held" /\ Head1.msg = m
           /\ client' = [client EXCEPT !.attempt = attempt]
  <2>1. attempt \in Attempt /\ attempt.step = "answered" /\ attempt.answer = answer
    BY DEF Attempt, Steps
  <2> HIDE DEF attempt
  <2>2. /\ client' \in Client /\ client'.queue = client.queue /\ client'.saved = client.saved
        /\ client'.attempt = attempt
    BY <1>1, <1>3, <2>1 DEF Client
  <2>3. Head1'.msg = m /\ answer # NULL
    BY <1>3, <2>2, AbsentAssumption DEF Head1
  <2>4. AnswerBacked'
    BY <2>1, <2>2, <2>3 DEF AnswerBacked, Backed
  <2> QED BY <1>1, <1>2, <1>3, <2>2, <2>4 DEF QueueStays, Acceptances
<1>4. CASE client' = client
  <2>1. AnswerBacked'
    <3>1. CASE client.attempt # NULL
      <4>1. PICK h \in Msgs : h = Head1.msg
        BY <3>1, HeadReady
      <4>2. PICK s : s = client.attempt.answer.session
        OBVIOUS
      <4>3. AnswerBacked
        BY DEF DInv, Acceptances
      <4>4. client.attempt.step = "answered" /\ client.attempt.answer.status = "accepted"
               => Backed(h, s)'
        BY <3>1, <4>1, <4>2, <4>3 DEF AnswerBacked, BackedStays
      <4>5. Head1' = Head1
        BY <1>4 DEF Head1
      <4> QED BY <1>4, <3>1, <4>1, <4>2, <4>3, <4>4, <4>5 DEF AnswerBacked, Backed
    <3>2. CASE client.attempt = NULL
      BY <1>4, <3>2 DEF AnswerBacked
    <3> QED BY <3>1, <3>2
  <2> QED BY <1>1, <1>2, <1>4, <2>1 DEF QueueStays, Acceptances
<1> QED BY <1>3, <1>4 DEF Settle

\* One row changes, of a command of this process or into a failure; what the client
\* sees of it comes from SettleAnswers, or nothing changes for it.
LEMMA RowStepKeeps ==
    ASSUME DInv, NEW m \in Msgs, NEW row \in Receipt, receipts[m] # NULL,
           receipts' = [receipts EXCEPT ![m] = row],
           row.sid = receipts[m].sid, receipts[m].error => row.error,
           row.session \in {receipts[m].session, NULL},
           m \in live \/ row.error,
           UNCHANGED <<composed, told, acceptedIn, disruptions, late, live, dispatched,
                       server, crashes>>,
           dispatching' \subseteq dispatching,
           client' \in Client, client'.attempt # NULL => client'.queue # <<>>,
           QueueStays, Acceptances'
    PROVE  DInv'
<1>1. /\ receipts' \in [Msgs -> Receipt \cup {NULL}]
      /\ \A n \in Msgs : receipts'[n] = IF n = m THEN row ELSE receipts[n]
      /\ RowsKept /\ NewRowsAsked /\ RowsDispatched'
  BY RowChanges
<1>2. DeliveryTypeOK'
  BY <1>1 DEF DInv, DeliveryTypeOK
<1>3. /\ Queues' /\ MarksKept' /\ InTurn' /\ DraftShared' /\ StandingKept
  BY <1>1, <1>2, ServerStepKeeps
<1>4. Overtaken'
  BY <1>3, OvertakenKept
<1>5. InterruptionsSurface'
  <2> SUFFICES ASSUME server' = "up", NEW n \in Msgs \ live', receipts'[n] # NULL
               PROVE  \/ receipts'[n].error \/ receipts'[n].session = NULL
                      \/ receipts'[n].admitted
                      \/ receipts'[n].prompted /\ ~receipts'[n].preparing
    BY DEF InterruptionsSurface
  <2>1. CASE n = m
    BY <1>1, <2>1
  <2>2. CASE n # m
    <3>1. receipts'[n] = receipts[n] /\ n \in Msgs \ live
      BY <1>1, <2>2
    <3> QED BY <3>1 DEF DInv, InterruptionsSurface
  <2> QED BY <2>1, <2>2
<1> QED BY <1>1, <1>2, <1>3, <1>4, <1>5 DEF DInv

\* An acceptance stays backed when the row keeps its session and its prompt.
LEMMA RowBacked ==
    ASSUME DInv, NEW m \in Msgs, NEW row \in Receipt,
           receipts' = [receipts EXCEPT ![m] = row],
           receipts[m].prompted => row.prompted,
           \/ row.session = receipts[m].session
           \/ m \in dispatching /\ ~receipts[m].prompted,
           dispatching' \subseteq dispatching
    PROVE  BackedStays
<1> SUFFICES ASSUME NEW n \in Msgs, NEW s, Backed(n, s) PROVE Backed(n, s)'
  BY DEF BackedStays
<1>1. receipts'[n] = IF n = m THEN row ELSE receipts[n]
  BY DEF DInv, DeliveryTypeOK
<1>2. row # NULL
  BY AbsentAssumption
<1>3. CASE n = m
  BY <1>1, <1>2, <1>3 DEF Backed
<1>4. CASE n # m
  BY <1>1, <1>4 DEF Backed
<1> QED BY <1>3, <1>4

\* Nothing changes for the client.
LEMMA ClientUntouched ==
    ASSUME DInv, UNCHANGED <<client, told, acceptedIn>>, BackedStays, DeliveryTypeOK'
    PROVE  QueueStays /\ Acceptances'
<1>1. QueueStays
  BY DEF QueueStays
<1>2. NoneBegun
  BY <1>1, SameQuiet DEF QueueStays
<1> QED BY <1>1, <1>2, AcceptancesKept, NothingShown

LEMMA LiveReceipts ==
    ASSUME DInv
    PROVE  /\ \A m \in live : receipts[m] # NULL /\ receipts[m] \in Receipt
           /\ \A m \in dispatching : m \in live
           /\ \A m \in Msgs : receipts[m] # NULL => receipts[m] \in Receipt
BY DEF DInv, DeliveryTypeOK, RowsDispatched

LEMMA RetainPromptKeeps ==
    ASSUME DInv, NEW m \in Msgs, RetainPrompt(m)
    PROVE  DInv'
<1>1. PICK old \in Receipt : old = receipts[m] /\ receipts[m] # NULL
  BY LiveReceipts DEF RetainPrompt
<1>2. PICK row \in Receipt : row = [old EXCEPT !.prompted = TRUE]
  BY DEF Receipt
<1>3. /\ row.sid = old.sid /\ row.session = old.session /\ row.error = old.error
      /\ row.prompted
  BY <1>2 DEF Receipt
<1>4. receipts' = [receipts EXCEPT ![m] = row]
  BY <1>1, <1>2 DEF RetainPrompt
<1>5. PICK answer \in Answer : /\ answer = Answered("accepted", old.session)
                               /\ answer.status = "accepted" /\ answer.session = old.session
  BY AnsweredTyped DEF Receipt
<1>6. UNCHANGED <<composed, told, acceptedIn, disruptions, late, dispatching, live,
                  dispatched, server, crashes>> /\ m \in live /\ Settle(m, answer)
  BY <1>1, <1>5 DEF RetainPrompt, shown
<1>7. BackedStays
  BY <1>1, <1>3, <1>4, <1>6, RowBacked
<1>8. receipts'[m] = row
  BY <1>4 DEF DInv, DeliveryTypeOK
<1>9. Backed(m, answer.session)'
  BY <1>3, <1>5, <1>8, AbsentAssumption DEF Backed
<1>10. /\ QueueStays /\ client' \in Client
       /\ client'.attempt # NULL => client'.queue # <<>>
       /\ Acceptances'
  BY <1>6, <1>7, <1>9, SettleAnswers
<1> QED BY <1>1, <1>3, <1>4, <1>6, <1>10, RowStepKeeps

LEMMA AdmitExecutionKeeps ==
    ASSUME DInv, NEW m \in Msgs, AdmitExecution(m)
    PROVE  DInv'
<1>1. PICK old \in Receipt : old = receipts[m] /\ receipts[m] # NULL /\ m \in live
  BY LiveReceipts DEF AdmitExecution
<1>2. PICK row \in Receipt : row = [old EXCEPT !.admitted = TRUE]
  BY DEF Receipt
<1>3. /\ row.sid = old.sid /\ row.session = old.session /\ row.error = old.error
      /\ row.prompted = old.prompted
  BY <1>2 DEF Receipt
<1>4. receipts' = [receipts EXCEPT ![m] = row]
  BY <1>1, <1>2 DEF AdmitExecution
<1>5. UNCHANGED <<client, composed, told, acceptedIn, disruptions, late, dispatching, live,
                  dispatched, server, crashes>>
  BY DEF AdmitExecution, clientVars, shown
<1>6. BackedStays
  BY <1>1, <1>3, <1>4, <1>5, RowBacked
<1>7. DeliveryTypeOK'
  BY <1>4, <1>5 DEF DInv, DeliveryTypeOK
<1>8. QueueStays /\ Acceptances'
  BY <1>5, <1>6, <1>7, ClientUntouched
<1> QED BY <1>1, <1>3, <1>4, <1>5, <1>7, <1>8, RowStepKeeps DEF DeliveryTypeOK

\* A row that only turns into a failure.
LEMMA FailureKeeps ==
    ASSUME DInv, NEW m \in Msgs, receipts[m] # NULL,
           receipts' = [receipts EXCEPT ![m].error = TRUE],
           UNCHANGED <<clientVars, dispatching, live, dispatched, server, crashes>>
    PROVE  DInv'
<1>1. PICK old \in Receipt : old = receipts[m]
  BY LiveReceipts
<1>2. PICK row \in Receipt : row = [old EXCEPT !.error = TRUE]
  BY DEF Receipt
<1>3. /\ row.sid = old.sid /\ row.session = old.session /\ row.error
      /\ row.prompted = old.prompted
  BY <1>2 DEF Receipt
<1>4. receipts' = [receipts EXCEPT ![m] = row]
  BY <1>1, <1>2
<1>5. UNCHANGED <<client, composed, told, acceptedIn, disruptions, late, dispatching, live,
                  dispatched, server, crashes>>
  BY DEF clientVars, shown
<1>6. BackedStays
  BY <1>1, <1>3, <1>4, <1>5, RowBacked
<1>7. DeliveryTypeOK'
  BY <1>4, <1>5 DEF DInv, DeliveryTypeOK
<1>8. QueueStays /\ Acceptances'
  BY <1>5, <1>6, <1>7, ClientUntouched
<1> QED BY <1>1, <1>3, <1>4, <1>5, <1>7, <1>8, RowStepKeeps DEF DeliveryTypeOK

LEMMA ReportErrorKeeps ==
    ASSUME DInv, NEW m \in Msgs, ReportError(m)
    PROVE  DInv'
BY LiveReceipts, FailureKeeps DEF ReportError

LEMMA RecoverReceiptKeeps ==
    ASSUME DInv, NEW m \in Msgs, RecoverReceipt(m)
    PROVE  DInv'
BY FailureKeeps DEF RecoverReceipt, Interrupted

LEMMA DispatchSucceedsKeeps ==
    ASSUME DInv, NEW m \in Msgs, DispatchSucceeds(m)
    PROVE  DInv'
<1>1. PICK old \in Receipt : old = receipts[m] /\ receipts[m] # NULL /\ m \in live
  BY LiveReceipts DEF DispatchSucceeds, EndDispatch
<1>2. PICK row \in Receipt : row = [old EXCEPT !.preparing = FALSE]
  BY DEF Receipt
<1>3. /\ row.sid = old.sid /\ row.session = old.session /\ row.error = old.error
      /\ row.prompted = old.prompted
  BY <1>2 DEF Receipt
<1>4. receipts' = [receipts EXCEPT ![m] = row]
  BY <1>1, <1>2 DEF DispatchSucceeds
<1>5. PICK answer \in Answer : /\ answer = Answered("accepted", old.session)
                               /\ answer.status = "accepted" /\ answer.session = old.session
  BY AnsweredTyped DEF Receipt
<1>6. /\ UNCHANGED <<composed, told, acceptedIn, disruptions, late, live,
                     dispatched, server, crashes>> /\ Settle(m, answer)
      /\ dispatching' = dispatching \ {m}
  BY <1>1, <1>5 DEF DispatchSucceeds, EndDispatch, shown
<1>7. BackedStays
  BY <1>1, <1>3, <1>4, <1>6, RowBacked
<1>8. receipts'[m] = row
  BY <1>4 DEF DInv, DeliveryTypeOK
<1>9. Backed(m, answer.session)'
  BY <1>3, <1>5, <1>6, <1>8, AbsentAssumption DEF Backed
<1>10. /\ QueueStays /\ client' \in Client
       /\ client'.attempt # NULL => client'.queue # <<>>
       /\ Acceptances'
  BY <1>6, <1>7, <1>9, SettleAnswers
<1> QED BY <1>1, <1>3, <1>4, <1>6, <1>10, RowStepKeeps

LEMMA DispatchNativeKeeps ==
    ASSUME DInv, NEW m \in Msgs, DispatchNative(m)
    PROVE  DInv'
<1>1. PICK old \in Receipt : old = receipts[m] /\ receipts[m] # NULL /\ m \in live
  BY LiveReceipts DEF DispatchNative, EndDispatch
<1>2. PICK row \in Receipt : row = [old EXCEPT !.preparing = FALSE, !.session = NULL]
  BY DEF Receipt
<1>3. /\ row.sid = old.sid /\ row.session = NULL /\ row.error = old.error
      /\ row.prompted = old.prompted
  BY <1>2 DEF Receipt
<1>4. receipts' = [receipts EXCEPT ![m] = row]
  BY <1>1, <1>2 DEF DispatchNative, DInv, DeliveryTypeOK
<1>5. PICK answer \in Answer : /\ answer = Answered("accepted", NULL)
                               /\ answer.status = "accepted" /\ answer.session = NULL
  BY AnsweredTyped
<1>6. /\ UNCHANGED <<composed, told, acceptedIn, disruptions, late, live,
                     dispatched, server, crashes>> /\ Settle(m, answer)
      /\ dispatching' = dispatching \ {m} /\ m \in dispatching /\ ~receipts[m].prompted
  BY <1>1, <1>5 DEF DispatchNative, EndDispatch, shown
<1>7. BackedStays
  BY <1>1, <1>3, <1>4, <1>6, RowBacked
<1>8. receipts'[m] = row
  BY <1>4 DEF DInv, DeliveryTypeOK
<1>9. Backed(m, answer.session)'
  BY <1>3, <1>5, <1>6, <1>8, AbsentAssumption DEF Backed
<1>10. /\ QueueStays /\ client' \in Client
       /\ client'.attempt # NULL => client'.queue # <<>>
       /\ Acceptances'
  BY <1>6, <1>7, <1>9, SettleAnswers
<1> QED BY <1>1, <1>3, <1>4, <1>6, <1>10, RowStepKeeps

LEMMA DispatchFailsKeeps ==
    ASSUME DInv, NEW m \in Msgs, DispatchFails(m)
    PROVE  DInv'
<1>1. PICK old \in Receipt : old = receipts[m] /\ receipts[m] # NULL /\ m \in live
  BY LiveReceipts DEF DispatchFails, EndDispatch
<1>2. PICK row \in Receipt : row = [old EXCEPT !.error = TRUE]
  BY DEF Receipt
<1>3. /\ row.sid = old.sid /\ row.session = old.session /\ row.error
      /\ row.prompted = old.prompted
  BY <1>2 DEF Receipt
<1>4. receipts' = [receipts EXCEPT ![m] = row]
  BY <1>1, <1>2 DEF DispatchFails
<1>5. PICK answer \in Answer : answer = Answered("refused", NULL) /\ answer.status = "refused"
  BY AnsweredTyped
<1>6. /\ UNCHANGED <<composed, told, acceptedIn, disruptions, late, live,
                     dispatched, server, crashes>> /\ Settle(m, answer)
      /\ dispatching' = dispatching \ {m}
  BY <1>1, <1>5 DEF DispatchFails, EndDispatch, shown
<1>7. BackedStays
  BY <1>1, <1>3, <1>4, <1>6, RowBacked
<1>8. /\ QueueStays /\ client' \in Client
      /\ client'.attempt # NULL => client'.queue # <<>>
      /\ Acceptances'
  BY <1>5, <1>6, <1>7, SettleAnswers
<1> QED BY <1>1, <1>3, <1>4, <1>6, <1>8, RowStepKeeps

\* A request is admitted: a known command changes nothing, a new one is the last
\* dispatched, after none that it had to wait for.
LEMMA AdmissionAdds ==
    ASSUME DInv, NEW m \in Msgs, NEW sid \in Sessions \cup {NULL}, Asked(m, sid),
           Admission(m, sid)
    PROVE  /\ receipts' \in [Msgs -> Receipt \cup {NULL}]
           /\ dispatching' \subseteq live' /\ live' \subseteq Msgs
           /\ dispatched' \in Seq(Msgs)
           /\ RowsKept /\ NewRowsAsked /\ RowsDispatched' /\ BackedStays
           /\ \A n \in Msgs \ live' : n \notin live /\ receipts'[n] = receipts[n]
           /\ \/ UNCHANGED dispatched
              \/ receipts[m] = NULL /\ dispatched' = Append(dispatched, m)
<1> DEFINE row == [sid |-> sid, session |-> IF sid = NULL THEN m ELSE sid, error |-> FALSE,
                   preparing |-> TRUE, prompted |-> FALSE, admitted |-> FALSE]
<1>1. CASE UNCHANGED <<receipts, dispatching, live, dispatched>>
  <2>1. RowsKept /\ NewRowsAsked
    BY <1>1 DEF RowsKept, NewRowsAsked
  <2>2. RowsDispatched'
    BY <1>1 DEF DInv, RowsDispatched, DispatchedOnce
  <2>3. BackedStays
    BY <1>1 DEF BackedStays, Backed
  <2> QED BY <1>1, <2>1, <2>2, <2>3 DEF DInv, DeliveryTypeOK
<1>2. ASSUME receipts[m] = NULL, receipts' = [receipts EXCEPT ![m] = row],
             dispatching' = dispatching \cup {m}, live' = live \cup {m},
             dispatched' = Append(dispatched, m)
      PROVE  /\ receipts' \in [Msgs -> Receipt \cup {NULL}]
             /\ dispatching' \subseteq live' /\ live' \subseteq Msgs
             /\ dispatched' \in Seq(Msgs)
             /\ RowsKept /\ NewRowsAsked /\ RowsDispatched' /\ BackedStays
             /\ \A n \in Msgs \ live' : n \notin live /\ receipts'[n] = receipts[n]
  <2>1. row \in Receipt /\ row.sid = sid
        /\ row.session \in {NULL, IF sid = NULL THEN m ELSE sid}
    BY DEF Receipt, Sessions
  <2> HIDE DEF row
  <2>2. row # NULL
    BY <2>1, AbsentAssumption
  <2>3. /\ receipts' \in [Msgs -> Receipt \cup {NULL}]
        /\ \A n \in Msgs : receipts'[n] = IF n = m THEN row ELSE receipts[n]
    BY <1>2, <2>1 DEF DInv, DeliveryTypeOK
  <2>4. dispatching \subseteq live /\ live \subseteq Msgs /\ dispatched \in Seq(Msgs)
    BY DEF DInv, DeliveryTypeOK
  <2>5. dispatching' \subseteq live' /\ live' \subseteq Msgs
    BY <1>2, <2>4
  <2>6. /\ dispatched' \in Seq(Msgs) /\ Len(dispatched') = Len(dispatched) + 1
        /\ \A i \in 1..Len(dispatched) : dispatched'[i] = dispatched[i]
        /\ dispatched'[Len(dispatched) + 1] = m
    BY <1>2, <2>4, AppendProperties
  <2>7. RowsKept
    BY <1>2, <2>3 DEF RowsKept
  <2>8. NewRowsAsked
    BY <2>1, <2>3 DEF NewRowsAsked
  <2>9. BackedStays
    <3> SUFFICES ASSUME NEW n \in Msgs, NEW s, Backed(n, s) PROVE Backed(n, s)'
      BY DEF BackedStays
    <3>1. n # m
      BY <1>2 DEF Backed
    <3> QED BY <1>2, <2>3, <3>1 DEF Backed
  <2>10. /\ DOMAIN dispatched = 1..Len(dispatched) /\ Len(dispatched) \in Nat
         /\ DOMAIN dispatched' = 1..(Len(dispatched) + 1)
    BY <2>4, <2>6
  <2>11. \A i \in DOMAIN dispatched : dispatched[i] # m
    BY <1>2, <2>4 DEF DInv, RowsDispatched
  <2>12. RowsDispatched'
    <3>1. ASSUME NEW n \in Msgs
          PROVE receipts'[n] # NULL <=> \E i \in DOMAIN dispatched' : dispatched'[i] = n
      <4>1. CASE n = m
        <5>1. Len(dispatched) + 1 \in DOMAIN dispatched'
          BY <2>10
        <5> QED BY <2>2, <2>3, <2>6, <4>1, <5>1
      <4>2. CASE n # m
        <5>1. receipts'[n] # NULL <=> \E i \in DOMAIN dispatched : dispatched[i] = n
          BY <2>3, <4>2 DEF DInv, RowsDispatched
        <5>2. (\E i \in DOMAIN dispatched : dispatched[i] = n)
                 <=> \E i \in DOMAIN dispatched' : dispatched'[i] = n
          <6>1. \A i \in DOMAIN dispatched : i \in DOMAIN dispatched'
                                             /\ dispatched'[i] = dispatched[i]
            BY <2>6, <2>10
          <6>2. \A i \in DOMAIN dispatched' : i \in DOMAIN dispatched \/ dispatched'[i] = m
            BY <2>6, <2>10
          <6> QED BY <4>2, <6>1, <6>2
        <5> QED BY <5>1, <5>2
      <4> QED BY <4>1, <4>2
    <3>2. \A n \in live' : receipts'[n] # NULL
      BY <1>2, <2>2, <2>3, <2>4 DEF DInv, RowsDispatched
    <3>3. ASSUME NEW n \in Msgs, receipts'[n] # NULL
          PROVE  receipts'[n].session \in
                     {NULL, IF receipts'[n].sid = NULL THEN n ELSE receipts'[n].sid}
      <4>1. CASE n = m
        BY <2>1, <2>3, <4>1
      <4>2. CASE n # m
        BY <2>3, <3>3, <4>2 DEF DInv, RowsDispatched
      <4> QED BY <4>1, <4>2
    <3>4. ASSUME NEW i \in DOMAIN dispatched', NEW j \in DOMAIN dispatched',
                 dispatched'[i] = dispatched'[j]
          PROVE  i = j
      <4>1. CASE i \in DOMAIN dispatched /\ j \in DOMAIN dispatched
        BY <2>6, <2>10, <3>4, <4>1 DEF DInv, RowsDispatched, DispatchedOnce
      <4>2. CASE i \notin DOMAIN dispatched /\ j \notin DOMAIN dispatched
        BY <2>10, <4>2
      <4>3. CASE i \in DOMAIN dispatched /\ j \notin DOMAIN dispatched
        BY <2>6, <2>10, <2>11, <3>4, <4>3
      <4>4. CASE i \notin DOMAIN dispatched /\ j \in DOMAIN dispatched
        BY <2>6, <2>10, <2>11, <3>4, <4>4
      <4> QED BY <4>1, <4>2, <4>3, <4>4
    <3> QED BY <3>1, <3>2, <3>3, <3>4 DEF RowsDispatched, DispatchedOnce
  <2>13. \A n \in Msgs \ live' : n \notin live /\ receipts'[n] = receipts[n]
    BY <1>2, <2>3
  <2> QED BY <2>3, <2>5, <2>6, <2>7, <2>8, <2>9, <2>12, <2>13
<1>3. CASE receipts[m] # NULL
  BY <1>1, <1>3 DEF Admission, Known
<1>4. CASE receipts[m] = NULL
  BY <1>2, <1>4 DEF Admission, Known
<1> QED BY <1>3, <1>4

\* The last dispatched was overtaken only by what its user was told of.
LEMMA AdmissionOvertakes ==
    ASSUME DInv, StandingKept, NEW m \in Msgs, receipts[m] = NULL,
           dispatched' = Append(dispatched, m)
    PROVE  Overtaken'
<1>1. dispatched \in Seq(Msgs) /\ \A i \in DOMAIN dispatched : dispatched[i] \in Msgs
  BY DEF DInv, DeliveryTypeOK
<1>2. /\ Len(dispatched') = Len(dispatched) + 1 /\ dispatched' \in Seq(Msgs)
      /\ \A i \in 1..Len(dispatched) : dispatched'[i] = dispatched[i]
      /\ dispatched'[Len(dispatched) + 1] = m
  BY <1>1, AppendProperties
<1>3. /\ DOMAIN dispatched = 1..Len(dispatched) /\ Len(dispatched) \in Nat
      /\ DOMAIN dispatched' = 1..(Len(dispatched) + 1)
  BY <1>1, <1>2
<1> SUFFICES ASSUME NEW i \in DOMAIN dispatched', NEW j \in DOMAIN dispatched', i < j,
                    dispatched'[j] < dispatched'[i]
             PROVE  Spoilt(dispatched[j])' \/ Lost(dispatched[j])'
  BY DEF Overtaken
<1>4. i \in DOMAIN dispatched
  BY <1>3
<1>5. CASE j \in DOMAIN dispatched
  <2>1. dispatched'[i] = dispatched[i] /\ dispatched'[j] = dispatched[j]
    BY <1>2, <1>3, <1>4, <1>5
  <2>2. PICK n \in Msgs : n = dispatched[j]
    BY <1>1, <1>5
  <2>3. Spoilt(n) \/ Lost(n)
    BY <1>4, <1>5, <2>1, <2>2 DEF DInv, Overtaken
  <2>4. Spoilt(n)' \/ Lost(n)'
    BY <2>3 DEF StandingKept
  <2> QED BY <2>1, <2>2, <2>4 DEF Spoilt, Lost
<1>6. CASE j \notin DOMAIN dispatched
  <2>1. dispatched'[j] = m /\ dispatched'[i] = dispatched[i]
    <3>1. j = Len(dispatched) + 1
      BY <1>3, <1>6
    <3> QED BY <1>2, <1>3, <1>4, <3>1
  <2>2. PICK x \in Msgs : x = dispatched[i]
    BY <1>1, <1>4
  <2>3. receipts[x] # NULL /\ receipts[x].sid \in Sessions \cup {NULL}
    BY <1>4, <2>2 DEF DInv, RowsDispatched, DeliveryTypeOK, Receipt
  <2>4. Tried(x)
    BY <2>3 DEF Tried, Asked
  <2>5. m < x
    BY <2>1, <2>2
  <2>6. Passed(m)
    BY <2>4, <2>5 DEF DInv, InTurn
  <2>7. "accepted" \notin told[m]
    BY DEF DInv, Acceptances, Backed
  <2>8. Spoilt(m) \/ Lost(m)
    BY <2>6, <2>7 DEF Passed
  <2>9. Spoilt(m)' \/ Lost(m)'
    BY <2>8 DEF StandingKept
  <2> QED BY <2>1, <2>9 DEF Spoilt, Lost
<1> QED BY <1>5, <1>6

LEMMA AdmissionKeeps ==
    ASSUME DInv, server = "up", NEW m \in Msgs, NEW sid \in Sessions \cup {NULL},
           Asked(m, sid), Admission(m, sid),
           UNCHANGED <<composed, told, acceptedIn, disruptions, server, crashes>>,
           late' \subseteq late, client' \in Client,
           client'.attempt # NULL => client'.queue # <<>>,
           QueueStays, Acceptances'
    PROVE  DInv'
<1>1. /\ receipts' \in [Msgs -> Receipt \cup {NULL}]
      /\ dispatching' \subseteq live' /\ live' \subseteq Msgs
      /\ dispatched' \in Seq(Msgs)
      /\ RowsKept /\ NewRowsAsked /\ RowsDispatched'
      /\ \A n \in Msgs \ live' : n \notin live /\ receipts'[n] = receipts[n]
      /\ \/ UNCHANGED dispatched
         \/ receipts[m] = NULL /\ dispatched' = Append(dispatched, m)
  BY AdmissionAdds
<1>2. DeliveryTypeOK'
  BY <1>1 DEF DInv, DeliveryTypeOK
<1>3. /\ Queues' /\ MarksKept' /\ InTurn' /\ DraftShared' /\ StandingKept
  BY <1>1, <1>2, ServerStepKeeps
<1>4. Overtaken'
  BY <1>1, <1>3, OvertakenKept, AdmissionOvertakes
<1>5. InterruptionsSurface'
  BY <1>1 DEF DInv, InterruptionsSurface
<1> QED BY <1>1, <1>2, <1>3, <1>4, <1>5 DEF DInv

LEMMA ReceiveLateKeeps ==
    ASSUME DInv, NEW r \in late, ReceiveLate(r)
    PROVE  DInv'
<1>1. r \in Request /\ late \subseteq Request
  BY DEF DInv, DeliveryTypeOK
<1>2. PICK m \in Msgs, sid \in Sessions \cup {NULL} : r = [msg |-> m, sid |-> sid]
  BY <1>1 DEF Request
<1>3. Asked(m, sid) /\ Admission(m, sid)
  BY <1>2 DEF Asked, ReceiveLate
<1>4. /\ UNCHANGED <<client, composed, told, acceptedIn, disruptions, server, crashes>>
      /\ late' = late \ {r} /\ server = "up"
  BY DEF ReceiveLate, shown
<1>5. /\ receipts' \in [Msgs -> Receipt \cup {NULL}]
      /\ dispatching' \subseteq live' /\ live' \subseteq Msgs
      /\ dispatched' \in Seq(Msgs) /\ BackedStays
  BY <1>3, AdmissionAdds
<1>6. DeliveryTypeOK'
  BY <1>4, <1>5 DEF DInv, DeliveryTypeOK
<1>7. QueueStays /\ Acceptances'
  BY <1>4, <1>5, <1>6, ClientUntouched
<1> QED BY <1>3, <1>4, <1>6, <1>7, AdmissionKeeps DEF DeliveryTypeOK

\* A reply is an answer the client may show.
LEMMA ReplySays ==
    ASSUME DInv, NEW m \in Msgs, NEW sid \in Sessions \cup {NULL}
    PROVE  /\ Reply(m, sid) \in Answer \cup {NULL}
           /\ Reply(m, sid) # NULL /\ Reply(m, sid).status = "accepted" =>
                 Backed(m, Reply(m, sid).session)
<1>1. CASE receipts[m] = NULL
  <2>1. Reply(m, sid) = NULL
    BY <1>1 DEF Reply, Known
  <2> QED BY <2>1
<1>2. CASE receipts[m] # NULL
  <2>1. PICK s \in Sessions \cup {NULL} : s = receipts[m].session
    BY <1>2 DEF DInv, DeliveryTypeOK, Receipt
  <2>2. PICK refused \in Answer : refused = Answered("refused", NULL) /\ refused.status = "refused"
    BY AnsweredTyped
  <2>3. PICK accepted \in Answer : accepted = Answered("accepted", s) /\ accepted.session = s
    BY AnsweredTyped
  <2>4. \/ Reply(m, sid) \in {NULL, refused}
        \/ Reply(m, sid) = accepted /\ (m \in dispatching => receipts[m].prompted)
    BY <1>2, <2>1, <2>2, <2>3 DEF Reply, Known
  <2>5. Backed(m, s) <=> (m \in dispatching => receipts[m].prompted)
    BY <1>2, <2>1 DEF Backed
  <2> QED BY <2>2, <2>3, <2>4, <2>5
<1> QED BY <1>1, <1>2

LEMMA ReceiveCurrentKeeps ==
    ASSUME DInv, ReceiveCurrent
    PROVE  DInv'
<1>1. client.attempt # NULL /\ client.attempt.step = "sent"
  BY DEF ReceiveCurrent
<1>2. PICK m \in Msgs, sid \in Sessions \cup {NULL} : m = Head1.msg /\ sid = Head1.sid
  BY <1>1, HeadReady DEF Entry
<1>3. PICK answer \in Answer \cup {NULL} :
          /\ answer = Reply(m, sid)
          /\ answer # NULL /\ answer.status = "accepted" => Backed(m, answer.session)
  BY ReplySays
<1>4. PICK step \in Steps : step = IF answer = NULL THEN "held" ELSE "answered"
  BY DEF Steps
<1> DEFINE attempt == [step |-> step, answer |-> answer]
<1>5. attempt \in Attempt /\ attempt.step = step /\ attempt.answer = answer
  BY DEF Attempt
<1>6. client' = [client EXCEPT !.attempt = attempt]
  BY <1>2, <1>3, <1>4 DEF ReceiveCurrent
<1> HIDE DEF attempt
<1>7. /\ client' \in Client /\ client'.queue = client.queue /\ client'.saved = client.saved
      /\ client'.attempt = attempt /\ client.queue # <<>>
  BY <1>1, <1>5, <1>6 DEF DInv, DeliveryTypeOK, Client
<1>8. Asked(m, sid) /\ Admission(m, sid)
  <2>1. Asked(m, sid)
    BY <1>1, <1>2 DEF Asked
  <2> QED BY <1>2, <2>1 DEF ReceiveCurrent
<1>9. UNCHANGED <<composed, told, acceptedIn, disruptions, late, server, crashes>>
      /\ server = "up"
  BY DEF ReceiveCurrent, shown
<1>10. QueueStays
  BY <1>1, <1>7 DEF QueueStays
<1>11. BackedStays
  BY <1>8, AdmissionAdds
<1>12. Acceptances'
  <2>1. /\ \A n \in Msgs : \A s \in acceptedIn'[n] : Backed(n, s)'
        /\ \A n \in Msgs : "accepted" \in told'[n] <=> acceptedIn'[n] # {}
    BY <1>9, <1>11 DEF DInv, Acceptances, BackedStays
  <2>2. PICK s : s = answer.session
    OBVIOUS
  <2>3. answer # NULL /\ answer.status = "accepted" => Backed(m, s)'
    BY <1>3, <1>11, <2>2 DEF BackedStays
  <2>4. Head1'.msg = m
    BY <1>2, <1>7 DEF Head1
  <2>5. AnswerBacked'
    BY <1>4, <1>5, <1>7, <2>2, <2>3, <2>4 DEF AnswerBacked, Backed
  <2> QED BY <2>1, <2>5 DEF Acceptances
<1> QED BY <1>7, <1>8, <1>9, <1>10, <1>12, AdmissionKeeps

LEMMA CrashServerKeeps ==
    ASSUME DInv, CrashServer
    PROVE  DInv'
<1>1. /\ client \in Client /\ (client.attempt # NULL => client.queue # <<>>)
      /\ client.attempt # NULL => client.attempt \in Attempt
  BY DEF DInv, DeliveryTypeOK, Client
<1>2. /\ UNCHANGED <<composed, told, acceptedIn, disruptions, late, receipts, dispatched>>
      /\ dispatching' = {} /\ live' = {} /\ server' = "recovering"
      /\ crashes' = crashes + 1 /\ crashes < MaxCrashes
  BY DEF CrashServer, shown
<1>3. /\ client' \in Client /\ client'.queue = client.queue /\ client'.saved = client.saved
      /\ client'.attempt # NULL => client.attempt # NULL
      /\ client'.attempt = client.attempt \/ client'.attempt.step = "lost"
  <2>1. CASE client' = client
    BY <1>1, <2>1
  <2>2. CASE client.attempt # NULL /\ client' = [client EXCEPT !.attempt.step = "lost"]
    <3> DEFINE attempt == [client.attempt EXCEPT !.step = "lost"]
    <3>1. attempt \in Attempt /\ attempt.step = "lost"
      BY <1>1, <2>2 DEF Attempt, Steps
    <3>2. client' = [client EXCEPT !.attempt = attempt]
      BY <2>2
    <3> HIDE DEF attempt
    <3> QED BY <1>1, <2>2, <3>1, <3>2 DEF Client
  <2> QED BY <2>1, <2>2 DEF CrashServer
<1>4. QueueStays
  BY <1>3 DEF QueueStays
<1>5. RowsKept /\ NewRowsAsked
  BY <1>2 DEF RowsKept, NewRowsAsked
<1>6. BackedStays
  BY <1>2 DEF BackedStays, Backed
<1>7. crashes' \in 0..MaxCrashes
  BY <1>2, DeliveryBoundAssumption DEF DInv, DeliveryTypeOK
<1>8. DeliveryTypeOK'
  BY <1>1, <1>2, <1>3, <1>7 DEF DInv, DeliveryTypeOK
<1>9. /\ Queues' /\ MarksKept' /\ InTurn' /\ DraftShared' /\ StandingKept
  BY <1>2, <1>4, <1>5, <1>8, ServerStepKeeps
<1>10. Overtaken'
  BY <1>2, <1>9, OvertakenKept
<1>11. RowsDispatched' /\ InterruptionsSurface'
  BY <1>2 DEF DInv, RowsDispatched, DispatchedOnce, InterruptionsSurface
<1>12. Acceptances'
  <2>1. NoneBegun
    BY <1>4, SameQuiet DEF QueueStays
  <2>2. client'.attempt = client.attempt \/ client'.attempt.step \notin {"answered", "handoff"}
    BY <1>3
  <2> QED BY <1>2, <1>6, <1>8, <2>1, <2>2, AcceptancesKept, NothingShown
<1> QED BY <1>8, <1>9, <1>10, <1>11, <1>12 DEF DInv

\* The server serves when every interrupted command is a failure.
LEMMA ServeKeeps ==
    ASSUME DInv, Serve
    PROVE  DInv'
<1>1. /\ UNCHANGED <<client, composed, told, acceptedIn, disruptions, late, receipts,
                     dispatching, live, dispatched, crashes>>
      /\ server' = "up"
  BY DEF Serve, clientVars, shown
<1>2. RowsKept /\ NewRowsAsked /\ BackedStays
  BY <1>1 DEF RowsKept, NewRowsAsked, BackedStays, Backed
<1>3. DeliveryTypeOK'
  BY <1>1 DEF DInv, DeliveryTypeOK
<1>4. QueueStays /\ Acceptances'
  BY <1>1, <1>2, <1>3, ClientUntouched
<1>5. /\ Queues' /\ MarksKept' /\ InTurn' /\ DraftShared' /\ StandingKept
  BY <1>1, <1>2, <1>3, <1>4, ServerStepKeeps
<1>6. Overtaken'
  BY <1>1, <1>5, OvertakenKept
<1>7. RowsDispatched'
  BY <1>1 DEF DInv, RowsDispatched, DispatchedOnce
<1>8. InterruptionsSurface'
  <2> SUFFICES ASSUME NEW m \in Msgs, receipts[m] # NULL
               PROVE  \/ receipts[m].error \/ receipts[m].session = NULL
                      \/ receipts[m].admitted
                      \/ receipts[m].prompted /\ ~receipts[m].preparing
    BY <1>1 DEF InterruptionsSurface
  <2>1. ~Interrupted(m)
    BY DEF Serve
  <2> QED BY <2>1 DEF Interrupted
<1> QED BY <1>3, <1>4, <1>5, <1>6, <1>7, <1>8 DEF DInv

-----------------------------------------------------------------------------
(* The invariant.                                                          *)

LEMMA InitHolds ==
    ASSUME DeliveryInit
    PROVE  DInv
<1>1. /\ client.queue = <<>> /\ client.saved = <<>> /\ client.attempt = NULL
      /\ client \in Client
  BY DEF DeliveryInit, Client
<1>2. /\ composed = {} /\ dispatched = <<>> /\ late = {} /\ live = {} /\ dispatching = {}
      /\ \A m \in Msgs : told[m] = {} /\ acceptedIn[m] = {} /\ receipts[m] = NULL
  BY DEF DeliveryInit
<1>3. \A q, m : q = <<>> => ~Listed(q, m) /\ ~Marked(q, m) /\ \A s : ~Asks(q, m, s)
  BY DEF Listed, Marked, Asks
<1>4. \A m \in Msgs : \A s : ~Asked(m, s)
  BY <1>1, <1>2 DEF Asked
<1>5. DeliveryTypeOK
  BY <1>1, DeliveryBoundAssumption DEF DeliveryInit, DeliveryTypeOK
<1>6. Queues
  BY <1>1, <1>2 DEF Queues, Ordered, HeadMarked
<1>7. MarksKept
  BY <1>1, <1>3, <1>4, ReviewedAssumption DEF MarksKept, Tried
<1>8. RowsDispatched
  BY <1>2 DEF RowsDispatched, DispatchedOnce
<1>9. Acceptances
  BY <1>1, <1>2 DEF Acceptances, AnswerBacked
<1>10. InTurn
  BY <1>2, <1>4 DEF InTurn, Tried
<1>11. Overtaken
  BY <1>2 DEF Overtaken
<1>12. DraftShared
  BY <1>1, <1>3, <1>4 DEF DraftShared, QueueShares, StorageShares, RequestsShare
<1>13. InterruptionsSurface
  BY <1>2 DEF InterruptionsSurface
<1> QED BY <1>5, <1>6, <1>7, <1>8, <1>9, <1>10, <1>11, <1>12, <1>13 DEF DInv

LEMMA StutterKeeps ==
    ASSUME DInv, UNCHANGED deliveryVars
    PROVE  DInv'
<1>1. UNCHANGED <<client, composed, told, acceptedIn, disruptions, late, receipts,
                  dispatching, live, dispatched, server, crashes>>
  BY DEF deliveryVars, clientVars, serverVars, shown
<1>2. RowsKept /\ NewRowsAsked /\ BackedStays
  BY <1>1 DEF RowsKept, NewRowsAsked, BackedStays, Backed
<1>3. DeliveryTypeOK'
  BY <1>1 DEF DInv, DeliveryTypeOK
<1>4. QueueStays /\ Acceptances'
  BY <1>1, <1>2, <1>3, ClientUntouched
<1>5. /\ Queues' /\ MarksKept' /\ InTurn' /\ DraftShared' /\ StandingKept
  BY <1>1, <1>2, <1>3, <1>4, ServerStepKeeps
<1>6. Overtaken'
  BY <1>1, <1>5, OvertakenKept
<1>7. RowsDispatched' /\ InterruptionsSurface'
  BY <1>1 DEF DInv, RowsDispatched, DispatchedOnce, InterruptionsSurface
<1> QED BY <1>3, <1>4, <1>5, <1>6, <1>7 DEF DInv

LEMMA NextKeeps ==
    ASSUME DInv, [DeliveryNext]_deliveryVars
    PROVE  DInv'
<1>1. ASSUME NEW m \in Msgs, Enqueue(m) PROVE DInv'
  BY <1>1, EnqueueKeeps
<1>2. ASSUME NEW m \in Msgs, ServerStep(m) PROVE DInv'
  BY <1>2, RetainPromptKeeps, AdmitExecutionKeeps, ReportErrorKeeps, DispatchSucceedsKeeps,
     DispatchNativeKeeps, DispatchFailsKeeps, RecoverReceiptKeeps DEF ServerStep
<1>3. CASE Start
  BY <1>3, StartKeeps
<1>4. CASE Stop
  BY <1>4, StopKeeps
<1>5. CASE RejectAll
  BY <1>5, RejectAllKeeps
<1>6. CASE Reload
  BY <1>6, ReloadKeeps
<1>7. CASE ClientStep
  BY <1>7, FetchKeeps, AttemptFailsKeeps, RefusedKeeps, AcceptedKeeps, HandOffKeeps,
     StartKeeps DEF ClientStep
<1>8. CASE ReceiveCurrent
  BY <1>8, ReceiveCurrentKeeps
<1>9. CASE TurnAway
  BY <1>9, TurnAwayKeeps
<1>10. ASSUME NEW r \in late, ReceiveLate(r) PROVE DInv'
  BY <1>10, ReceiveLateKeeps
<1>11. CASE CrashServer
  BY <1>11, CrashServerKeeps
<1>12. CASE Serve
  BY <1>12, ServeKeeps
<1>13. CASE UNCHANGED deliveryVars
  BY <1>13, StutterKeeps
<1> QED BY <1>1, <1>2, <1>3, <1>4, <1>5, <1>6, <1>7, <1>8, <1>9, <1>10, <1>11, <1>12, <1>13
        DEF DeliveryNext

\* In every reachable state the queues, the requests, the rows and what was shown
\* agree, whatever is lost, late, repeated, reloaded or crashes.
THEOREM DeliveryInvariance == DeliverySpec => []DInv
<1>1. DeliveryInit => DInv
  BY InitHolds
<1>2. DInv /\ [DeliveryNext]_deliveryVars => DInv'
  BY NextKeeps
<1> QED BY <1>1, <1>2, PTL DEF DeliverySpec

\* Every variable keeps the values the code gives it.
THEOREM DeliveryTypes == DeliverySpec => []DeliveryTypeOK
<1>1. DInv => DeliveryTypeOK
  BY DEF DInv
<1> QED BY <1>1, DeliveryInvariance, PTL

\* A command is dispatched at most once, whatever the client repeats and wherever
\* the server crashes (acceptSendCommandAsync).
THEOREM DispatchOnce == DeliverySpec => []DispatchedOnce
<1>1. DInv => DispatchedOnce
  BY DEF DInv, RowsDispatched
<1> QED BY <1>1, DeliveryInvariance, PTL

\* What the user was told is accepted has a receipt with that session, and was
\* dispatched (the receipt the outbox hands to onAccepted).
THEOREM AcceptancesHold == DeliverySpec => []AcceptanceHolds
<1>1. DInv => AcceptanceHolds
  BY DEF DInv, Acceptances, RowsDispatched, Backed, AcceptanceHolds
<1> QED BY <1>1, DeliveryInvariance, PTL

\* Messages of which the user saw nothing but an acceptance were dispatched in the
\* order they were composed (the outbox sends only its head).
THEOREM OrderKept == DeliverySpec => []DispatchedInOrder
<1>1. ASSUME DInv PROVE DispatchedInOrder
  <2> SUFFICES ASSUME NEW i \in DOMAIN dispatched, NEW j \in DOMAIN dispatched, i < j,
                      told[dispatched[i]] = {"accepted"}, told[dispatched[j]] = {"accepted"}
               PROVE  dispatched[i] < dispatched[j]
    BY DEF DispatchedInOrder
  <2>1. dispatched \in Seq(Msgs) /\ dispatched[i] \in Nat /\ dispatched[j] \in Nat
    BY <1>1, MsgsAssumption DEF DInv, DeliveryTypeOK
  <2>2. i \in Nat /\ j \in Nat /\ i # j
    BY <2>1
  <2>3. dispatched[i] # dispatched[j]
    BY <1>1, <2>2 DEF DInv, RowsDispatched, DispatchedOnce
  <2>4. ~Spoilt(dispatched[j]) /\ ~Lost(dispatched[j])
    BY DEF Spoilt, Lost
  <2>5. ~(dispatched[j] < dispatched[i])
    BY <1>1, <2>4 DEF DInv, Overtaken
  <2> QED BY <2>1, <2>3, <2>5
<1> QED BY <1>1, DeliveryInvariance, PTL

\* Once the server serves, no command without evidence of its delivery is left
\* as if it had been delivered (recoverPendingSendCommands).
THEOREM InterruptionsSurfaced == DeliverySpec => []InterruptionsSurface
<1>1. DInv => InterruptionsSurface
  BY DEF DInv
<1> QED BY <1>1, DeliveryInvariance, PTL

\* A reviewed command with a receipt is answered or still stored: it was marked
\* and written before it was sent (pump).
THEOREM ReviewedKept == DeliverySpec => []ReviewedRetained
<1>1. ASSUME DInv PROVE ReviewedRetained
  <2> SUFFICES ASSUME NEW m \in Reviewed, receipts[m] # NULL,
                      told[m] \cap {"accepted", "failed"} = {}
               PROVE  \E i \in DOMAIN client.saved : client.saved[i].msg = m
    BY DEF ReviewedRetained
  <2>1. m \in Msgs
    BY ReviewedAssumption
  <2>2. receipts[m].sid \in Sessions \cup {NULL}
    BY <1>1, <2>1 DEF DInv, DeliveryTypeOK, Receipt
  <2>3. Tried(m)
    BY <2>2 DEF Tried, Asked
  <2>4. Marked(client.saved, m)
    BY <1>1, <2>3 DEF DInv, MarksKept
  <2> QED BY <2>4 DEF Marked
<1> QED BY <1>1, DeliveryInvariance, PTL

\* Follow-ups of a draft share the conversation its first message opened, however
\* early they were composed (the session that HandOff passes on in the queue).
THEOREM ConversationsShared == DeliverySpec => []FollowUpsShareSession
<1>1. ASSUME DInv PROVE FollowUpsShareSession
  <2> SUFFICES ASSUME NEW m \in Msgs, NEW n \in Msgs,
                      Opens(m), m # n, Scope[m] = Scope[n],
                      told[m] = {"accepted"}, ~receipts[m].error, receipts[m].session # NULL,
                      receipts[n] # NULL, receipts[n].session # NULL
               PROVE  receipts[n].session = receipts[m].session
    BY DEF FollowUpsShareSession
  <2>1. Good(m) /\ ~Lost(m)
    BY DEF Good, Spoilt, Lost
  <2>2. receipts[m] # NULL
    BY <1>1 DEF DInv, Acceptances, Backed
  <2>3. receipts[n].session = m
    BY <1>1, <2>1, ConversationShared
  <2>4. receipts[m].session = m
    BY <1>1, <2>1, <2>2, ConversationShared
  <2> QED BY <2>3, <2>4
<1> QED BY <1>1, DeliveryInvariance, PTL
=============================================================================
