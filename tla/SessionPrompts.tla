--------------------------- MODULE SessionPrompts ---------------------------
(***************************************************************************)
(* Scheduled prompts and messages between sessions: the store              *)
(* (server/session-prompt-store.ts), the scheduler                         *)
(* (server/session-prompt-service.ts), the port that hands a prompt to the *)
(* ordinary command owner (server/session-prompt-dispatch.ts), and the     *)
(* removal of a session, which has to settle them first                    *)
(* (server/session-resource-removal.ts, protocol/session-removal-store.ts).*)
(*                                                                         *)
(* Timers and deliveries are rows of the event database and survive a      *)
(* crash; so do the receipts of the command owner, which alone say whether *)
(* a prompt was admitted.  The sweep, its dispatches and the removals in   *)
(* progress are in memory.  What runs between two awaits is one step.      *)
(*                                                                         *)
(* A timer's revision is only ever compared with the one a delivery was    *)
(* reserved under, so a delivery carries whether its timer has moved on.   *)
(***************************************************************************)
EXTENDS Integers, Sequences, FiniteSets, FiniteSetsExt, SequencesExt

CONSTANTS
    Sessions,
    Timers,
    Sources,         \* what creates timers: sessions, or NULL for a user
    Limits,          \* run limits users give, NULL for none
    NULL,
    PageSize,        \* pending deliveries one sweep looks at
    MaxDeliveries,   \* bound: deliveries ever reserved
    MaxChanges,      \* bound: changes users make to timers
    MaxRemovals,     \* bound: removals of a session begun
    MaxCrashes       \* bound: deaths of the server

ASSUME PromptAssumption ==
    /\ NULL \notin Sessions \cup Timers \cup Nat
    /\ Sources \subseteq Sessions \cup {NULL}
    /\ Limits \subseteq (Nat \ {0}) \cup {NULL}
    /\ PageSize \in Nat \ {0}
    /\ {MaxDeliveries, MaxChanges, MaxRemovals, MaxCrashes} \subseteq Nat

VARIABLES
    store,       \* the rows of timers and of deliveries
    closed,      \* sessions no prompt may come from or go to
    removal,     \* the rows of sessions being removed
    receipts,    \* what the command owner retains of each delivery
    sweep,       \* what the running sweep has still to process, per recipient
    sending,     \* the dispatch under way, per recipient
    page,        \* the store's cursor over pending deliveries
    clearing,    \* sessions whose removal is being prepared
    spent        \* changes, removals and crashes so far

rows == <<store, closed, removal>>
memory == <<sweep, sending, page, clearing>>
vars == <<store, closed, removal, receipts, sweep, sending, page,
          clearing, spent>>

Ids == 1 .. MaxDeliveries
Outstanding == {"pending", "dispatching", "uncertain"}

Timer == [session : Sessions, source : Sources,
          status : {"active", "paused", "blocked", "cancelled", "completed"},
          next : {"none", "later", "due"},      \* nextRunAt
          runs : Nat, limit : Nat \cup {NULL},  \* runCount, maxRuns
          delivery : Ids \cup {NULL}]
Delivery == [timer : Timers \cup {NULL}, manual : BOOLEAN, moved : BOOLEAN,
             sender : Sessions \cup {NULL}, recipient : Sessions,
             state : Outstanding \cup {"accepted", "failed", "cancelled"}]
Dispatch == [id : Ids, pc : {"inspect", "prepare", "admit"}, aborted : BOOLEAN]

ASSUME NoRow == NULL \notin Timer \cup Dispatch

timers == store.timers           \* NULL before they are created
deliveries == store.deliveries   \* in the order of their reservation

Of(t) == {d \in DOMAIN deliveries : deliveries[d].timer = t}
In(states) == {d \in DOMAIN deliveries : deliveries[d].state \in states}
Touches(d, s) == s \in {deliveries[d].sender, deliveries[d].recipient}

\* Fault: a removal does not wait for the dispatches it aborts.
InFlightForgotten == {}

InFlight == {sending[s].id : s \in {r \in Sessions : sending[r] # NULL}}

-----------------------------------------------------------------------------
(* Transactions of the store, as functions of what it holds.               *)

Check(timer, t, manual) ==
    [timer |-> t, manual |-> manual, moved |-> FALSE, sender |-> timer.source,
     recipient |-> timer.session, state |-> "pending"]

\* reserve() notes the revision the timer has now.
Reserved(tables, t, manual) ==
    [timers |-> [tables.timers EXCEPT ![t].delivery = Len(tables.deliveries) + 1],
     deliveries |-> Append(tables.deliveries, Check(tables.timers[t], t, manual))]

\* A run is counted; the last one completes the timer.
Ran(timer) ==
    LET last == /\ timer.status # "cancelled" /\ timer.limit # NULL
                /\ timer.runs + 1 >= timer.limit
    IN  [timer EXCEPT !.runs = @ + 1, !.delivery = NULL,
                      !.status = IF last THEN "completed" ELSE @,
                      !.next = IF last THEN "none"
                               ELSE IF timer.status = "active" THEN "later" ELSE @]

Blocked(timer) ==
    IF timer.status = "active"
      THEN [timer EXCEPT !.status = "blocked", !.next = "none"] ELSE timer

\* Fault: an uncertain delivery gives its timer up for another.
EndedLettingGo(timer, outcome) ==
    IF outcome = "accepted" THEN Ran(timer) ELSE [Blocked(timer) EXCEPT !.delivery = NULL]

\* A timer after its delivery: a failed one gives it up for another, an uncertain
\* one keeps hold of it.
Ended(timer, outcome) ==
    CASE outcome = "accepted" -> Ran(timer)
      [] outcome = "failed" -> [Blocked(timer) EXCEPT !.delivery = NULL]
      [] OTHER -> Blocked(timer)

\* finish() of some deliveries, `outcome' giving each its new state; an accepted
\* or cancelled one is final.  No two of them have the same timer: a timer has
\* one delivery outstanding.
Finished(tables, outcome) ==
    LET ended == {d \in DOMAIN outcome :
                     tables.deliveries[d].state \notin {"accepted", "cancelled"}}
        of(t) == {d \in ended : tables.deliveries[d].timer = t}
    IN  [timers |-> [t \in Timers |->
            IF of(t) = {} THEN tables.timers[t]
            ELSE Ended(tables.timers[t], outcome[CHOOSE d \in of(t) : TRUE])],
         deliveries |-> [d \in DOMAIN tables.deliveries |->
            LET delivery == tables.deliveries[d]
            IN  [delivery EXCEPT
                   !.moved = @ \/ (delivery.timer # NULL /\ of(delivery.timer) # {}),
                   !.state = IF d \in ended THEN outcome[d] ELSE @]]]

\* What assertDeliveryCurrent() holds a delivery to.
CurrentIn(tables, d) ==
    LET delivery == tables.deliveries[d]
        t == delivery.timer
    IN  /\ {delivery.sender, delivery.recipient} \cap closed = {}
        /\ delivery.state \in {"pending", "dispatching"}
        /\ t # NULL =>
             /\ ~delivery.moved
             /\ \/ tables.timers[t].status = "active"
                \/ delivery.manual /\ tables.timers[t].status = "paused"

Current(d) == CurrentIn(store, d)

-----------------------------------------------------------------------------
(* What users and agents ask for.  A request retried under its identifier  *)
(* returns the stored result and changes nothing.                          *)

\* A delivery under way for a timer that has changed is told to stop.
Aborting(stopped) ==
    sending' = [s \in Sessions |->
                  IF sending[s] # NULL /\ sending[s].id \in stopped
                    THEN [sending[s] EXCEPT !.aborted = TRUE] ELSE sending[s]]

\* A timer that starts immediately is one whose first interval passes at once.
CreateTimer(t, session, source, limit) ==
    /\ timers[t] = NULL
    /\ {session, source} \cap closed = {}
    /\ store' = [store EXCEPT !.timers[t] =
                    [session |-> session, source |-> source, status |-> "active", next |-> "later",
                     runs |-> 0, limit |-> limit, delivery |-> NULL]]
    /\ UNCHANGED <<closed, removal, receipts, memory, spent>>

SendMessage(sender, recipient) ==
    /\ sender # recipient
    /\ {sender, recipient} \cap closed = {}
    /\ Len(deliveries) < MaxDeliveries
    /\ store' = [store EXCEPT !.deliveries = Append(@,
          [timer |-> NULL, manual |-> FALSE, moved |-> FALSE, sender |-> sender,
           recipient |-> recipient, state |-> "pending"])]
    /\ UNCHANGED <<closed, removal, receipts, memory, spent>>

Previous(t) == LET d == timers[t].delivery IN IF d = NULL THEN "none" ELSE deliveries[d].state

\* change() saves the timer under a new revision, after its action.
Change(t, tables) ==
    /\ spent.changes < MaxChanges
    /\ spent' = [spent EXCEPT !.changes = @ + 1]
    /\ store' = tables
    /\ Aborting({d \in Of(t) : ~CurrentIn(tables, d)})
    /\ UNCHANGED <<closed, removal, receipts, sweep, page, clearing>>

Changeable(t) == timers[t] # NULL /\ timers[t].status \notin {"cancelled", "completed"}

\* The tables once a change has withdrawn an intent nobody admitted yet and saved
\* the timer, as `timer', under a new revision.
Withdrawn(t, timer) ==
    LET withdrawn == IF Previous(t) = "pending" THEN {timers[t].delivery} ELSE {}
    IN  [timers |-> [timers EXCEPT ![t] = IF withdrawn = {} THEN timer
                                          ELSE [timer EXCEPT !.delivery = NULL]],
         deliveries |-> [d \in DOMAIN deliveries |->
            [deliveries[d] EXCEPT !.moved = @ \/ deliveries[d].timer = t,
                                  !.state = IF d \in withdrawn THEN "cancelled" ELSE @]]]

Halt(t, status) ==
    /\ Changeable(t)
    /\ Change(t, Withdrawn(t, [timers[t] EXCEPT !.status = status, !.next = "none"]))

\* While the fate of a delivery is open a timer can only be paused or cancelled.
Settled(t) == Previous(t) \notin {"dispatching", "uncertain"}

UpdateTimer(t, limit) ==
    /\ Changeable(t) /\ Settled(t)
    /\ limit # NULL => limit > timers[t].runs
    /\ Change(t, Withdrawn(t,
          [timers[t] EXCEPT !.limit = limit,
                            !.next = IF timers[t].status = "active" THEN "later" ELSE @]))

\* Resuming replaces a pending check by one under the new revision.
Resume(t) ==
    LET resumed == Withdrawn(t, [timers[t] EXCEPT !.status = "active", !.next = "later"])
    IN  /\ Changeable(t) /\ Settled(t)
        /\ timers[t].status # "active"
        /\ IF Previous(t) = "pending"
             THEN /\ Len(deliveries) < MaxDeliveries
                  /\ Change(t, Reserved(resumed, t, deliveries[timers[t].delivery].manual))
             ELSE Change(t, resumed)

\* Nothing is pending then, so nothing is withdrawn.
RunNow(t) ==
    /\ Changeable(t) /\ Previous(t) \notin Outstanding
    /\ timers[t].status \in {"active", "paused"}
    /\ Len(deliveries) < MaxDeliveries
    /\ Change(t, Reserved(Withdrawn(t, timers[t]), t, TRUE))

-----------------------------------------------------------------------------
(* The scheduler: one sweep at a time, every five seconds.                 *)

Idle == \A s \in Sessions : sweep[s] = {} /\ sending[s] = NULL

\* What earlier sweeps or an earlier server left open is settled by receipts
\* alone; evidence that cannot be read is uncertainty.
Reconciled(unreadable) ==
    LET admitted == {d \in In({"dispatching", "uncertain"}) \ unreadable :
                        receipts[d] = "consumed"}
    IN  Finished(store, [d \in admitted \cup In({"dispatching"}) |->
                            IF d \in admitted THEN "accepted" ELSE "uncertain"])

\* Every timer that is due gets one delivery, however many intervals passed, in
\* whatever order the table has them.
Orders(tables) ==
    LET due == {t \in Timers : /\ tables.timers[t] # NULL
                               /\ tables.timers[t].status = "active"
                               /\ tables.timers[t].next = "due"
                               /\ tables.timers[t].delivery = NULL}
        room == MaxDeliveries - Len(tables.deliveries)
    IN  {order \in SeqOf(due, room) :
            /\ IsInjective(order)
            /\ Range(order) = due \/ Len(order) = room}

Scheduled(tables, order) ==
    [timers |-> [t \in Timers |->
        IF t \in Range(order)
          THEN [tables.timers[t] EXCEPT !.delivery = Len(tables.deliveries)
                                     + (CHOOSE i \in DOMAIN order : order[i] = t)]
          ELSE tables.timers[t]],
     deliveries |-> tables.deliveries \o
        [i \in DOMAIN order |-> Check(tables.timers[order[i]], order[i], FALSE)]]

\* The rows of one sweep: the first PageSize pending ones after the cursor, none
\* newer than the boundary fixed when the cursor last started over.
Rows(pending, from) ==
    LET ahead == {d \in pending : from.cursor < d /\ d <= from.boundary}
    IN  {d \in ahead : Cardinality({e \in ahead : e < d}) < PageSize}

\* Fault: every sweep reads from the first pending row.
ReadingFromStart(pending) == [cursor |-> 0, boundary |-> Max(pending \cup {0})]

\* The cursor starts over at the end of its page run, or when nothing is ahead.
Reading(pending) ==
    IF page.cursor >= page.boundary \/ Rows(pending, page) = {}
      THEN [cursor |-> 0, boundary |-> Max(pending \cup {0})] ELSE page

\* Deliveries of a timer that was stopped meanwhile are passed over.
Passed(tables, taken, s) ==
    {d \in taken :
        LET delivery == tables.deliveries[d]
            t == delivery.timer
        IN  /\ delivery.recipient = s
            /\ \/ t = NULL
               \/ tables.timers[t].status \in {"active", "blocked"}
               \/ delivery.manual /\ tables.timers[t].status = "paused"}

BeginSweep ==
    /\ Idle
    /\ \E unreadable \in SUBSET In({"dispatching", "uncertain"}) :
       \E reconciled \in {Reconciled(unreadable)} :
       \E order \in Orders(reconciled) :
       \E tables \in {Scheduled(reconciled, order)} :
         LET pending == {d \in DOMAIN tables.deliveries : tables.deliveries[d].state = "pending"}
         IN  /\ store' = tables
             /\ \E from \in {Reading(pending)} : \E taken \in {Rows(pending, from)} :
                  /\ page' = [from EXCEPT !.cursor = IF taken = {} THEN from.boundary
                                                     ELSE Max(taken)]
                  /\ sweep' = [s \in Sessions |-> Passed(tables, taken, s)]
    /\ UNCHANGED <<closed, removal, receipts, sending, clearing, spent>>

-----------------------------------------------------------------------------
(* One delivery, between its awaits.                                       *)

\* A recipient takes no prompt while an earlier one is open.
Open(s) == \E d \in DOMAIN deliveries :
              deliveries[d].recipient = s /\ receipts[d] = "reserved"

Finish(s, outcome) ==
    /\ store' = Finished(store, [d \in {sending[s].id} |-> outcome])
    /\ sending' = [sending EXCEPT ![s] = NULL]

Begin(s) ==
    LET d == Min(sweep[s])
    IN  /\ sending[s] = NULL
        /\ sweep[s] # {}
        /\ sweep' = [sweep EXCEPT ![s] = @ \ {d}]
        /\ IF Current(d)
             THEN /\ sending' = [sending EXCEPT ![s] =
                                   [id |-> d, pc |-> "inspect", aborted |-> FALSE]]
                  /\ UNCHANGED store
             ELSE /\ store' = Finished(store, [e \in {d} |-> "failed"])
                  /\ UNCHANGED sending
        /\ UNCHANGED <<closed, removal, receipts, page, clearing, spent>>

Awaits(s, pc) == sending[s] # NULL /\ sending[s].pc = pc

\* What the dispatch asks again after each await.
StillCurrent(s) == ~sending[s].aborted /\ Current(sending[s].id)

Answered(s) == Awaits(s, "inspect") /\ StillCurrent(s) /\ removal[s] = "none"

\* The recipient is free: claim the delivery.
Inspected(s) ==
    /\ Answered(s) /\ ~Open(s)
    /\ sending' = [sending EXCEPT ![s].pc = "prepare"]
    /\ store' = [store EXCEPT !.deliveries[sending[s].id].state = "dispatching"]
    /\ UNCHANGED <<closed, removal, receipts, sweep, page, clearing, spent>>

\* It is busy, with an open prompt or a turn of its own: the delivery waits on.
Postponed(s) ==
    /\ Answered(s)
    /\ sending' = [sending EXCEPT ![s] = NULL]
    /\ UNCHANGED <<rows, receipts, sweep, page, clearing, spent>>

\* Nothing was claimed yet, so nothing can have been admitted.
Refused(s) ==
    /\ Awaits(s, "inspect")
    /\ Finish(s, "failed")
    /\ UNCHANGED <<closed, removal, receipts, sweep, page, clearing, spent>>

\* The port has loaded what it needs and hands the prompt to the command owner.
Prepared(s) ==
    /\ Awaits(s, "prepare")
    /\ StillCurrent(s)
    /\ removal[s] = "none"
    /\ sending' = [sending EXCEPT ![s].pc = "admit"]
    /\ UNCHANGED <<store, closed, removal, receipts, sweep, page,
                   clearing, spent>>

\* The owner's admission transaction refuses a recipient that is being removed;
\* whether it still notices an abort is left open.
Admit(s) ==
    /\ Awaits(s, "admit")
    /\ removal[s] = "none"
    /\ receipts[sending[s].id] = "absent"
    /\ receipts' = [receipts EXCEPT ![sending[s].id] = "reserved"]
    /\ UNCHANGED <<store, closed, removal, memory, spent>>

Delivered(s) ==
    /\ Awaits(s, "admit")
    /\ receipts[sending[s].id] = "consumed"
    /\ Finish(s, "accepted")
    /\ UNCHANGED <<closed, removal, receipts, sweep, page, clearing, spent>>

\* Fault: unreadable evidence gets a state of its own.
EvidenceUnread(d, readable) ==
    CASE ~readable -> "unread"
      [] receipts[d] = "absent" -> "absent"
      [] receipts[d] = "reserved" -> "uncertain"
      [] OTHER -> "accepted"

\* Fault: an open admission counts as none.
EvidenceOfConsumed(d, readable) ==
    IF readable /\ receipts[d] = "consumed" THEN "accepted" ELSE "absent"

Evidence(d, readable) ==
    CASE ~readable \/ receipts[d] = "reserved" -> "uncertain"
      [] receipts[d] = "consumed" -> "accepted"
      [] OTHER -> "absent"

\* An error after the claim: the receipt decides what became of the prompt.
Rejected(s) ==
    /\ sending[s] # NULL /\ sending[s].pc \in {"prepare", "admit"}
    /\ \E readable \in BOOLEAN :
         LET found == Evidence(sending[s].id, readable)
         IN  Finish(s, IF found = "absent" THEN "failed" ELSE found)
    /\ UNCHANGED <<closed, removal, receipts, sweep, page, clearing, spent>>

Dispatches(s) ==
    \/ Begin(s) \/ Inspected(s) \/ Postponed(s) \/ Refused(s) \/ Prepared(s) \/ Admit(s)
    \/ Delivered(s) \/ Rejected(s)

-----------------------------------------------------------------------------
(* Removing a session.                                                     *)

\* The removal's row, the closed mark and the cancellations, all in one turn of
\* the event loop; then the dispatches under way are aborted and awaited.
Prepare(s) ==
    LET touching == {d \in DOMAIN deliveries : Touches(d, s)}
        stopped == {t \in Timers : /\ Changeable(t)
                                   /\ s \in {timers[t].session, timers[t].source}}
    IN  /\ removal[s] \in {"none", "closing", "failed", "prepared"}
        /\ s \notin clearing
        /\ spent.removals < MaxRemovals
        /\ spent' = [spent EXCEPT !.removals = @ + 1]
        /\ removal' = [removal EXCEPT ![s] = IF @ = "prepared" THEN @ ELSE "closing"]
        /\ closed' = closed \cup {s}
        /\ store' = [timers |-> [t \in Timers |->
                        IF t \in stopped
                          THEN [timers[t] EXCEPT !.status = "cancelled", !.next = "none"]
                          ELSE timers[t]],
                     deliveries |-> [d \in DOMAIN deliveries |->
                        [deliveries[d] EXCEPT
                           !.moved = @ \/ deliveries[d].timer \in stopped,
                           !.state = IF d \in touching /\ @ = "pending"
                                     THEN "cancelled" ELSE @]]]
        /\ Aborting(touching)
        /\ clearing' = clearing \cup {s}
        /\ UNCHANGED <<receipts, sweep, page>>

\* Whatever is still open is settled by its receipt; an open admission, or a
\* runtime that cannot be shown to have stopped, fails the preparation.
PrepareEnds(s) ==
    LET open == {d \in In({"dispatching", "uncertain"}) : Touches(d, s)}
    IN  /\ s \in clearing
        /\ ~\E d \in InFlight : Touches(d, s)
        /\ \E unreadable \in SUBSET open, stopped \in BOOLEAN :
             LET found(d) == Evidence(d, d \notin unreadable)
                 uncertain == \E d \in open : found(d) = "uncertain"
             IN  /\ store' = Finished(store, [d \in open |->
                                IF found(d) = "absent" THEN "failed" ELSE found(d)])
                 /\ removal' = [removal EXCEPT ![s] =
                                  IF uncertain \/ ~stopped THEN "failed" ELSE "prepared"]
        /\ clearing' = clearing \ {s}
        /\ UNCHANGED <<closed, receipts, sweep, sending, page, spent>>

\* Releasing the session's resources has started, or is done: no way back.
Release(s) ==
    /\ s \notin clearing
    /\ removal[s] = "prepared"
    /\ removal' = [removal EXCEPT ![s] = "released"]
    /\ UNCHANGED <<store, closed, receipts, memory, spent>>

\* The user keeps the session after all: it may be prompted again, but nothing
\* that was cancelled comes back.
Keep(s) ==
    /\ s \notin clearing
    /\ removal[s] \in {"closing", "failed", "prepared"}
    /\ removal' = [removal EXCEPT ![s] = "none"]
    /\ closed' = closed \ {s}
    /\ UNCHANGED <<store, receipts, memory, spent>>

-----------------------------------------------------------------------------
(* Time, the command owner, and the death of the server.                   *)

Elapse(t) ==
    /\ timers[t] # NULL /\ timers[t].next = "later"
    /\ store' = [store EXCEPT !.timers[t].next = "due"]
    /\ UNCHANGED <<closed, removal, receipts, memory, spent>>

\* The command owner dispatches an admitted prompt to its session.
Consume(d) ==
    /\ receipts[d] = "reserved"
    /\ receipts' = [receipts EXCEPT ![d] = "consumed"]
    /\ UNCHANGED <<rows, memory, spent>>

Forgotten ==
    /\ sweep' = [s \in Sessions |-> {}]
    /\ sending' = [s \in Sessions |-> NULL]
    /\ page' = [cursor |-> 0, boundary |-> 0]
    /\ clearing' = {}

Crash ==
    /\ spent.crashes < MaxCrashes
    /\ spent' = [spent EXCEPT !.crashes = @ + 1]
    /\ Forgotten
    /\ UNCHANGED <<rows, receipts>>

Init ==
    /\ store = [timers |-> [t \in Timers |-> NULL], deliveries |-> <<>>]
    /\ closed = {}
    /\ removal = [s \in Sessions |-> "none"]
    /\ receipts = [d \in Ids |-> "absent"]
    /\ sweep = [s \in Sessions |-> {}]
    /\ sending = [s \in Sessions |-> NULL]
    /\ page = [cursor |-> 0, boundary |-> 0]
    /\ clearing = {}
    /\ spent = [changes |-> 0, removals |-> 0, crashes |-> 0]

Ask ==
    \/ \E t \in Timers, s \in Sessions, source \in Sources, limit \in Limits :
          CreateTimer(t, s, source, limit)
    \/ \E s, r \in Sessions : SendMessage(s, r)
    \/ \E t \in Timers, status \in {"paused", "cancelled"} : Halt(t, status)
    \/ \E t \in Timers, limit \in Limits : UpdateTimer(t, limit)
    \/ \E t \in Timers : Resume(t) \/ RunNow(t)
    \/ \E s \in Sessions : Prepare(s) \/ Release(s) \/ Keep(s)

Serve ==
    \/ \E s \in Sessions : Dispatches(s) \/ PrepareEnds(s)
    \/ BeginSweep

Next ==
    \/ Ask
    \/ Serve
    \/ \E t \in Timers : Elapse(t)
    \/ \E d \in Ids : Consume(d)
    \/ Crash

\* The clock ticks for ever, and every await of a dispatch returns.
PromptSpec == Init /\ [][Next]_vars /\ WF_vars(Serve)

-----------------------------------------------------------------------------
PromptTypeOK ==
    /\ store \in [timers : [Timers -> Timer \cup {NULL}], deliveries : Seq(Delivery)]
    /\ Len(deliveries) <= MaxDeliveries
    /\ closed \subseteq Sessions
    /\ removal \in [Sessions -> {"none", "closing", "failed", "prepared", "released"}]
    /\ receipts \in [Ids -> {"absent", "reserved", "consumed"}]
    /\ sweep \in [Sessions -> SUBSET Ids]
    /\ sending \in [Sessions -> Dispatch \cup {NULL}]
    /\ page \in [cursor : 0 .. MaxDeliveries, boundary : 0 .. MaxDeliveries]
    /\ clearing \subseteq Sessions
    /\ spent \in [changes : 0 .. MaxChanges, removals : 0 .. MaxRemovals,
                  crashes : 0 .. MaxCrashes]

\* A timer never runs its prompt more often than it may, whatever was paused,
\* resumed, asked for by hand or left open by a crash: the admissions its
\* deliveries obtained stay within its limit.
AdmittedWithinLimit ==
    \A t \in Timers : timers[t] # NULL /\ timers[t].limit # NULL =>
        Cardinality({d \in Of(t) : receipts[d] # "absent"}) <= timers[t].limit

\* What the user is told did not run did not run: a delivery reported failed or
\* cancelled was never admitted, and never will be.
FailedNeverRan ==
    \A d \in In({"failed", "cancelled"}) : receipts[d] = "absent"

\* A session whose removal is prepared has no prompt of unknown fate, from it or
\* to it, and gets none while its resources are released.
RemovalSettles ==
    \A s \in Sessions : removal[s] \in {"prepared", "released"} =>
        \A d \in In(Outstanding) : ~Touches(d, s)

\* What waits for a recipient is taken up unless it is found busy for ever: no
\* page of the sweep is filled for ever by other recipients.
Drained ==
    \A s \in Sessions :
        \/ []<>(\A d \in In({"pending"}) : deliveries[d].recipient # s)
        \/ []<><<Postponed(s)>>_vars
=============================================================================
