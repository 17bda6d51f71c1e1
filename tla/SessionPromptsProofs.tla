------------------------ MODULE SessionPromptsProofs ------------------------
(***************************************************************************)
(* Proofs about SessionPrompts, for all values of its constants: types,    *)
(* run limits, that what is reported failed never ran, and that a removal  *)
(* settles what it found.                                                  *)
(*                                                                         *)
(* The invariant has two parts: what the tables say, with the receipts and *)
(* the sessions being removed (Sound), and what the sweep and the          *)
(* dispatches under way may rely on (Process).  A transaction of the store *)
(* is a function on the tables, so Sound speaks of any tables.             *)
(***************************************************************************)
EXTENDS SessionPrompts, Extrema, FiniteSetTheorems, SequenceTheorems

-----------------------------------------------------------------------------
(* The inductive invariant.                                                *)

Live == {"active", "paused", "blocked"}
Final == {"accepted", "failed", "cancelled"}

Typed(T) ==
    /\ T \in [timers : [Timers -> Timer \cup {NULL}], deliveries : Seq(Delivery)]
    /\ Len(T.deliveries) <= MaxDeliveries
    /\ \A t \in Timers : T.timers[t] \in Timer =>
          T.timers[t].delivery = NULL \/ T.timers[t].delivery \in DOMAIN T.deliveries

Waits(T, d) == T.deliveries[d].state \in Outstanding
OwnerOf(T, d) == T.deliveries[d].timer

\* A timer has at most one delivery outstanding, the one it names.
Held(T) ==
    \A d \in DOMAIN T.deliveries :
        OwnerOf(T, d) # NULL =>
            /\ T.timers[OwnerOf(T, d)] \in Timer
            /\ Waits(T, d) => T.timers[OwnerOf(T, d)].delivery = d

AcceptedOf(T, t) ==
    {d \in DOMAIN T.deliveries : OwnerOf(T, d) = t /\ T.deliveries[d].state = "accepted"}

WaitingFor(T, t) == \E d \in DOMAIN T.deliveries : OwnerOf(T, d) = t /\ Waits(T, d)

\* Runs are counted as they are accepted, and one more is still allowed while a
\* timer lives or a delivery of it is open.
Counted(T) ==
    \A t \in Timers : T.timers[t] \in Timer =>
        T.timers[t].runs = Cardinality(AcceptedOf(T, t))

Limited(T) ==
    \A t \in Timers : T.timers[t] \in Timer /\ T.timers[t].limit # NULL =>
        /\ T.timers[t].runs <= T.timers[t].limit
        /\ T.timers[t].status \in Live \/ WaitingFor(T, t) => T.timers[t].runs < T.timers[t].limit

\* What the receipts R say of the deliveries.
Evident(T, R) ==
    /\ \A d \in Ids : R[d] # "absent" =>
          /\ d \in DOMAIN T.deliveries
          /\ T.deliveries[d].state \in {"dispatching", "uncertain", "accepted"}
    /\ \A d \in DOMAIN T.deliveries : T.deliveries[d].state = "accepted" => R[d] = "consumed"

Concerns(T, d, s) == s \in {T.deliveries[d].sender, T.deliveries[d].recipient}

\* Nothing new starts for the closed sessions C.
Quiet(T, C) ==
    /\ \A d \in DOMAIN T.deliveries, s \in C :
          Concerns(T, d, s) => T.deliveries[d].state # "pending"
    /\ \A t \in Timers, s \in C :
          T.timers[t] \in Timer /\ s \in {T.timers[t].session, T.timers[t].source} =>
              T.timers[t].status \notin Live

\* Nothing is open for the sessions whose removal, in M, is prepared.
Resolved(T, M) ==
    \A d \in DOMAIN T.deliveries, s \in Sessions :
        M[s] \in {"prepared", "released"} /\ Concerns(T, d, s) => ~Waits(T, d)

Sound(T, R, C, M) ==
    /\ Typed(T) /\ Held(T) /\ Counted(T) /\ Limited(T)
    /\ Evident(T, R) /\ Quiet(T, C) /\ Resolved(T, M)

\* What the sweep has still to process, and what is being dispatched, is nobody
\* else's; a claimed delivery stays claimed.
Queued ==
    \A s \in Sessions : \A d \in sweep[s] :
        /\ d \in DOMAIN deliveries
        /\ deliveries[d].recipient = s
        /\ deliveries[d].state \in {"pending", "cancelled"}
        /\ sending[s] # NULL => sending[s].id # d

InHand ==
    \A s \in Sessions : sending[s] # NULL =>
        /\ sending[s].id \in DOMAIN deliveries
        /\ deliveries[sending[s].id].recipient = s
        /\ sending[s].pc = "inspect" => deliveries[sending[s].id].state \in {"pending", "cancelled"}
        /\ sending[s].pc \in {"prepare", "admit"} => deliveries[sending[s].id].state = "dispatching"

Closing ==
    /\ \A s \in Sessions : removal[s] # "none" => s \in closed
    /\ \A s \in clearing : removal[s] # "none"

IInv ==
    /\ PromptTypeOK
    /\ Sound(store, receipts, closed, removal)
    /\ Queued /\ InHand /\ Closing

-----------------------------------------------------------------------------
(* Rewriting rows: no delivery is added, none changes its parties.         *)

\* How a delivery d may change, given its receipt.
Advances(from, to, receipt) ==
    \/ to = from
    \/ /\ from \in Outstanding /\ to # "pending"
       /\ to \in {"failed", "cancelled"} => receipt = "absent"
       /\ to = "accepted" => receipt = "consumed"

SameParties(T, U) ==
    /\ DOMAIN U.deliveries = DOMAIN T.deliveries
    /\ \A d \in DOMAIN T.deliveries :
          /\ U.deliveries[d].timer = T.deliveries[d].timer
          /\ U.deliveries[d].sender = T.deliveries[d].sender
          /\ U.deliveries[d].recipient = T.deliveries[d].recipient

\* How a timer may change: it stays who it is and never comes back to life; it
\* lets its delivery go only when it is not open.
Keeps(T, U, t) ==
    /\ T.timers[t] = NULL => U.timers[t] = NULL
    /\ T.timers[t] \in Timer =>
         /\ U.timers[t] \in Timer
         /\ U.timers[t].session = T.timers[t].session
         /\ U.timers[t].source = T.timers[t].source
         /\ U.timers[t].status \in Live => T.timers[t].status \in Live
         /\ U.timers[t].delivery = T.timers[t].delivery \/ ~WaitingFor(U, t)
         /\ U.timers[t].runs = Cardinality(AcceptedOf(U, t))
         /\ U.timers[t].limit # NULL =>
              /\ U.timers[t].runs <= U.timers[t].limit
              /\ \/ U.timers[t].status \in Live
                 \/ WaitingFor(U, t)
                 => U.timers[t].runs < U.timers[t].limit

LEMMA Rewritten ==
    ASSUME NEW T, NEW U, NEW R, NEW C, NEW M,
           Sound(T, R, C, M), Typed(U), SameParties(T, U),
           \A d \in DOMAIN T.deliveries :
               Advances(T.deliveries[d].state, U.deliveries[d].state, R[d]),
           \A t \in Timers : Keeps(T, U, t)
    PROVE  Sound(U, R, C, M)
<1>d. /\ DOMAIN U.deliveries = DOMAIN T.deliveries
      /\ \A d \in DOMAIN T.deliveries : T.deliveries[d] \in Delivery /\ U.deliveries[d] \in Delivery
      /\ \A d \in DOMAIN T.deliveries : Waits(U, d) => Waits(T, d)
      /\ \A d \in DOMAIN T.deliveries : OwnerOf(U, d) = OwnerOf(T, d)
      /\ \A d \in DOMAIN T.deliveries : \A s : Concerns(U, d, s) <=> Concerns(T, d, s)
  BY DEF Sound, Typed, SameParties, Advances, Waits, OwnerOf, Concerns
<1>t. \A t \in Timers : T.timers[t] \in Timer <=> U.timers[t] \in Timer
  BY NoRow DEF Keeps, Typed, Sound
<1>o. \A d \in DOMAIN T.deliveries : OwnerOf(T, d) # NULL => OwnerOf(T, d) \in Timers
  BY <1>d DEF Delivery, OwnerOf
<1>1. Held(U)
  BY <1>d, <1>t, <1>o DEF Sound, Held, Keeps, WaitingFor
<1>2. Counted(U)
  BY <1>t DEF Counted, Keeps
<1>3. Limited(U)
  BY <1>t DEF Limited, Keeps
<1>4. Evident(U, R)
  BY <1>d DEF Sound, Evident, Advances, Outstanding, Delivery
<1>5. Quiet(U, C)
  BY <1>d, <1>t DEF Sound, Quiet, Advances, Keeps
<1>6. Resolved(U, M)
  BY <1>d DEF Sound, Resolved
<1> QED BY <1>1, <1>2, <1>3, <1>4, <1>5, <1>6 DEF Sound
\* A table that only grows by pending deliveries: each has no timer, or one that
\* lives, has none open, and now names it.
Grows(T, U, C) ==
    /\ DOMAIN T.deliveries \subseteq DOMAIN U.deliveries
    /\ \A d \in DOMAIN T.deliveries : U.deliveries[d] = T.deliveries[d]
    /\ \A d \in DOMAIN U.deliveries \ DOMAIN T.deliveries :
          /\ U.deliveries[d].state = "pending"
          /\ \A s \in C : ~Concerns(U, d, s)
          /\ OwnerOf(U, d) # NULL =>
               /\ T.timers[OwnerOf(U, d)] \in Timer
               /\ T.timers[OwnerOf(U, d)].status \in Live
               /\ ~WaitingFor(T, OwnerOf(U, d))
               /\ U.timers[OwnerOf(U, d)].delivery = d
    /\ \A t \in Timers :
          /\ T.timers[t] = NULL => U.timers[t] = NULL
          /\ T.timers[t] \in Timer =>
               /\ U.timers[t] \in Timer
               /\ U.timers[t].session = T.timers[t].session
               /\ U.timers[t].source = T.timers[t].source
               /\ U.timers[t].status = T.timers[t].status
               /\ U.timers[t].limit = T.timers[t].limit
               /\ U.timers[t].runs = T.timers[t].runs
               /\ U.timers[t].delivery = T.timers[t].delivery \/ ~WaitingFor(T, t)

LEMMA Grown ==
    ASSUME NEW T, NEW U, NEW R, NEW C, NEW M,
           Sound(T, R, C, M), Typed(U), Grows(T, U, C),
           \A s \in Sessions : M[s] # "none" => s \in C
    PROVE  Sound(U, R, C, M)
<1> DEFINE new == DOMAIN U.deliveries \ DOMAIN T.deliveries
<1>d. /\ DOMAIN U.deliveries \subseteq Ids
      /\ \A d \in DOMAIN U.deliveries : U.deliveries[d] \in Delivery
      /\ \A d \in DOMAIN T.deliveries : T.deliveries[d] \in Delivery
      /\ \A d \in DOMAIN T.deliveries : d \in DOMAIN U.deliveries
  BY PromptAssumption DEF Sound, Typed, Grows, Ids
<1>e. /\ \A d \in DOMAIN T.deliveries : (Waits(U, d) <=> Waits(T, d)) /\ OwnerOf(U, d) = OwnerOf(T, d)
      /\ \A d \in DOMAIN T.deliveries : \A s : Concerns(U, d, s) <=> Concerns(T, d, s)
      /\ \A d \in new : U.deliveries[d].state = "pending"
  BY DEF Grows, Waits, OwnerOf, Concerns
<1>o. \A d \in DOMAIN U.deliveries : OwnerOf(U, d) # NULL => OwnerOf(U, d) \in Timers
  BY <1>d DEF Delivery, OwnerOf
<1>t. \A t \in Timers : T.timers[t] \in Timer <=> U.timers[t] \in Timer
  BY NoRow DEF Grows, Typed, Sound
<1>1. Held(U)
  <2> SUFFICES ASSUME NEW d \in DOMAIN U.deliveries, OwnerOf(U, d) # NULL
               PROVE  /\ U.timers[OwnerOf(U, d)] \in Timer
                      /\ Waits(U, d) => U.timers[OwnerOf(U, d)].delivery = d
    BY DEF Held
  <2>1. CASE d \in DOMAIN T.deliveries
    BY <2>1, <1>e, <1>o, <1>t DEF Sound, Held, Grows, WaitingFor
  <2>2. CASE d \in new
    BY <2>2, <1>o, <1>t DEF Grows
  <2> QED BY <2>1, <2>2
<1>a. \A t \in Timers : AcceptedOf(U, t) = AcceptedOf(T, t)
  BY <1>d, <1>e DEF AcceptedOf, Grows, OwnerOf
<1>2. Counted(U)
  BY <1>a, <1>t DEF Sound, Counted, Grows
<1>w. ASSUME NEW t \in Timers, T.timers[t] \in Timer, WaitingFor(U, t)
      PROVE  WaitingFor(T, t) \/ T.timers[t].status \in Live
  <2>1. PICK d \in DOMAIN U.deliveries : OwnerOf(U, d) = t /\ Waits(U, d)
    BY <1>w DEF WaitingFor
  <2>2. t # NULL
    BY PromptAssumption
  <2> QED BY <2>1, <2>2, <1>e DEF WaitingFor, Grows
<1>3. Limited(U)
  BY <1>w, <1>t DEF Sound, Limited, Grows
<1>4. Evident(U, R)
  BY <1>d, <1>e DEF Sound, Evident, Grows
<1>5. Quiet(U, C)
  <2>1. \A d \in DOMAIN U.deliveries, s \in C : Concerns(U, d, s) => U.deliveries[d].state # "pending"
    BY <1>e DEF Sound, Quiet, Grows
  <2>2. \A t \in Timers, s \in C :
          U.timers[t] \in Timer /\ s \in {U.timers[t].session, U.timers[t].source} =>
              U.timers[t].status \notin Live
    BY <1>t DEF Sound, Quiet, Grows
  <2> QED BY <2>1, <2>2 DEF Quiet
<1>6. Resolved(U, M)
  BY <1>e DEF Sound, Resolved, Grows
<1> QED BY <1>1, <1>2, <1>3, <1>4, <1>5, <1>6 DEF Sound

-----------------------------------------------------------------------------
(* finish().                                                               *)

Outcomes == {"accepted", "failed", "uncertain"}

\* What finish() does to a timer.
LEMMA EndedTimer ==
    ASSUME NEW u \in Timer, NEW o \in Outcomes
    PROVE  /\ Ended(u, o) \in Timer
           /\ Ended(u, o).session = u.session
           /\ Ended(u, o).source = u.source
           /\ Ended(u, o).limit = u.limit
           /\ Ended(u, o).status \in Live => u.status \in Live
           /\ Ended(u, o).delivery \in {u.delivery, NULL}
           /\ o = "uncertain" => Ended(u, o).delivery = u.delivery
           /\ o = "accepted" =>
                /\ Ended(u, o).runs = u.runs + 1
                /\ u.limit # NULL /\ u.runs + 1 >= u.limit => Ended(u, o).status \notin Live
           /\ o # "accepted" => Ended(u, o).runs = u.runs
<1>1. CASE o = "accepted"
  <2> DEFINE last == /\ u.status # "cancelled" /\ u.limit # NULL
                     /\ u.runs + 1 >= u.limit
             status == IF last THEN "completed" ELSE u.status
             next == IF last THEN "none" ELSE IF u.status = "active" THEN "later" ELSE u.next
  <2>1. Ended(u, o) = [u EXCEPT !.runs = u.runs + 1, !.delivery = NULL,
                                !.status = status, !.next = next]
    BY <1>1 DEF Ended, Ran
  <2>2. /\ status \in {"active", "paused", "blocked", "cancelled", "completed"}
        /\ next \in {"none", "later", "due"}
        /\ u.runs + 1 \in Nat
        /\ status \in Live => u.status \in Live
        /\ u.limit # NULL /\ u.runs + 1 >= u.limit => status \notin Live
    BY DEF Timer, Live
  <2> HIDE DEF status, next
  <2> QED BY <1>1, <2>1, <2>2 DEF Timer
<1>2. CASE o = "failed"
  BY <1>2 DEF Ended, Blocked, Timer, Live
<1>3. CASE o = "uncertain"
  BY <1>3 DEF Ended, Blocked, Timer, Live
<1> QED BY <1>1, <1>2, <1>3 DEF Outcomes
\* Which outcomes finish() may be given: an open delivery gets what its receipt
\* says of it, a final one keeps its state.
Warranted(T, R, outcome) ==
    /\ DOMAIN outcome \subseteq DOMAIN T.deliveries
    /\ \A d \in DOMAIN outcome :
          /\ outcome[d] \in Outcomes
          /\ T.deliveries[d].state # "failed"
          /\ Waits(T, d) => /\ outcome[d] = "accepted" => R[d] = "consumed"
                            /\ outcome[d] = "failed" => R[d] = "absent"

\* A set of deliveries of one timer that are open has the one it names.
LEMMA OneOpen ==
    ASSUME NEW T, Held(T), NEW t \in Timers, NEW S \in SUBSET DOMAIN T.deliveries,
           S # {}, \A d \in S : OwnerOf(T, d) = t /\ Waits(T, d)
    PROVE  /\ S = {T.timers[t].delivery} /\ (CHOOSE d \in S : TRUE) = T.timers[t].delivery
           /\ T.timers[t] \in Timer
<1>1. t # NULL
  BY PromptAssumption
<1>2. \A d \in S : T.timers[t] \in Timer /\ T.timers[t].delivery = d
  BY <1>1 DEF Held
<1>3. S = {T.timers[t].delivery}
  BY <1>2
<1> QED BY <1>2, <1>3

\* What finish() does to the deliveries.
LEMMA FinishedRows ==
    ASSUME NEW T, NEW R, NEW outcome, Typed(T), Warranted(T, R, outcome)
    PROVE  LET U == Finished(T, outcome)
           IN  /\ U.deliveries \in Seq(Delivery) /\ Len(U.deliveries) = Len(T.deliveries)
               /\ SameParties(T, U)
               /\ \A d \in DOMAIN T.deliveries :
                     U.deliveries[d].state =
                        IF d \in DOMAIN outcome /\ Waits(T, d) THEN outcome[d]
                        ELSE T.deliveries[d].state
<1> DEFINE U == Finished(T, outcome)
           ended == {d \in DOMAIN outcome : T.deliveries[d].state \notin {"accepted", "cancelled"}}
           of(t) == {d \in ended : T.deliveries[d].timer = t}
           row(d) == [T.deliveries[d] EXCEPT
                        !.moved = @ \/ (T.deliveries[d].timer # NULL
                                        /\ of(T.deliveries[d].timer) # {}),
                        !.state = IF d \in ended THEN outcome[d] ELSE @]
<1>1. U.deliveries = [d \in DOMAIN T.deliveries |-> row(d)]
  BY DEF Finished
<1>2. \A d \in DOMAIN T.deliveries : T.deliveries[d] \in Delivery
  BY DEF Typed
<1>3. \A d \in DOMAIN T.deliveries : d \in ended <=> d \in DOMAIN outcome /\ Waits(T, d)
  BY <1>2 DEF Warranted, Waits, Outstanding, Delivery
<1>4. ASSUME NEW d \in DOMAIN T.deliveries
      PROVE  /\ row(d) \in Delivery
             /\ row(d).timer = T.deliveries[d].timer
             /\ row(d).sender = T.deliveries[d].sender
             /\ row(d).recipient = T.deliveries[d].recipient
             /\ row(d).state = IF d \in ended THEN outcome[d] ELSE T.deliveries[d].state
  <2> DEFINE moved == T.deliveries[d].moved \/ (T.deliveries[d].timer # NULL
                                        /\ of(T.deliveries[d].timer) # {})
             state == IF d \in ended THEN outcome[d] ELSE T.deliveries[d].state
  <2>1. row(d) = [T.deliveries[d] EXCEPT !.moved = moved, !.state = state]
    OBVIOUS
  <2>2. moved \in BOOLEAN /\ state \in Outstanding \cup {"accepted", "failed", "cancelled"}
    BY <1>2 DEF Delivery, Warranted, Outcomes, Outstanding
  <2> HIDE DEF moved, row
  <2> QED BY <1>2, <2>1, <2>2 DEF Delivery
<1> HIDE DEF row, ended, U
<1>5. U.deliveries \in Seq(Delivery) /\ Len(U.deliveries) = Len(T.deliveries)
      /\ DOMAIN U.deliveries = DOMAIN T.deliveries
  BY <1>1, <1>4 DEF Typed
<1> QED BY <1>1, <1>3, <1>4, <1>5 DEF SameParties, U

LEMMA FinishedSound ==
    ASSUME NEW T, NEW R, NEW C, NEW M, NEW outcome,
           Sound(T, R, C, M), Warranted(T, R, outcome)
    PROVE  Sound(Finished(T, outcome), R, C, M)
<1> DEFINE U == Finished(T, outcome)
           ended == {d \in DOMAIN outcome : T.deliveries[d].state \notin {"accepted", "cancelled"}}
           of(t) == {d \in ended : T.deliveries[d].timer = t}
<1>d. /\ U.deliveries \in Seq(Delivery) /\ Len(U.deliveries) = Len(T.deliveries)
      /\ SameParties(T, U)
      /\ \A d \in DOMAIN T.deliveries :
            U.deliveries[d].state =
               IF d \in DOMAIN outcome /\ Waits(T, d) THEN outcome[d] ELSE T.deliveries[d].state
  BY FinishedRows DEF Sound
<1>r. \A d \in DOMAIN T.deliveries : T.deliveries[d] \in Delivery
  BY DEF Sound, Typed
<1>e. ended \subseteq DOMAIN T.deliveries
      /\ \A d \in DOMAIN T.deliveries : d \in ended <=> d \in DOMAIN outcome /\ Waits(T, d)
  BY <1>r DEF Warranted, Waits, Outstanding, Delivery
<1>u. U.timers = [t \in Timers |->
            IF of(t) = {} THEN T.timers[t]
            ELSE Ended(T.timers[t], outcome[CHOOSE d \in of(t) : TRUE])]
      /\ DOMAIN U = {"timers", "deliveries"}
      /\ U = [timers |-> U.timers, deliveries |-> U.deliveries]
  BY DEF Finished
<1>o. ASSUME NEW t \in Timers, of(t) # {}
      PROVE  LET d == T.timers[t].delivery
             IN  /\ T.timers[t] \in Timer
                 /\ of(t) = {d} /\ d \in DOMAIN T.deliveries
                 /\ d \in DOMAIN outcome /\ Waits(T, d) /\ OwnerOf(T, d) = t
                 /\ outcome[d] \in Outcomes
                 /\ U.timers[t] = Ended(T.timers[t], outcome[d])
  <2>1. \A d \in of(t) : OwnerOf(T, d) = t /\ Waits(T, d)
    BY <1>e DEF OwnerOf
  <2>2. of(t) \in SUBSET DOMAIN T.deliveries
    BY <1>e
  <2> HIDE DEF ended
  <2>3. Held(T)
    BY DEF Sound
  <2>4. /\ of(t) = {T.timers[t].delivery} /\ (CHOOSE d \in of(t) : TRUE) = T.timers[t].delivery
        /\ T.timers[t] \in Timer
    <3> HIDE DEF of
    <3> QED BY <1>o, <2>1, <2>2, <2>3, OneOpen
  <2>5. T.timers[t].delivery \in of(t)
    BY <2>4
  <2>6. U.timers[t] = Ended(T.timers[t], outcome[T.timers[t].delivery])
    <3> HIDE DEF of
    <3> QED BY <1>o, <1>u, <2>4
  <2> QED BY <1>e, <2>1, <2>2, <2>4, <2>5, <2>6 DEF ended, Warranted
<1>n. \A t \in Timers : of(t) = {} => U.timers[t] = T.timers[t]
  BY <1>u
<1> HIDE DEF U, ended
<1>a. ASSUME NEW t \in Timers, of(t) = {}
      PROVE  /\ AcceptedOf(U, t) = AcceptedOf(T, t)
             /\ WaitingFor(U, t) <=> WaitingFor(T, t)
  <2>1. \A d \in DOMAIN T.deliveries : OwnerOf(T, d) = t => U.deliveries[d].state = T.deliveries[d].state
    BY <1>a, <1>d, <1>e DEF OwnerOf
  <2> QED BY <2>1, <1>d DEF AcceptedOf, WaitingFor, OwnerOf, Waits, SameParties
<1>1. Typed(U)
  <2>1. \A t \in Timers : U.timers[t] \in Timer \cup {NULL}
    BY <1>o, <1>n, EndedTimer DEF Sound, Typed
  <2>2. ASSUME NEW t \in Timers, U.timers[t] \in Timer
        PROVE  U.timers[t].delivery = NULL \/ U.timers[t].delivery \in DOMAIN U.deliveries
    <3>1. DOMAIN U.deliveries = DOMAIN T.deliveries
      BY <1>d DEF SameParties
    <3>2. CASE of(t) = {}
      BY <1>n, <2>2, <3>1, <3>2 DEF Sound, Typed
    <3>3. CASE of(t) # {}
      BY <1>o, <3>1, <3>3, EndedTimer
    <3> QED BY <3>2, <3>3
  <2> QED BY <1>d, <1>u, <2>1, <2>2 DEF Sound, Typed
<1>2. \A d \in DOMAIN T.deliveries :
         Advances(T.deliveries[d].state, U.deliveries[d].state, R[d])
  BY <1>d DEF Advances, Warranted, Waits, Outcomes
<1>3. ASSUME NEW t \in Timers PROVE Keeps(T, U, t)
  <2>1. CASE of(t) = {}
    BY <1>a, <1>n, <2>1, NoRow DEF Sound, Keeps, Counted, Limited
  <2>2. CASE of(t) # {}
    <3> DEFINE u == T.timers[t]  d == u.delivery  o == outcome[d]  v == U.timers[t]
    <3>1. /\ u \in Timer /\ d \in DOMAIN T.deliveries /\ Waits(T, d) /\ OwnerOf(T, d) = t
          /\ o \in Outcomes /\ v = Ended(u, o) /\ U.deliveries[d].state = o
      BY <1>o, <1>d, <2>2
    <3>2. /\ v \in Timer /\ v.session = u.session /\ v.source = u.source /\ v.limit = u.limit
          /\ v.status \in Live => u.status \in Live
          /\ o = "uncertain" => v.delivery = u.delivery
          /\ o = "accepted" =>
               /\ v.runs = u.runs + 1
               /\ u.limit # NULL /\ u.runs + 1 >= u.limit => v.status \notin Live
          /\ o # "accepted" => v.runs = u.runs
      BY <3>1, EndedTimer
    <3>3. /\ u.runs = Cardinality(AcceptedOf(T, t)) /\ u.runs \in Nat
          /\ u.limit # NULL => u.runs < u.limit /\ u.limit \in Nat
      BY <3>1 DEF Sound, Counted, Limited, WaitingFor, Timer
    <3>4. \A e \in DOMAIN T.deliveries : OwnerOf(T, e) = t /\ Waits(T, e) => e = d
      BY <3>1, PromptAssumption DEF Sound, Held
    <3>5. \A e \in DOMAIN T.deliveries : OwnerOf(T, e) = t /\ e # d =>
             U.deliveries[e].state = T.deliveries[e].state /\ ~Waits(U, e)
      BY <1>d, <3>4 DEF Waits
    <3>6. WaitingFor(U, t) <=> o = "uncertain"
      BY <1>d, <3>1, <3>5 DEF WaitingFor, Waits, OwnerOf, SameParties, Outcomes, Outstanding
    <3>7. v.runs = Cardinality(AcceptedOf(U, t))
      <4>1. IsFiniteSet(AcceptedOf(T, t)) /\ d \notin AcceptedOf(T, t)
        <5>1. Len(T.deliveries) \in Nat /\ DOMAIN T.deliveries = 1 .. Len(T.deliveries)
          BY DEF Sound, Typed
        <5>2. IsFiniteSet(DOMAIN T.deliveries) /\ AcceptedOf(T, t) \subseteq DOMAIN T.deliveries
          BY <5>1, FS_Interval DEF AcceptedOf
        <5> QED BY <3>1, <5>2, FS_Subset DEF AcceptedOf, Waits, Outstanding
      <4>2. AcceptedOf(U, t) = IF o = "accepted" THEN AcceptedOf(T, t) \cup {d} ELSE AcceptedOf(T, t)
        BY <1>d, <3>1, <3>5 DEF AcceptedOf, OwnerOf, SameParties, Waits, Outstanding
      <4> QED BY <3>2, <3>3, <4>1, <4>2, FS_AddElement
    <3> HIDE DEF u, v, o, d
    <3> QED BY <3>1, <3>2, <3>3, <3>6, <3>7, NoRow DEF Keeps, u, v, Outcomes
  <2> QED BY <2>1, <2>2
<1> QED BY <1>d, <1>1, <1>2, <1>3, Rewritten DEF U
-----------------------------------------------------------------------------
(* Changes of timers.                                                      *)

\* One more delivery for a timer that lives and has none open.
LEMMA ReservedSound ==
    ASSUME NEW T, NEW R, NEW C, NEW M, NEW t \in Timers, NEW manual \in BOOLEAN,
           Sound(T, R, C, M), \A s \in Sessions : M[s] # "none" => s \in C,
           Len(T.deliveries) < MaxDeliveries,
           T.timers[t] \in Timer, T.timers[t].status \in Live, ~WaitingFor(T, t)
    PROVE  /\ Sound(Reserved(T, t, manual), R, C, M)
           /\ \A d \in DOMAIN T.deliveries :
                 /\ d \in DOMAIN Reserved(T, t, manual).deliveries
                 /\ Reserved(T, t, manual).deliveries[d] = T.deliveries[d]
<1> DEFINE U == Reserved(T, t, manual)
           n == Len(T.deliveries) + 1
           check == Check(T.timers[t], t, manual)
           u == [T.timers[t] EXCEPT !.delivery = n]
<1>1. n \in Ids /\ n \notin DOMAIN T.deliveries
  BY PromptAssumption DEF Sound, Typed, Ids
<1>2. check \in Delivery /\ check.timer = t /\ check.state = "pending"
      /\ check.sender = T.timers[t].source /\ check.recipient = T.timers[t].session
  BY PromptAssumption DEF Check, Delivery, Timer, Outstanding
<1>3. U.deliveries = Append(T.deliveries, check) /\ U.timers = [T.timers EXCEPT ![t] = u]
      /\ U = [timers |-> U.timers, deliveries |-> U.deliveries]
  BY DEF Reserved
<1>4. /\ u \in Timer /\ u.session = T.timers[t].session /\ u.source = T.timers[t].source
      /\ u.status = T.timers[t].status /\ u.limit = T.timers[t].limit
      /\ u.runs = T.timers[t].runs /\ u.delivery = n
  BY <1>1 DEF Timer
<1> HIDE DEF check, u, U
<1>5. /\ U.deliveries \in Seq(Delivery) /\ Len(U.deliveries) = n
      /\ DOMAIN U.deliveries = DOMAIN T.deliveries \cup {n}
      /\ U.deliveries[n] = check
      /\ \A d \in DOMAIN T.deliveries : U.deliveries[d] = T.deliveries[d]
  BY <1>2, <1>3 DEF Sound, Typed
<1>6. Typed(U)
  <2>1. U.timers \in [Timers -> Timer \cup {NULL}]
    BY <1>3, <1>4 DEF Sound, Typed
  <2>2. n <= MaxDeliveries
    BY PromptAssumption DEF Sound, Typed
  <2>3. ASSUME NEW x \in Timers, U.timers[x] \in Timer
        PROVE  U.timers[x].delivery = NULL \/ U.timers[x].delivery \in DOMAIN U.deliveries
    <3>1. CASE x = t
      BY <1>3, <1>4, <1>5, <3>1 DEF Sound, Typed
    <3>2. CASE x # t
      BY <1>3, <1>5, <2>3, <3>2 DEF Sound, Typed
    <3> QED BY <3>1, <3>2
  <2> HIDE DEF n
  <2> QED BY <1>3, <1>5, <2>1, <2>2, <2>3 DEF Typed
<1>7. Grows(T, U, C)
  <2>1. ASSUME NEW d \in DOMAIN U.deliveries \ DOMAIN T.deliveries
        PROVE  /\ U.deliveries[d].state = "pending"
               /\ \A s \in C : ~Concerns(U, d, s)
               /\ OwnerOf(U, d) # NULL =>
                    /\ T.timers[OwnerOf(U, d)] \in Timer
                    /\ T.timers[OwnerOf(U, d)].status \in Live
                    /\ ~WaitingFor(T, OwnerOf(U, d))
                    /\ U.timers[OwnerOf(U, d)].delivery = d
    <3>1. d = n
      BY <1>5
    <3>2. \A s \in C : s # T.timers[t].session /\ s # T.timers[t].source
      BY DEF Sound, Quiet
    <3>3. U.timers[t].delivery = n
      BY <1>3, <1>4 DEF Sound, Typed
    <3> QED BY <1>2, <1>5, <3>1, <3>2, <3>3 DEF Concerns, OwnerOf
  <2>2. \A x \in Timers : U.timers[x] = IF x = t THEN u ELSE T.timers[x]
    BY <1>3 DEF Sound, Typed
  <2>3. T.timers[t] # NULL
    BY NoRow
  <2> QED BY <1>4, <1>5, <2>1, <2>2, <2>3 DEF Grows
<1>8. Sound(U, R, C, M)
  BY <1>6, <1>7, Grown
<1> QED BY <1>5, <1>8 DEF U

\* Tables whose deliveries are those of the store, some of them withdrawn.
Withdraws(W) ==
    /\ Len(W.deliveries) = Len(deliveries)
    /\ DOMAIN W.deliveries = DOMAIN deliveries
    /\ \A d \in DOMAIN deliveries :
          /\ W.deliveries[d].recipient = deliveries[d].recipient
          /\ \/ W.deliveries[d].state = deliveries[d].state
             \/ deliveries[d].state = "pending" /\ W.deliveries[d].state = "cancelled"

\* A change saves a timer that stays who it is, counts what it counted and is not
\* brought back to life; what nobody admitted yet is withdrawn.
LEMMA WithdrawnSound ==
    ASSUME NEW R, NEW C, NEW M, NEW t \in Timers, NEW u \in Timer,
           Sound(store, R, C, M), timers[t] \in Timer,
           u.session = timers[t].session, u.source = timers[t].source,
           u.runs = timers[t].runs, u.delivery = timers[t].delivery,
           u.status \in Live => timers[t].status \in Live,
           u.limit # NULL => u.limit = timers[t].limit \/ u.runs < u.limit
    PROVE  LET W == Withdrawn(t, u)
           IN  /\ Sound(W, R, C, M)
               /\ Withdraws(W)
               /\ W.timers[t] \in Timer /\ W.timers[t].status = u.status
               /\ Previous(t) \in {"dispatching", "uncertain"} \/ ~WaitingFor(W, t)
<1> DEFINE W == Withdrawn(t, u)
           withdrawn == IF Previous(t) = "pending" THEN {timers[t].delivery} ELSE {}
           v == IF withdrawn = {} THEN u ELSE [u EXCEPT !.delivery = NULL]
           row(d) == [deliveries[d] EXCEPT !.moved = @ \/ deliveries[d].timer = t,
                                  !.state = IF d \in withdrawn THEN "cancelled" ELSE @]
<1>s. /\ timers \in [Timers -> Timer \cup {NULL}] /\ deliveries \in Seq(Delivery)
      /\ Len(deliveries) <= MaxDeliveries
      /\ store.timers = timers /\ store.deliveries = deliveries
  BY DEF Sound, Typed, timers, deliveries
<1>1. /\ W.timers = [timers EXCEPT ![t] = v]
      /\ W.deliveries = [d \in DOMAIN deliveries |-> row(d)]
      /\ W = [timers |-> W.timers, deliveries |-> W.deliveries]
  BY DEF Withdrawn
<1>2. ASSUME NEW d \in DOMAIN deliveries
      PROVE  /\ row(d) \in Delivery
             /\ row(d).timer = deliveries[d].timer
             /\ row(d).sender = deliveries[d].sender
             /\ row(d).recipient = deliveries[d].recipient
             /\ row(d).state = IF d \in withdrawn THEN "cancelled" ELSE deliveries[d].state
  <2> DEFINE moved == deliveries[d].moved \/ deliveries[d].timer = t
             state == IF d \in withdrawn THEN "cancelled" ELSE deliveries[d].state
  <2>1. row(d) = [deliveries[d] EXCEPT !.moved = moved, !.state = state]
    OBVIOUS
  <2>2. deliveries[d] \in Delivery
    BY <1>s
  <2>3. moved \in BOOLEAN /\ state \in Outstanding \cup {"accepted", "failed", "cancelled"}
    BY <2>2 DEF Delivery
  <2> HIDE DEF moved, row
  <2> QED BY <2>1, <2>2, <2>3 DEF Delivery
<1>3. /\ v \in Timer /\ v.session = u.session /\ v.source = u.source /\ v.status = u.status
      /\ v.runs = u.runs /\ v.limit = u.limit
      /\ v.delivery = IF withdrawn = {} THEN u.delivery ELSE NULL
  BY DEF Timer
<1>p. \A d \in withdrawn : d = timers[t].delivery /\ deliveries[d].state = "pending"
  BY DEF Previous
<1> HIDE DEF row, v, W, withdrawn
<1>4. /\ W.deliveries \in Seq(Delivery) /\ Len(W.deliveries) = Len(deliveries)
      /\ DOMAIN W.deliveries = DOMAIN deliveries
  BY <1>s, <1>1, <1>2
<1>5. \A d \in DOMAIN deliveries :
         /\ OwnerOf(W, d) = OwnerOf(store, d)
         /\ W.deliveries[d].state = IF d \in withdrawn THEN "cancelled" ELSE deliveries[d].state
  BY <1>s, <1>1, <1>2 DEF OwnerOf
<1>6. Typed(W)
  <2>1. W.timers \in [Timers -> Timer \cup {NULL}]
    BY <1>s, <1>1, <1>3
  <2>2. ASSUME NEW x \in Timers, W.timers[x] \in Timer
        PROVE  W.timers[x].delivery = NULL \/ W.timers[x].delivery \in DOMAIN W.deliveries
    <3>1. CASE x = t
      BY <1>s, <1>1, <1>3, <1>4, <3>1 DEF Sound, Typed
    <3>2. CASE x # t
      BY <1>s, <1>1, <1>4, <2>2, <3>2 DEF Sound, Typed
    <3> QED BY <3>1, <3>2
  <2> QED BY <1>s, <1>1, <1>4, <2>1, <2>2 DEF Typed
<1>7. SameParties(store, W)
  BY <1>s, <1>1, <1>2, <1>4 DEF SameParties
<1>8. \A d \in DOMAIN deliveries :
         /\ \/ W.deliveries[d].state = deliveries[d].state
            \/ deliveries[d].state = "pending" /\ W.deliveries[d].state = "cancelled"
         /\ Advances(deliveries[d].state, W.deliveries[d].state, R[d])
  <2> SUFFICES ASSUME NEW d \in DOMAIN deliveries, d \in withdrawn
               PROVE  deliveries[d].state = "pending" /\ R[d] = "absent"
    BY <1>5 DEF Advances, Outstanding
  <2>1. d \in Ids
    BY <1>s, PromptAssumption DEF Ids
  <2> QED BY <1>p, <1>s, <2>1 DEF Sound, Evident
<1>9. \A x \in Timers : AcceptedOf(W, x) = AcceptedOf(store, x)
  BY <1>s, <1>4, <1>5, <1>p DEF AcceptedOf
<1>w. \A x \in Timers : WaitingFor(W, x) => WaitingFor(store, x)
  BY <1>s, <1>4, <1>5, <1>p DEF WaitingFor, Waits, Outstanding
<1>v. Previous(t) \in {"dispatching", "uncertain"} \/ ~WaitingFor(W, t)
  <2> SUFFICES ASSUME NEW d \in DOMAIN deliveries, OwnerOf(W, d) = t, Waits(W, d)
               PROVE  Previous(t) \in {"dispatching", "uncertain"}
    BY <1>4 DEF WaitingFor
  <2>1. Waits(store, d) /\ d \notin withdrawn /\ OwnerOf(store, d) = t
    BY <1>s, <1>5, <1>p DEF Waits, Outstanding
  <2>2. timers[t].delivery = d /\ d # NULL
    BY <1>s, <2>1, PromptAssumption DEF Sound, Held
  <2>3. Previous(t) = deliveries[d].state
    BY <2>2 DEF Previous
  <2> QED BY <1>s, <2>1, <2>2, <2>3 DEF withdrawn, Waits, Outstanding
<1>k. ASSUME NEW x \in Timers PROVE Keeps(store, W, x)
  <2>1. CASE x # t
    <3>1. W.timers[x] = timers[x]
      BY <1>1, <1>s, <2>1
    <3> QED BY <1>s, <1>9, <1>w, <3>1, NoRow DEF Sound, Keeps, Counted, Limited
  <2>2. CASE x = t
    <3>1. W.timers[t] = v /\ timers[t] # NULL
      BY <1>1, <1>s, NoRow
    <3>2. v.runs = Cardinality(AcceptedOf(W, t))
      BY <1>s, <1>3, <1>9 DEF Sound, Counted
    <3>3. v.delivery = timers[t].delivery \/ ~WaitingFor(W, t)
      BY <1>3, <1>v DEF withdrawn
    <3>4. v.limit # NULL =>
              /\ v.runs <= v.limit
              /\ v.status \in Live \/ WaitingFor(W, t) => v.runs < v.limit
      BY <1>3, <1>s, <1>w DEF Sound, Limited, Timer
    <3> QED BY <1>s, <1>3, <2>2, <3>1, <3>2, <3>3, <3>4 DEF Keeps
  <2> QED BY <2>1, <2>2
<1>q. Sound(W, R, C, M)
  BY <1>s, <1>6, <1>7, <1>8, <1>k, Rewritten
<1>r. W.timers[t] = v
  BY <1>1, <1>s
<1> QED BY <1>s, <1>3, <1>4, <1>7, <1>8, <1>q, <1>r, <1>v DEF W, SameParties, Withdraws
-----------------------------------------------------------------------------
(* What is in use stays in use.                                            *)

Process == Queued /\ InHand

InUse(x, d) == d \in sweep[x] \/ (sending[x] # NULL /\ sending[x].id = d)

\* Nothing is taken up anew, and what stays in use is at most withdrawn before it
\* is claimed.
Released ==
    /\ \A x \in Sessions :
          /\ sweep'[x] \subseteq sweep[x]
          /\ sending'[x] # NULL => /\ sending[x] # NULL
                                   /\ sending'[x].id = sending[x].id
                                   /\ sending'[x].pc = sending[x].pc
    /\ \A d \in DOMAIN deliveries :
          /\ d \in DOMAIN deliveries'
          /\ deliveries'[d].recipient = deliveries[d].recipient
          /\ \/ deliveries'[d].state = deliveries[d].state
             \/ deliveries[d].state = "pending" /\ deliveries'[d].state = "cancelled"
             \/ \A x \in Sessions : ~InUse(x, d)'

LEMMA ReleasedKeepsProcess ==
    ASSUME Process, Released
    PROVE  Process'
<1>1. Queued'
  BY DEF Process, Queued, Released, InUse
<1>2. InHand'
  BY DEF Process, InHand, Released, InUse
<1> QED BY <1>1, <1>2 DEF Process

\* What IInv says of the variables.
LEMMA Stored ==
    ASSUME IInv
    PROVE  /\ store.timers = timers /\ store.deliveries = deliveries
           /\ timers \in [Timers -> Timer \cup {NULL}] /\ deliveries \in Seq(Delivery)
           /\ Len(deliveries) <= MaxDeliveries /\ MaxDeliveries \in Nat
           /\ DOMAIN deliveries = 1 .. Len(deliveries)
           /\ DOMAIN deliveries \subseteq Ids
           /\ \A d \in DOMAIN deliveries : deliveries[d] \in Delivery
           /\ Typed(store)
           /\ \A s \in Sessions : removal[s] # "none" => s \in closed
<1>1. /\ store.timers = timers /\ store.deliveries = deliveries
      /\ timers \in [Timers -> Timer \cup {NULL}] /\ deliveries \in Seq(Delivery)
      /\ Len(deliveries) <= MaxDeliveries /\ MaxDeliveries \in Nat
      /\ Typed(store)
  BY PromptAssumption DEF IInv, PromptTypeOK, timers, deliveries, Sound
<1>2. DOMAIN deliveries = 1 .. Len(deliveries) /\ Len(deliveries) \in Nat
      /\ \A d \in DOMAIN deliveries : deliveries[d] \in Delivery
  BY <1>1
<1>3. DOMAIN deliveries \subseteq Ids
  BY <1>1, <1>2 DEF Ids
<1> QED BY <1>1, <1>2, <1>3 DEF IInv, Closing

\* A step that leaves the receipts, the removals and the sweep alone.
LEMMA ReleasedKeepsIInv ==
    ASSUME IInv, Sound(store', receipts', closed', removal'), Released, Closing',
           closed' \subseteq Sessions,
           removal' \in [Sessions -> {"none", "closing", "failed", "prepared", "released"}],
           receipts' \in [Ids -> {"absent", "reserved", "consumed"}],
           sweep' \in [Sessions -> SUBSET Ids],
           sending' \in [Sessions -> Dispatch \cup {NULL}],
           page' \in [cursor : 0 .. MaxDeliveries, boundary : 0 .. MaxDeliveries],
           clearing' \subseteq Sessions,
           spent' \in [changes : 0 .. MaxChanges, removals : 0 .. MaxRemovals,
                       crashes : 0 .. MaxCrashes]
    PROVE  IInv'
<1>1. Process'
  BY ReleasedKeepsProcess DEF IInv, Process
<1>2. Sound(store, receipts, closed, removal)'
  OBVIOUS
<1>3. PromptTypeOK'
  BY DEF PromptTypeOK, Sound, Typed, deliveries
<1> QED BY <1>1, <1>2, <1>3 DEF IInv, Process
-----------------------------------------------------------------------------
(* What users and agents ask for.                                          *)

\* Telling dispatches to stop changes nothing else of them.
LEMMA AbortedTyped ==
    ASSUME PromptTypeOK, NEW stopped, Aborting(stopped)
    PROVE  /\ sending' \in [Sessions -> Dispatch \cup {NULL}]
           /\ \A x \in Sessions :
                 sending'[x] # NULL => /\ sending[x] # NULL
                                       /\ sending'[x].id = sending[x].id
                                       /\ sending'[x].pc = sending[x].pc
<1>1. \A x \in Sessions :
         sending[x] # NULL => /\ sending[x] \in Dispatch
                              /\ [sending[x] EXCEPT !.aborted = TRUE] \in Dispatch
                              /\ [sending[x] EXCEPT !.aborted = TRUE].id = sending[x].id
                              /\ [sending[x] EXCEPT !.aborted = TRUE].pc = sending[x].pc
  BY DEF PromptTypeOK, Dispatch
<1> QED BY <1>1 DEF Aborting, PromptTypeOK

\* A change of a timer that leaves the tables sound.
LEMMA ChangeKeeps ==
    ASSUME IInv, NEW t \in Timers, NEW tables, Change(t, tables),
           Sound(tables, receipts, closed, removal),
           \A d \in DOMAIN deliveries :
              /\ d \in DOMAIN tables.deliveries
              /\ tables.deliveries[d].recipient = deliveries[d].recipient
              /\ \/ tables.deliveries[d].state = deliveries[d].state
                 \/ deliveries[d].state = "pending" /\ tables.deliveries[d].state = "cancelled"
    PROVE  IInv'
<1>1. /\ store' = tables /\ deliveries' = tables.deliveries
      /\ UNCHANGED <<closed, removal, receipts, sweep, page, clearing>>
      /\ spent' = [spent EXCEPT !.changes = spent.changes + 1] /\ spent.changes < MaxChanges
  BY DEF Change, deliveries
<1>2. /\ sending' \in [Sessions -> Dispatch \cup {NULL}]
      /\ \A x \in Sessions :
            sending'[x] # NULL => /\ sending[x] # NULL
                                  /\ sending'[x].id = sending[x].id
                                  /\ sending'[x].pc = sending[x].pc
  <2> DEFINE stopped == {d \in Of(t) : ~CurrentIn(tables, d)}
  <2>1. Aborting(stopped)
    BY DEF Change
  <2> HIDE DEF stopped
  <2> QED BY <2>1, AbortedTyped DEF IInv
<1>3. Released
  BY <1>1, <1>2 DEF Released
<1>4. spent' \in [changes : 0 .. MaxChanges, removals : 0 .. MaxRemovals,
                  crashes : 0 .. MaxCrashes]
  BY <1>1, PromptAssumption DEF IInv, PromptTypeOK
<1>5. Closing'
  BY <1>1 DEF IInv, Closing
<1>6. Sound(store', receipts', closed', removal')
  BY <1>1
<1> HIDE DEF Released
<1> QED BY <1>1, <1>2, <1>3, <1>4, <1>5, <1>6, ReleasedKeepsIInv DEF IInv, PromptTypeOK

\* Whom a change applies to.
LEMMA Changed ==
    ASSUME IInv, NEW t \in Timers, Changeable(t)
    PROVE  /\ timers[t] \in Timer /\ timers[t].status \in Live
           /\ Sound(store, receipts, closed, removal)
           /\ timers[t].runs \in Nat /\ timers[t].limit \in Nat \cup {NULL}
           /\ timers[t].limit # NULL => timers[t].runs < timers[t].limit
<1>1. timers[t] \in Timer
  BY Stored DEF Changeable
<1>2. timers[t].status \in Live
  BY <1>1 DEF Changeable, Timer, Live
<1> QED BY <1>1, <1>2, Stored DEF IInv, Sound, Limited, Timer

LEMMA HaltKeeps ==
    ASSUME IInv, NEW t \in Timers, NEW status \in {"paused", "cancelled"}, Halt(t, status)
    PROVE  IInv'
<1>u. PICK u : u = [timers[t] EXCEPT !.status = status, !.next = "none"]
  OBVIOUS
<1> DEFINE W == Withdrawn(t, u)
<1>1. Changeable(t) /\ Change(t, W)
  BY <1>u DEF Halt
<1>2. u \in Timer /\ u.session = timers[t].session /\ u.source = timers[t].source
      /\ u.runs = timers[t].runs /\ u.delivery = timers[t].delivery /\ u.limit = timers[t].limit
  BY <1>1, <1>u, Changed DEF Timer
<1>3. /\ Sound(W, receipts, closed, removal)
      /\ Withdraws(W)
  <2>1. Sound(store, receipts, closed, removal) /\ timers[t] \in Timer /\ timers[t].status \in Live
    BY <1>1, Changed
  <2> QED BY <1>2, <2>1, WithdrawnSound
<1> QED BY <1>1, <1>3, ChangeKeeps DEF Withdraws

LEMMA UpdateKeeps ==
    ASSUME IInv, NEW t \in Timers, NEW limit \in Limits, UpdateTimer(t, limit)
    PROVE  IInv'
<1> DEFINE next == IF timers[t].status = "active" THEN "later" ELSE timers[t].next
<1>u. PICK u : u = [timers[t] EXCEPT !.limit = limit, !.next = next]
  OBVIOUS
<1> DEFINE W == Withdrawn(t, u)
<1>1. Changeable(t) /\ Change(t, W) /\ (limit # NULL => limit > timers[t].runs)
  BY <1>u DEF UpdateTimer
<1>n. next \in {"none", "later", "due"} /\ limit \in Nat \cup {NULL}
  BY <1>1, Changed, PromptAssumption DEF Timer
<1> HIDE DEF next
<1>2. u \in Timer /\ u.session = timers[t].session /\ u.source = timers[t].source
      /\ u.runs = timers[t].runs /\ u.delivery = timers[t].delivery /\ u.limit = limit
      /\ u.status = timers[t].status
  BY <1>1, <1>n, <1>u, Changed DEF Timer
<1>l. u.limit # NULL => u.runs < u.limit
  BY <1>1, <1>2, <1>n, Changed
<1>3. /\ Sound(W, receipts, closed, removal)
      /\ Withdraws(W)
  <2>1. Sound(store, receipts, closed, removal) /\ timers[t] \in Timer /\ timers[t].status \in Live
    BY <1>1, Changed
  <2> QED BY <1>2, <1>l, <2>1, WithdrawnSound
<1> QED BY <1>1, <1>3, ChangeKeeps DEF Withdraws

\* Tables with one more delivery than sound ones a change has produced.
LEMMA ReservedKeeps ==
    ASSUME IInv, NEW t \in Timers, NEW manual \in BOOLEAN, NEW W,
           Change(t, Reserved(W, t, manual)), Len(deliveries) < MaxDeliveries,
           Sound(W, receipts, closed, removal), Withdraws(W),
           W.timers[t] \in Timer, W.timers[t].status \in Live, ~WaitingFor(W, t)
    PROVE  IInv'
<1>1. /\ Sound(Reserved(W, t, manual), receipts, closed, removal)
      /\ \A d \in DOMAIN W.deliveries :
            /\ d \in DOMAIN Reserved(W, t, manual).deliveries
            /\ Reserved(W, t, manual).deliveries[d] = W.deliveries[d]
  BY Stored, ReservedSound DEF Withdraws
<1> QED BY <1>1, ChangeKeeps DEF Withdraws

LEMMA ResumeKeeps ==
    ASSUME IInv, NEW t \in Timers, Resume(t)
    PROVE  IInv'
<1>u. PICK u : u = [timers[t] EXCEPT !.status = "active", !.next = "later"]
  OBVIOUS
<1> DEFINE W == Withdrawn(t, u)
           manual == deliveries[timers[t].delivery].manual
<1>1. /\ Changeable(t) /\ Settled(t)
      /\ \/ /\ Previous(t) = "pending" /\ Len(deliveries) < MaxDeliveries
            /\ Change(t, Reserved(W, t, manual))
         \/ Change(t, W)
  BY <1>u DEF Resume
<1>2. u \in Timer /\ u.session = timers[t].session /\ u.source = timers[t].source
      /\ u.runs = timers[t].runs /\ u.delivery = timers[t].delivery /\ u.limit = timers[t].limit
      /\ u.status = "active"
  BY <1>1, <1>u, Changed DEF Timer
<1>3. /\ Sound(W, receipts, closed, removal)
      /\ Withdraws(W)
      /\ W.timers[t] \in Timer /\ W.timers[t].status = u.status
      /\ Previous(t) \in {"dispatching", "uncertain"} \/ ~WaitingFor(W, t)
  <2>1. Sound(store, receipts, closed, removal) /\ timers[t] \in Timer /\ timers[t].status \in Live
    BY <1>1, Changed
  <2> QED BY <1>2, <2>1, WithdrawnSound
<1>4. ~WaitingFor(W, t) /\ W.timers[t].status \in Live
  BY <1>1, <1>2, <1>3 DEF Settled, Live
<1> HIDE DEF W
<1>5. CASE Change(t, W)
  BY <1>3, <1>5, ChangeKeeps DEF Withdraws
<1>6. CASE /\ Previous(t) = "pending" /\ Len(deliveries) < MaxDeliveries
           /\ Change(t, Reserved(W, t, manual))
  <2>1. PICK b \in BOOLEAN : Change(t, Reserved(W, t, b))
    <3>1. timers[t].delivery \in DOMAIN deliveries
      BY <1>1, <1>6, Changed, Stored DEF Typed, Previous
    <3>2. manual \in BOOLEAN
      BY <3>1, Stored DEF Delivery
    <3> QED BY <1>6, <3>2
  <2> QED BY <1>3, <1>4, <1>6, <2>1, ReservedKeeps
<1> QED BY <1>1, <1>5, <1>6

LEMMA RunNowKeeps ==
    ASSUME IInv, NEW t \in Timers, RunNow(t)
    PROVE  IInv'
<1> DEFINE W == Withdrawn(t, timers[t])
<1>1. /\ Changeable(t) /\ Previous(t) \notin Outstanding /\ Len(deliveries) < MaxDeliveries
      /\ Change(t, Reserved(W, t, TRUE))
  BY DEF RunNow
<1>2. /\ Sound(W, receipts, closed, removal)
      /\ Withdraws(W)
      /\ W.timers[t] \in Timer /\ W.timers[t].status = timers[t].status
      /\ Previous(t) \in {"dispatching", "uncertain"} \/ ~WaitingFor(W, t)
  BY <1>1, Changed, WithdrawnSound
<1>3. ~WaitingFor(W, t) /\ W.timers[t].status \in Live
  BY <1>1, <1>2, Changed DEF Outstanding
<1> HIDE DEF W
<1> QED BY <1>1, <1>2, <1>3, ReservedKeeps

\* A step that only changes tables, and no delivery they hold.
LEMMA TablesKeep ==
    ASSUME IInv, UNCHANGED <<closed, removal, receipts, memory, spent>>,
           Sound(store', receipts, closed, removal),
           \A d \in DOMAIN deliveries :
              d \in DOMAIN deliveries' /\ deliveries'[d] = deliveries[d]
    PROVE  IInv'
<1>1. Released
  BY DEF Released, memory
<1>2. Closing'
  BY DEF IInv, Closing, memory
<1>3. Sound(store', receipts', closed', removal')
  OBVIOUS
<1> HIDE DEF Released
<1> QED BY <1>1, <1>2, <1>3, ReleasedKeepsIInv DEF IInv, PromptTypeOK, memory

LEMMA CreateTimerKeeps ==
    ASSUME IInv, NEW t \in Timers, NEW session \in Sessions, NEW source \in Sources,
           NEW limit \in Limits, CreateTimer(t, session, source, limit)
    PROVE  IInv'
<1>u. PICK u : u = [session |-> session, source |-> source, status |-> "active",
                    next |-> "later", runs |-> 0, limit |-> limit, delivery |-> NULL]
  OBVIOUS
<1>1. /\ u \in Timer /\ u.session = session /\ u.source = source /\ u.runs = 0
      /\ u.limit = limit /\ u.delivery = NULL
      /\ limit # NULL => limit > 0 /\ limit \in Nat
  BY <1>u, PromptAssumption DEF Timer
<1>2. /\ timers[t] = NULL /\ session \notin closed /\ source \notin closed
      /\ store' = [store EXCEPT !.timers[t] = u]
      /\ UNCHANGED <<closed, removal, receipts, memory, spent>>
  BY <1>u DEF CreateTimer
<1>3. /\ timers' = [timers EXCEPT ![t] = u] /\ deliveries' = deliveries
      /\ store' = [timers |-> timers', deliveries |-> deliveries']
      /\ store'.timers = timers' /\ store'.deliveries = deliveries'
      /\ timers' \in [Timers -> Timer \cup {NULL}]
      /\ \A x \in Timers : timers'[x] = IF x = t THEN u ELSE timers[x]
  BY <1>1, <1>2, Stored DEF Typed, timers, deliveries
<1>4. \A d \in DOMAIN deliveries : deliveries[d].timer # t
  BY <1>2, Stored, NoRow, PromptAssumption DEF IInv, Sound, Held, OwnerOf
<1>5. AcceptedOf(store', t) = {} /\ ~WaitingFor(store', t)
  BY <1>3, <1>4 DEF AcceptedOf, WaitingFor, OwnerOf
<1>6. \A x \in Timers : /\ AcceptedOf(store', x) = AcceptedOf(store, x)
                        /\ WaitingFor(store', x) <=> WaitingFor(store, x)
  BY <1>3, Stored DEF AcceptedOf, WaitingFor, OwnerOf, Waits
<1>7. Typed(store')
  BY <1>1, <1>3, Stored DEF Typed
<1>8. Held(store')
  BY <1>2, <1>3, <1>4, Stored DEF IInv, Sound, Held, OwnerOf, Waits, Delivery
<1>9. Counted(store')
  BY <1>1, <1>3, <1>5, <1>6, FS_EmptySet, Stored DEF IInv, Sound, Counted
<1>10. Limited(store')
  BY <1>1, <1>3, <1>5, <1>6, Stored DEF IInv, Sound, Limited
<1>11. Evident(store', receipts) /\ Quiet(store', closed) /\ Resolved(store', removal)
  BY <1>1, <1>2, <1>3, Stored DEF IInv, Sound, Evident, Quiet, Resolved, Concerns, Waits
<1> QED BY <1>2, <1>3, <1>7, <1>8, <1>9, <1>10, <1>11, TablesKeep DEF Sound

LEMMA SendMessageKeeps ==
    ASSUME IInv, NEW sender \in Sessions, NEW recipient \in Sessions,
           SendMessage(sender, recipient)
    PROVE  IInv'
<1>u. PICK u : u = [timer |-> NULL, manual |-> FALSE, moved |-> FALSE, sender |-> sender,
                    recipient |-> recipient, state |-> "pending"]
  OBVIOUS
<1>1. /\ u \in Delivery /\ u.timer = NULL /\ u.sender = sender /\ u.recipient = recipient
      /\ u.state = "pending"
  BY <1>u DEF Delivery, Outstanding
<1>2. /\ Len(deliveries) < MaxDeliveries /\ sender \notin closed /\ recipient \notin closed
      /\ store' = [store EXCEPT !.deliveries = Append(deliveries, u)]
      /\ UNCHANGED <<closed, removal, receipts, memory, spent>>
  BY <1>u, Stored DEF SendMessage
<1>3. /\ timers' = timers /\ deliveries' = Append(deliveries, u)
      /\ store' = [timers |-> timers', deliveries |-> deliveries']
      /\ store'.timers = timers' /\ store'.deliveries = deliveries'
  BY <1>2, Stored DEF Typed, timers, deliveries
<1>4. /\ deliveries' \in Seq(Delivery) /\ Len(deliveries') = Len(deliveries) + 1
      /\ DOMAIN deliveries' = DOMAIN deliveries \cup {Len(deliveries) + 1}
      /\ deliveries'[Len(deliveries) + 1] = u
      /\ \A d \in DOMAIN deliveries : deliveries'[d] = deliveries[d]
  BY <1>1, <1>3, Stored
<1>5. Typed(store')
  <2>1. Len(deliveries') <= MaxDeliveries
    BY <1>2, <1>4, Stored
  <2> QED BY <2>1, <1>3, <1>4, Stored DEF Typed
<1>6. Grows(store, store', closed)
  BY <1>1, <1>2, <1>3, <1>4, Stored, NoRow DEF Grows, Concerns, OwnerOf
<1>7. Sound(store', receipts, closed, removal)
  BY <1>5, <1>6, Grown, Stored DEF IInv
<1> QED BY <1>2, <1>4, <1>7, TablesKeep

\* The clock passes the time at which a timer runs next.
LEMMA ElapseKeeps ==
    ASSUME IInv, NEW t \in Timers, Elapse(t)
    PROVE  IInv'
<1>u. PICK u : u = [timers[t] EXCEPT !.next = "due"]
  OBVIOUS
<1>1. /\ timers[t] \in Timer
      /\ store' = [store EXCEPT !.timers[t].next = "due"]
      /\ UNCHANGED <<closed, removal, receipts, memory, spent>>
  BY Stored DEF Elapse
<1>2. /\ u \in Timer /\ u.session = timers[t].session /\ u.source = timers[t].source
      /\ u.runs = timers[t].runs /\ u.limit = timers[t].limit
      /\ u.delivery = timers[t].delivery /\ u.status = timers[t].status
  BY <1>u, <1>1 DEF Timer
<1>3. /\ timers' = [timers EXCEPT ![t] = u] /\ deliveries' = deliveries
      /\ store' = [timers |-> timers', deliveries |-> deliveries']
      /\ store'.timers = timers' /\ store'.deliveries = deliveries'
      /\ timers' \in [Timers -> Timer \cup {NULL}]
      /\ \A x \in Timers : timers'[x] = IF x = t THEN u ELSE timers[x]
  BY <1>u, <1>1, <1>2, Stored DEF Typed, timers, deliveries
<1>4. Typed(store')
  BY <1>1, <1>2, <1>3, Stored DEF Typed
<1>5. SameParties(store, store')
      /\ \A d \in DOMAIN deliveries :
            Advances(deliveries[d].state, deliveries'[d].state, receipts[d])
  BY <1>3, Stored DEF SameParties, Advances
<1>6. \A x \in Timers : /\ AcceptedOf(store', x) = AcceptedOf(store, x)
                        /\ WaitingFor(store', x) <=> WaitingFor(store, x)
  BY <1>3, Stored DEF AcceptedOf, WaitingFor, OwnerOf, Waits
<1>7. \A x \in Timers : Keeps(store, store', x)
  BY <1>1, <1>2, <1>3, <1>6, Stored, NoRow DEF IInv, Sound, Keeps, Counted, Limited
<1>8. Sound(store', receipts, closed, removal)
  BY <1>3, <1>4, <1>5, <1>7, Rewritten, Stored DEF IInv
<1> QED BY <1>1, <1>3, <1>8, TablesKeep

-----------------------------------------------------------------------------
(* One delivery, between its awaits.                                       *)

\* What is in use is distinct, for it is addressed to whoever uses it.
LEMMA OneUser ==
    ASSUME IInv, NEW s \in Sessions, NEW x \in Sessions, NEW d,
           InUse(s, d), InUse(x, d)
    PROVE  s = x
BY DEF IInv, Queued, InHand, InUse

\* A step of a dispatch that leaves the tables alone.
LEMMA DispatchKeeps ==
    ASSUME IInv, NEW s \in Sessions, NEW next \in Dispatch \cup {NULL},
           sending[s] # NULL, sending' = [sending EXCEPT ![s] = next],
           next # NULL => /\ next.id = sending[s].id
                          /\ next.pc = "inspect" <=> sending[s].pc = "inspect",
           UNCHANGED <<rows, receipts, sweep, page, clearing, spent>>
    PROVE  IInv'
<1>1. /\ \A x \in Sessions : sending'[x] = IF x = s THEN next ELSE sending[x]
      /\ sending' \in [Sessions -> Dispatch \cup {NULL}]
      /\ deliveries' = deliveries
      /\ UNCHANGED <<store, closed, removal, receipts, sweep, page, clearing, spent>>
  BY DEF IInv, PromptTypeOK, deliveries, rows
<1>2. sending[s] \in Dispatch
  BY DEF IInv, PromptTypeOK
<1>3. Queued'
  BY <1>1 DEF IInv, Queued
<1>4. InHand'
  BY <1>1, <1>2 DEF IInv, InHand, Dispatch
<1>5. Closing' /\ PromptTypeOK'
  BY <1>1 DEF IInv, Closing, PromptTypeOK
<1>6. Sound(store', receipts', closed', removal')
  BY <1>1 DEF IInv
<1>7. Sound(store, receipts, closed, removal)'
  BY <1>6
<1> QED BY <1>3, <1>4, <1>5, <1>7 DEF IInv

LEMMA PostponedKeeps ==
    ASSUME IInv, NEW s \in Sessions, Postponed(s)
    PROVE  IInv'
BY DispatchKeeps DEF Postponed, Answered, Awaits

LEMMA PreparedKeeps ==
    ASSUME IInv, NEW s \in Sessions, Prepared(s)
    PROVE  IInv'
<1>u. PICK u : u = [sending[s] EXCEPT !.pc = "admit"]
  OBVIOUS
<1>1. /\ sending[s] \in Dispatch /\ sending[s].pc = "prepare" /\ sending[s] # NULL
      /\ sending' = [sending EXCEPT ![s].pc = "admit"]
      /\ UNCHANGED <<rows, receipts, sweep, page, clearing, spent>>
  BY DEF Prepared, Awaits, IInv, PromptTypeOK, rows
<1>2. u \in Dispatch /\ u.id = sending[s].id /\ u.pc = "admit"
  BY <1>u, <1>1 DEF Dispatch
<1>3. sending' = [sending EXCEPT ![s] = u]
  BY <1>u, <1>1
<1> QED BY <1>1, <1>2, <1>3, DispatchKeeps

\* The receipts of open deliveries may advance.
LEMMA ReceiptsKeep ==
    ASSUME IInv, NEW d \in DOMAIN deliveries, NEW receipt \in {"reserved", "consumed"},
           receipts' = [receipts EXCEPT ![d] = receipt],
           deliveries[d].state \in {"dispatching", "uncertain", "accepted"},
           deliveries[d].state = "accepted" => receipt = "consumed",
           UNCHANGED <<rows, memory, spent>>
    PROVE  IInv'
<1>1. d \in Ids /\ UNCHANGED <<store, closed, removal, sweep, sending, page, clearing, spent>>
  BY Stored DEF rows, memory
<1>2. receipts' \in [Ids -> {"absent", "reserved", "consumed"}]
      /\ \A e \in Ids : receipts'[e] = IF e = d THEN receipt ELSE receipts[e]
  BY <1>1 DEF IInv, PromptTypeOK
<1>3. Evident(store, receipts')
  BY <1>1, <1>2, Stored DEF IInv, Sound, Evident
<1>4. Sound(store', receipts', closed', removal')
  BY <1>1, <1>3 DEF IInv, Sound
<1>5. Released
  BY <1>1 DEF Released, deliveries
<1>6. Closing'
  BY <1>1 DEF IInv, Closing
<1> HIDE DEF Released
<1> QED BY <1>1, <1>2, <1>4, <1>5, <1>6, ReleasedKeepsIInv DEF IInv, PromptTypeOK

LEMMA AdmitKeeps ==
    ASSUME IInv, NEW s \in Sessions, Admit(s)
    PROVE  IInv'
<1> DEFINE d == sending[s].id
<1>1. d \in DOMAIN deliveries /\ deliveries[d].state = "dispatching"
  BY DEF Admit, Awaits, IInv, InHand
<1>2. receipts' = [receipts EXCEPT ![d] = "reserved"] /\ UNCHANGED <<rows, memory, spent>>
  BY DEF Admit, rows, memory
<1> HIDE DEF d
<1> QED BY <1>1, <1>2, ReceiptsKeep

LEMMA ConsumeKeeps ==
    ASSUME IInv, NEW d \in Ids, Consume(d)
    PROVE  IInv'
<1>1. /\ d \in DOMAIN deliveries
      /\ deliveries[d].state \in {"dispatching", "uncertain", "accepted"}
  BY Stored DEF Consume, IInv, Sound, Evident
<1> QED BY <1>1, ReceiptsKeep DEF Consume

\* Settling a delivery in hand.
LEMMA FinishKeeps ==
    ASSUME IInv, NEW s \in Sessions, NEW outcome \in Outcomes,
           sending[s] # NULL, Finish(s, outcome),
           LET d == sending[s].id
           IN  deliveries[d].state \in Outstanding =>
                  /\ outcome = "accepted" => receipts[d] = "consumed"
                  /\ outcome = "failed" => receipts[d] = "absent",
           UNCHANGED <<closed, removal, receipts, sweep, page, clearing, spent>>
    PROVE  IInv'
<1>d. PICK d : d = sending[s].id
  OBVIOUS
<1> DEFINE given == [e \in {sending[s].id} |-> outcome]
<1>1. d \in DOMAIN deliveries /\ deliveries[d].state # "failed"
  BY <1>d DEF IInv, InHand, PromptTypeOK, Dispatch
<1>2. DOMAIN given = {d} /\ given[d] = outcome
  BY <1>d
<1>3. store' = Finished(store, given) /\ sending' = [sending EXCEPT ![s] = NULL]
  BY DEF Finish
<1>4. Warranted(store, receipts, given)
  BY <1>d, <1>1, <1>2, Stored DEF Warranted, Waits
<1> HIDE DEF given
<1>5. Sound(store', receipts', closed', removal')
  BY <1>3, <1>4, FinishedSound DEF IInv
<1>6. /\ DOMAIN deliveries' = DOMAIN deliveries
      /\ \A e \in DOMAIN deliveries : deliveries'[e].recipient = deliveries[e].recipient
      /\ \A e \in DOMAIN deliveries : e # d => deliveries'[e].state = deliveries[e].state
  <2> DEFINE U == Finished(store, given)
  <2>1. deliveries' = U.deliveries
    BY <1>3 DEF deliveries
  <2>2. /\ SameParties(store, U)
        /\ \A e \in DOMAIN store.deliveries :
              U.deliveries[e].state =
                 IF e \in DOMAIN given /\ Waits(store, e) THEN given[e]
                 ELSE store.deliveries[e].state
    BY <1>4, Stored, FinishedRows
  <2> HIDE DEF U
  <2> QED BY <1>2, <2>1, <2>2, Stored DEF SameParties
<1>7. \A x \in Sessions : sending'[x] = IF x = s THEN NULL ELSE sending[x]
  BY <1>3 DEF IInv, PromptTypeOK
<1>8. \A x \in Sessions : ~InUse(x, d)'
  <2>1. InUse(s, d) /\ d \notin sweep[s]
    BY <1>d DEF InUse, IInv, Queued
  <2>2. \A x \in Sessions : x # s => ~InUse(x, d)
    BY <2>1, OneUser
  <2> QED BY <1>7, <2>1, <2>2 DEF InUse
<1>9. Released
  BY <1>6, <1>7, <1>8 DEF Released
<1>10. Closing'
  BY DEF IInv, Closing
<1>11. sending' \in [Sessions -> Dispatch \cup {NULL}]
  BY <1>3 DEF IInv, PromptTypeOK
<1> HIDE DEF Released
<1> QED BY <1>5, <1>9, <1>10, <1>11, ReleasedKeepsIInv DEF IInv, PromptTypeOK

LEMMA RefusedKeeps ==
    ASSUME IInv, NEW s \in Sessions, Refused(s)
    PROVE  IInv'
<1>1. /\ sending[s] # NULL /\ Finish(s, "failed") /\ sending[s].pc = "inspect"
      /\ UNCHANGED <<closed, removal, receipts, sweep, page, clearing, spent>>
  BY DEF Refused, Awaits
<1>2. sending[s].id \in Ids /\ deliveries[sending[s].id].state \in {"pending", "cancelled"}
  BY <1>1 DEF IInv, InHand, PromptTypeOK, Dispatch
<1>3. receipts[sending[s].id] = "absent"
  BY <1>2, Stored DEF IInv, Sound, Evident
<1> QED BY <1>1, <1>3, FinishKeeps DEF Outcomes

LEMMA DeliveredKeeps ==
    ASSUME IInv, NEW s \in Sessions, Delivered(s)
    PROVE  IInv'
BY FinishKeeps DEF Delivered, Awaits, Outcomes

LEMMA RejectedKeeps ==
    ASSUME IInv, NEW s \in Sessions, Rejected(s)
    PROVE  IInv'
<1>1. PICK readable \in BOOLEAN :
         Finish(s, IF Evidence(sending[s].id, readable) = "absent" THEN "failed"
                   ELSE Evidence(sending[s].id, readable))
  BY DEF Rejected
<1>2. PICK outcome : outcome = IF Evidence(sending[s].id, readable) = "absent" THEN "failed"
                               ELSE Evidence(sending[s].id, readable)
  OBVIOUS
<1>3. sending[s] # NULL /\ sending[s].id \in Ids
      /\ UNCHANGED <<closed, removal, receipts, sweep, page, clearing, spent>>
  BY DEF Rejected, IInv, PromptTypeOK, Dispatch
<1>4. /\ outcome \in Outcomes
      /\ outcome = "accepted" => receipts[sending[s].id] = "consumed"
      /\ outcome = "failed" => receipts[sending[s].id] = "absent"
  BY <1>2, <1>3 DEF Evidence, Outcomes, IInv, PromptTypeOK
<1> QED BY <1>1, <1>2, <1>3, <1>4, FinishKeeps

\* Claiming a delivery: nobody else has it in use.
LEMMA InspectedKeeps ==
    ASSUME IInv, NEW s \in Sessions, Inspected(s)
    PROVE  IInv'
<1>d. PICK d : d = sending[s].id
  OBVIOUS
<1>u. PICK u : u = [sending[s] EXCEPT !.pc = "prepare"]
  OBVIOUS
<1>v. PICK v : v = [deliveries[d] EXCEPT !.state = "dispatching"]
  OBVIOUS
<1>1. /\ sending[s] \in Dispatch /\ sending[s].pc = "inspect" /\ sending[s] # NULL
      /\ d \in DOMAIN deliveries /\ deliveries[d].state = "pending"
      /\ UNCHANGED <<closed, removal, receipts, sweep, page, clearing, spent>>
  BY <1>d DEF Inspected, Answered, Awaits, StillCurrent, Current, CurrentIn,
              IInv, InHand, PromptTypeOK, deliveries
<1>2. u \in Dispatch /\ u.id = d /\ u.pc = "prepare"
  BY <1>d, <1>u, <1>1 DEF Dispatch
<1>3. /\ v \in Delivery /\ v.state = "dispatching" /\ v.timer = deliveries[d].timer
      /\ v.sender = deliveries[d].sender /\ v.recipient = deliveries[d].recipient
  BY <1>v, <1>1, Stored DEF Delivery, Outstanding
<1>4. /\ timers' = timers /\ deliveries' = [deliveries EXCEPT ![d] = v]
      /\ store' = [timers |-> timers', deliveries |-> deliveries']
      /\ store'.timers = timers' /\ store'.deliveries = deliveries'
      /\ sending' = [sending EXCEPT ![s] = u]
  <2>1. /\ store' = [store EXCEPT !.deliveries[sending[s].id].state = "dispatching"]
        /\ sending' = [sending EXCEPT ![s].pc = "prepare"]
    BY DEF Inspected
  <2> QED BY <1>d, <1>u, <1>v, <1>1, <2>1, Stored DEF Typed, timers, deliveries
<1>5. /\ deliveries' \in Seq(Delivery) /\ Len(deliveries') = Len(deliveries)
      /\ DOMAIN deliveries' = DOMAIN deliveries
      /\ \A e \in DOMAIN deliveries : deliveries'[e] = IF e = d THEN v ELSE deliveries[e]
      /\ \A x \in Sessions : sending'[x] = IF x = s THEN u ELSE sending[x]
      /\ sending' \in [Sessions -> Dispatch \cup {NULL}]
  BY <1>1, <1>2, <1>3, <1>4, Stored DEF IInv, PromptTypeOK
<1>6. Typed(store')
  BY <1>4, <1>5, Stored DEF Typed
<1>7. SameParties(store, store')
      /\ \A e \in DOMAIN deliveries :
            Advances(deliveries[e].state, deliveries'[e].state, receipts[e])
  BY <1>1, <1>3, <1>4, <1>5, Stored DEF SameParties, Advances, Outstanding
<1>8. \A x \in Timers : /\ AcceptedOf(store', x) = AcceptedOf(store, x)
                        /\ WaitingFor(store', x) <=> WaitingFor(store, x)
  BY <1>1, <1>3, <1>4, <1>5, Stored DEF AcceptedOf, WaitingFor, OwnerOf, Waits, Outstanding
<1>9. \A x \in Timers : Keeps(store, store', x)
  BY <1>4, <1>8, Stored, NoRow DEF IInv, Sound, Keeps, Counted, Limited
<1>10. Sound(store', receipts', closed', removal')
  BY <1>1, <1>4, <1>6, <1>7, <1>9, Rewritten, Stored DEF IInv
<1>11. \A x \in Sessions : x # s => ~InUse(x, d)
  BY <1>d, <1>1, OneUser DEF InUse
<1>12. d \notin sweep[s]
  BY <1>d, <1>1 DEF IInv, Queued
<1>13. Queued'
  BY <1>1, <1>2, <1>3, <1>5, <1>11, <1>12, <1>d DEF IInv, Queued, InUse
<1>14. InHand'
  BY <1>1, <1>2, <1>3, <1>5, <1>11, <1>d DEF IInv, InHand, InUse
<1>15. Closing' /\ PromptTypeOK'
  BY <1>1, <1>4, <1>5, <1>6 DEF IInv, Closing, PromptTypeOK, Typed
<1>16. Sound(store, receipts, closed, removal)'
  BY <1>10
<1> QED BY <1>13, <1>14, <1>15, <1>16 DEF IInv

\* The next delivery of the sweep is taken up, or settled at once.
LEMMA BeginKeeps ==
    ASSUME IInv, NEW s \in Sessions, Begin(s)
    PROVE  IInv'
<1>d. PICK d : d = Min(sweep[s])
  OBVIOUS
<1>1. /\ sending[s] = NULL /\ sweep' = [sweep EXCEPT ![s] = @ \ {d}]
      /\ UNCHANGED <<closed, removal, receipts, page, clearing, spent>>
  BY <1>d DEF Begin
<1>2. d \in sweep[s] /\ d \in Ids
  <2>1. sweep[s] \in SUBSET Nat /\ sweep[s] # {} /\ sweep[s] \subseteq Ids
    BY DEF Begin, IInv, PromptTypeOK, Ids
  <2> QED BY <1>d, <2>1, MinBelongs
<1>3. /\ \A x \in Sessions : sweep'[x] = IF x = s THEN sweep[s] \ {d} ELSE sweep[x]
      /\ sweep' \in [Sessions -> SUBSET Ids]
  BY <1>1 DEF IInv, PromptTypeOK
<1>4. /\ d \in DOMAIN deliveries /\ deliveries[d].recipient = s
      /\ deliveries[d].state \in {"pending", "cancelled"}
  BY <1>2 DEF IInv, Queued
<1>5. \A x \in Sessions : x # s => ~InUse(x, d)
  <2>1. InUse(s, d)
    BY <1>2 DEF InUse
  <2> QED BY <2>1, OneUser
<1>6. CASE Current(d)
  <2>u. PICK u : u = [id |-> d, pc |-> "inspect", aborted |-> FALSE]
    OBVIOUS
  <2>1. u \in Dispatch /\ u.id = d /\ u.pc = "inspect"
    BY <1>2, <2>u DEF Dispatch
  <2>2. sending' = [sending EXCEPT ![s] = u] /\ UNCHANGED <<store, deliveries>>
    BY <1>d, <1>6, <2>u DEF Begin, deliveries
  <2>3. /\ \A x \in Sessions : sending'[x] = IF x = s THEN u ELSE sending[x]
        /\ sending' \in [Sessions -> Dispatch \cup {NULL}]
    BY <2>1, <2>2 DEF IInv, PromptTypeOK
  <2>4. Queued'
    BY <1>1, <1>3, <1>5, <2>1, <2>2, <2>3 DEF IInv, Queued, InUse
  <2>5. InHand'
    BY <1>1, <1>4, <2>1, <2>2, <2>3 DEF IInv, InHand
  <2>6. Closing' /\ PromptTypeOK'
    BY <1>1, <1>3, <2>2, <2>3 DEF IInv, Closing, PromptTypeOK
  <2>7. Sound(store', receipts', closed', removal')
    BY <1>1, <2>2 DEF IInv
  <2>8. Sound(store, receipts, closed, removal)'
    BY <2>7
  <2> QED BY <2>4, <2>5, <2>6, <2>8 DEF IInv
<1>7. CASE ~Current(d)
  <2> DEFINE given == [e \in {d} |-> "failed"]
             U == Finished(store, given)
  <2>1. store' = U /\ deliveries' = U.deliveries /\ sending' = sending
    BY <1>d, <1>7 DEF Begin, deliveries
  <2>2. DOMAIN given = {d} /\ given[d] = "failed"
    OBVIOUS
  <2>3. receipts[d] = "absent"
    BY <1>2, <1>4, Stored DEF IInv, Sound, Evident
  <2> HIDE DEF given
  <2>4. Warranted(store, receipts, given)
    BY <1>4, <2>2, <2>3, Stored DEF Warranted, Outcomes
  <2>5. Sound(U, receipts, closed, removal)
    BY <2>4, FinishedSound DEF IInv
  <2>6. /\ SameParties(store, U)
        /\ \A e \in DOMAIN store.deliveries :
              U.deliveries[e].state =
                 IF e \in DOMAIN given /\ Waits(store, e) THEN given[e]
                 ELSE store.deliveries[e].state
    BY <2>4, Stored, FinishedRows
  <2> HIDE DEF U
  <2>7. /\ DOMAIN deliveries' = DOMAIN deliveries
        /\ \A e \in DOMAIN deliveries : deliveries'[e].recipient = deliveries[e].recipient
        /\ \A e \in DOMAIN deliveries : e # d => deliveries'[e].state = deliveries[e].state
    BY <2>1, <2>2, <2>6, Stored DEF SameParties
  <2>8. \A x \in Sessions : ~InUse(x, d)'
    BY <1>1, <1>3, <1>5, <2>1 DEF InUse
  <2>9. Released
    BY <1>3, <2>1, <2>7, <2>8 DEF Released
  <2>10. Closing'
    BY <1>1 DEF IInv, Closing
  <2>11. Sound(store', receipts', closed', removal')
    BY <1>1, <2>1, <2>5
  <2> HIDE DEF Released
  <2> QED BY <1>1, <1>3, <2>1, <2>9, <2>10, <2>11, ReleasedKeepsIInv DEF IInv, PromptTypeOK
<1> QED BY <1>6, <1>7

-----------------------------------------------------------------------------
(* Removing a session, and the death of the server.                        *)

LEMMA ReleaseKeeps ==
    ASSUME IInv, NEW s \in Sessions, Release(s)
    PROVE  IInv'
<1>1. /\ removal[s] = "prepared" /\ removal' = [removal EXCEPT ![s] = "released"]
      /\ UNCHANGED <<store, closed, receipts, sweep, sending, page, clearing, spent>>
  BY DEF Release, memory
<1>2. /\ \A x \in Sessions : removal'[x] = IF x = s THEN "released" ELSE removal[x]
      /\ removal' \in [Sessions -> {"none", "closing", "failed", "prepared", "released"}]
  BY <1>1 DEF IInv, PromptTypeOK
<1>3. Sound(store', receipts', closed', removal')
  BY <1>1, <1>2 DEF IInv, Sound, Resolved
<1>4. Released
  BY <1>1 DEF Released, deliveries
<1>5. Closing'
  BY <1>1, <1>2 DEF IInv, Closing, PromptTypeOK
<1> HIDE DEF Released
<1> QED BY <1>1, <1>2, <1>3, <1>4, <1>5, ReleasedKeepsIInv DEF IInv, PromptTypeOK

LEMMA KeepKeeps ==
    ASSUME IInv, NEW s \in Sessions, Keep(s)
    PROVE  IInv'
<1>1. /\ s \notin clearing /\ removal' = [removal EXCEPT ![s] = "none"]
      /\ closed' = closed \ {s}
      /\ UNCHANGED <<store, receipts, sweep, sending, page, clearing, spent>>
  BY DEF Keep, memory
<1>2. /\ \A x \in Sessions : removal'[x] = IF x = s THEN "none" ELSE removal[x]
      /\ removal' \in [Sessions -> {"none", "closing", "failed", "prepared", "released"}]
      /\ closed' \subseteq Sessions
  BY <1>1 DEF IInv, PromptTypeOK
<1>3. Sound(store', receipts', closed', removal')
  BY <1>1, <1>2 DEF IInv, Sound, Resolved, Quiet
<1>4. Released
  BY <1>1 DEF Released, deliveries
<1>5. Closing'
  BY <1>1, <1>2 DEF IInv, Closing, PromptTypeOK
<1> HIDE DEF Released
<1> QED BY <1>1, <1>2, <1>3, <1>4, <1>5, ReleasedKeepsIInv DEF IInv, PromptTypeOK

LEMMA CrashKeeps ==
    ASSUME IInv, Crash
    PROVE  IInv'
<1>1. /\ \A x \in Sessions : sweep'[x] = {} /\ sending'[x] = NULL
      /\ sweep' \in [Sessions -> SUBSET Ids]
      /\ sending' \in [Sessions -> Dispatch \cup {NULL}]
      /\ page' \in [cursor : 0 .. MaxDeliveries, boundary : 0 .. MaxDeliveries]
      /\ clearing' = {}
      /\ UNCHANGED <<store, closed, removal, receipts>>
  BY PromptAssumption DEF Crash, Forgotten, rows
<1>2. spent' \in [changes : 0 .. MaxChanges, removals : 0 .. MaxRemovals,
                  crashes : 0 .. MaxCrashes]
  <2>1. /\ spent' = [spent EXCEPT !.crashes = spent.crashes + 1]
        /\ spent.crashes < MaxCrashes
        /\ spent \in [changes : 0 .. MaxChanges, removals : 0 .. MaxRemovals,
                      crashes : 0 .. MaxCrashes]
    BY DEF Crash, IInv, PromptTypeOK
  <2> QED BY <2>1, PromptAssumption
<1>3. Sound(store', receipts', closed', removal')
  BY <1>1 DEF IInv
<1>4. Released
  BY <1>1 DEF Released, deliveries
<1>5. Closing'
  BY <1>1 DEF IInv, Closing
<1> HIDE DEF Released
<1> QED BY <1>1, <1>2, <1>3, <1>4, <1>5, ReleasedKeepsIInv DEF IInv, PromptTypeOK

\* A removal cancels what concerns the session, and nothing starts for it again.
LEMMA PrepareKeeps ==
    ASSUME IInv, NEW s \in Sessions, Prepare(s)
    PROVE  IInv'
<1> DEFINE touching == {d \in DOMAIN deliveries : Touches(d, s)}
           stopped == {t \in Timers : /\ Changeable(t)
                                      /\ s \in {timers[t].session, timers[t].source}}
           timer(t) == [timers[t] EXCEPT !.status = "cancelled", !.next = "none"]
           row(d) == [deliveries[d] EXCEPT
                        !.moved = @ \/ deliveries[d].timer \in stopped,
                        !.state = IF d \in touching /\ @ = "pending" THEN "cancelled" ELSE @]
<1>1. /\ timers' = [t \in Timers |-> IF t \in stopped THEN timer(t) ELSE timers[t]]
      /\ deliveries' = [d \in DOMAIN deliveries |-> row(d)]
      /\ store' = [timers |-> timers', deliveries |-> deliveries']
      /\ store'.timers = timers' /\ store'.deliveries = deliveries'
  BY DEF Prepare, timers, deliveries
<1>2. /\ removal' = [removal EXCEPT ![s] = IF @ = "prepared" THEN @ ELSE "closing"]
      /\ closed' = closed \cup {s} /\ clearing' = clearing \cup {s}
      /\ Aborting(touching) /\ UNCHANGED <<receipts, sweep, page>>
      /\ removal[s] \in {"none", "closing", "failed", "prepared"}
      /\ spent' = [spent EXCEPT !.removals = spent.removals + 1] /\ spent.removals < MaxRemovals
  BY DEF Prepare
<1>3. ASSUME NEW t \in Timers, t \in stopped
      PROVE  /\ timers[t] \in Timer /\ timer(t) \in Timer /\ timer(t).status = "cancelled"
             /\ timer(t).session = timers[t].session /\ timer(t).source = timers[t].source
             /\ timer(t).runs = timers[t].runs /\ timer(t).limit = timers[t].limit
             /\ timer(t).delivery = timers[t].delivery
  <2>1. timers[t] \in Timer
    BY <1>3, Changed
  <2> QED BY <2>1 DEF Timer
<1>4. ASSUME NEW d \in DOMAIN deliveries
      PROVE  /\ row(d) \in Delivery
             /\ row(d).timer = deliveries[d].timer
             /\ row(d).sender = deliveries[d].sender
             /\ row(d).recipient = deliveries[d].recipient
             /\ row(d).state = IF d \in touching /\ deliveries[d].state = "pending"
                               THEN "cancelled" ELSE deliveries[d].state
  <2> DEFINE moved == deliveries[d].moved \/ deliveries[d].timer \in stopped
             state == IF d \in touching /\ deliveries[d].state = "pending"
                      THEN "cancelled" ELSE deliveries[d].state
  <2>1. row(d) = [deliveries[d] EXCEPT !.moved = moved, !.state = state]
    OBVIOUS
  <2>2. deliveries[d] \in Delivery
    BY Stored
  <2>3. moved \in BOOLEAN /\ state \in Outstanding \cup {"accepted", "failed", "cancelled"}
    BY <2>2 DEF Delivery
  <2> HIDE DEF moved, row, state
  <2>4. row(d).state = state /\ row(d) \in Delivery
        /\ row(d).timer = deliveries[d].timer
        /\ row(d).sender = deliveries[d].sender
        /\ row(d).recipient = deliveries[d].recipient
    BY <2>1, <2>2, <2>3 DEF Delivery
  <2> QED BY <2>4 DEF state
<1>n. /\ \A d \in DOMAIN deliveries : d \in touching <=> Concerns(store, d, s)
      /\ \A t \in Timers : timers[t] \in Timer /\ s \in {timers[t].session, timers[t].source}
                              /\ t \notin stopped => timers[t].status \notin Live
  BY Stored, NoRow DEF Touches, Concerns, Changeable, Live
<1> HIDE DEF row, timer, touching, stopped
<1>5. /\ deliveries' \in Seq(Delivery) /\ Len(deliveries') = Len(deliveries)
      /\ DOMAIN deliveries' = DOMAIN deliveries
      /\ \A d \in DOMAIN deliveries : deliveries'[d] = row(d)
      /\ timers' \in [Timers -> Timer \cup {NULL}]
      /\ \A t \in Timers : timers'[t] = IF t \in stopped THEN timer(t) ELSE timers[t]
  BY <1>1, <1>3, <1>4, Stored
<1>6. Typed(store')
  BY <1>1, <1>3, <1>5, Stored DEF Typed
<1>7. SameParties(store, store')
  BY <1>1, <1>4, <1>5, Stored DEF SameParties
<1>8. ASSUME NEW d \in DOMAIN deliveries
      PROVE  /\ Advances(deliveries[d].state, deliveries'[d].state, receipts[d])
             /\ \/ deliveries'[d].state = deliveries[d].state
                \/ deliveries[d].state = "pending" /\ deliveries'[d].state = "cancelled"
  <2>1. deliveries[d].state = "pending" => receipts[d] = "absent"
    BY Stored DEF IInv, Sound, Evident
  <2> QED BY <1>4, <1>5, <2>1 DEF Advances, Outstanding
<1>9. \A x \in Timers : /\ AcceptedOf(store', x) = AcceptedOf(store, x)
                        /\ WaitingFor(store', x) => WaitingFor(store, x)
  <2>1. \A d \in DOMAIN deliveries :
           /\ OwnerOf(store', d) = OwnerOf(store, d)
           /\ deliveries'[d].state = "accepted" <=> deliveries[d].state = "accepted"
           /\ deliveries'[d].state \in Outstanding => deliveries[d].state \in Outstanding
    BY <1>1, <1>4, <1>5, <1>8, Stored DEF OwnerOf, Outstanding
  <2>2. store'.deliveries = deliveries' /\ DOMAIN deliveries' = DOMAIN deliveries
        /\ store.deliveries = deliveries
    BY <1>1, <1>5, Stored
  <2>3. \A x \in Timers : AcceptedOf(store', x) = AcceptedOf(store, x)
    BY <2>1, <2>2 DEF AcceptedOf
  <2>4. \A x \in Timers : WaitingFor(store', x) => WaitingFor(store, x)
    BY <2>1, <2>2 DEF WaitingFor, Waits
  <2> QED BY <2>3, <2>4
<1>10. \A x \in Timers : Keeps(store, store', x)
  <2> TAKE x \in Timers
  <2>1. /\ timers'[x] = NULL <=> timers[x] = NULL
        /\ timers[x] \in Timer =>
             /\ timers'[x] \in Timer
             /\ timers'[x].session = timers[x].session
             /\ timers'[x].source = timers[x].source
             /\ timers'[x].runs = timers[x].runs
             /\ timers'[x].limit = timers[x].limit
             /\ timers'[x].delivery = timers[x].delivery
             /\ timers'[x].status \in Live => timers[x].status \in Live
    BY <1>3, <1>5, NoRow DEF Live
  <2> QED BY <1>1, <1>9, <2>1, Stored, NoRow DEF IInv, Sound, Keeps, Counted, Limited
<1>11. Sound(store', receipts, closed, removal)
  BY <1>1, <1>6, <1>7, <1>8, <1>10, Rewritten, Stored DEF IInv
<1>12. Quiet(store', closed')
  <2>1. \A d \in DOMAIN deliveries : Concerns(store', d, s) => deliveries'[d].state # "pending"
    BY <1>1, <1>4, <1>5, <1>n, Stored DEF Concerns
  <2>2. \A t \in Timers :
           timers'[t] \in Timer /\ s \in {timers'[t].session, timers'[t].source} =>
              timers'[t].status \notin Live
    BY <1>3, <1>5, <1>n DEF Live
  <2> QED BY <1>1, <1>2, <1>5, <1>11, <2>1, <2>2 DEF Sound, Quiet
<1>13. /\ \A x \in Sessions : x # s => removal'[x] = removal[x]
       /\ removal'[s] \in {"prepared", "closing"}
       /\ removal'[s] = "prepared" => removal[s] = "prepared"
       /\ removal' \in [Sessions -> {"none", "closing", "failed", "prepared", "released"}]
       /\ closed' \subseteq Sessions /\ clearing' \subseteq Sessions
  BY <1>2 DEF IInv, PromptTypeOK
<1>14. Sound(store', receipts', closed', removal')
  <2>1. Resolved(store', removal')
    BY <1>11, <1>13 DEF Sound, Resolved
  <2> QED BY <1>2, <1>11, <1>12, <2>1 DEF Sound
<1>15. /\ sending' \in [Sessions -> Dispatch \cup {NULL}]
       /\ \A x \in Sessions :
             sending'[x] # NULL => /\ sending[x] # NULL
                                   /\ sending'[x].id = sending[x].id
                                   /\ sending'[x].pc = sending[x].pc
  BY <1>2, AbortedTyped DEF IInv
<1>16. Released
  BY <1>2, <1>4, <1>5, <1>8, <1>15 DEF Released
<1>17. Closing'
  BY <1>2, <1>13 DEF IInv, Closing
<1>18. spent' \in [changes : 0 .. MaxChanges, removals : 0 .. MaxRemovals,
                   crashes : 0 .. MaxCrashes]
  BY <1>2, PromptAssumption DEF IInv, PromptTypeOK
<1> HIDE DEF Released
<1> QED BY <1>2, <1>13, <1>14, <1>15, <1>16, <1>17, <1>18, ReleasedKeepsIInv
        DEF IInv, PromptTypeOK

\* What is still open for the session is settled by its receipt, or the removal
\* is not prepared.
LEMMA PrepareEndsKeeps ==
    ASSUME IInv, NEW s \in Sessions, PrepareEnds(s)
    PROVE  IInv'
<1> DEFINE open == {d \in In({"dispatching", "uncertain"}) : Touches(d, s)}
<1>1. PICK unreadable \in SUBSET open, still \in BOOLEAN :
        /\ store' = Finished(store, [d \in open |->
                       IF Evidence(d, d \notin unreadable) = "absent" THEN "failed"
                       ELSE Evidence(d, d \notin unreadable)])
        /\ removal' = [removal EXCEPT ![s] =
              IF (\E d \in open : Evidence(d, d \notin unreadable) = "uncertain") \/ ~still
                THEN "failed" ELSE "prepared"]
  BY DEF PrepareEnds
<1>2. PICK given : given = [d \in open |->
                       IF Evidence(d, d \notin unreadable) = "absent" THEN "failed"
                       ELSE Evidence(d, d \notin unreadable)]
  OBVIOUS
<1>3. /\ s \in clearing /\ clearing' = clearing \ {s}
      /\ \A d \in InFlight : ~Touches(d, s)
      /\ UNCHANGED <<closed, receipts, sweep, sending, page, spent>>
  BY DEF PrepareEnds
<1>o. PICK settling : settling = open
  OBVIOUS
<1>4. /\ DOMAIN given = settling /\ settling \subseteq DOMAIN deliveries
      /\ \A d \in settling : /\ deliveries[d].state \in {"dispatching", "uncertain"}
                             /\ Concerns(store, d, s) /\ Touches(d, s)
      /\ \A d \in DOMAIN deliveries :
            deliveries[d].state \in {"dispatching", "uncertain"} /\ Concerns(store, d, s) =>
               d \in settling
  BY <1>2, <1>o, Stored DEF In, Touches, Concerns
<1>5. \A d \in settling :
         /\ given[d] \in Outcomes
         /\ given[d] = "accepted" => receipts[d] = "consumed"
         /\ given[d] = "failed" => receipts[d] = "absent"
         /\ given[d] = "uncertain" => Evidence(d, d \notin unreadable) = "uncertain"
  BY <1>2, <1>o, <1>4, Stored DEF Evidence, Outcomes, IInv, PromptTypeOK
<1>6. /\ store' = Finished(store, given)
      /\ removal' = [removal EXCEPT ![s] =
              IF (\E d \in settling : Evidence(d, d \notin unreadable) = "uncertain") \/ ~still
                THEN "failed" ELSE "prepared"]
  BY <1>1, <1>2, <1>o
<1> HIDE DEF open
<1>7. Warranted(store, receipts, given)
  BY <1>4, <1>5, Stored DEF Warranted
<1>8. Sound(store', receipts, closed, removal)
  BY <1>6, <1>7, FinishedSound DEF IInv
<1>9. /\ DOMAIN deliveries' = DOMAIN deliveries
      /\ \A d \in DOMAIN deliveries :
            /\ deliveries'[d].recipient = deliveries[d].recipient
            /\ deliveries'[d].sender = deliveries[d].sender
            /\ deliveries'[d].state = IF d \in settling THEN given[d] ELSE deliveries[d].state
  <2> DEFINE U == Finished(store, given)
  <2>1. deliveries' = U.deliveries
    BY <1>6 DEF deliveries
  <2>2. /\ SameParties(store, U)
        /\ \A e \in DOMAIN store.deliveries :
              U.deliveries[e].state =
                 IF e \in DOMAIN given /\ Waits(store, e) THEN given[e]
                 ELSE store.deliveries[e].state
    BY <1>7, Stored, FinishedRows
  <2> HIDE DEF U
  <2>3. \A d \in settling : Waits(store, d)
    BY <1>4, Stored DEF Waits, Outstanding
  <2> QED BY <1>4, <2>1, <2>2, <2>3, Stored DEF SameParties
<1>10. /\ \A x \in Sessions : x # s => removal'[x] = removal[x]
       /\ removal'[s] \in {"failed", "prepared"}
       /\ removal'[s] = "prepared" =>
             \A d \in settling : Evidence(d, d \notin unreadable) # "uncertain"
       /\ removal' \in [Sessions -> {"none", "closing", "failed", "prepared", "released"}]
  <2>1. removal \in [Sessions -> {"none", "closing", "failed", "prepared", "released"}]
    BY DEF IInv, PromptTypeOK
  <2> QED BY <1>6, <2>1
<1>11. Resolved(store', removal')
  <2>1. ASSUME removal'[s] = "prepared", NEW d \in DOMAIN deliveries, Concerns(store', d, s)
        PROVE  ~Waits(store', d)
    <3>1. Concerns(store, d, s) /\ s \in closed
      BY <1>3, <1>9, <2>1, Stored DEF Concerns, deliveries, IInv, Closing
    <3>2. deliveries[d].state # "pending"
      BY <3>1, Stored DEF IInv, Sound, Quiet
    <3>3. d \in settling => given[d] \in {"accepted", "failed"}
      BY <1>5, <1>10, <2>1 DEF Outcomes
    <3>4. deliveries'[d].state \notin Outstanding
      BY <1>4, <1>9, <3>1, <3>2, <3>3 DEF Outstanding
    <3> QED BY <3>4 DEF Waits, deliveries
  <2> QED BY <1>8, <1>9, <1>10, <2>1 DEF Sound, Resolved, deliveries
<1>12. Sound(store', receipts', closed', removal')
  BY <1>3, <1>8, <1>11 DEF Sound
<1>13. \A d \in settling, x \in Sessions : ~InUse(x, d)'
  <2>1. \A d \in settling, x \in Sessions : sending[x] # NULL => sending[x].id # d
    BY <1>3, <1>4 DEF InFlight
  <2>2. \A d \in settling, x \in Sessions : d \notin sweep[x]
    BY <1>4 DEF IInv, Queued
  <2> QED BY <1>3, <2>1, <2>2 DEF InUse
<1>14. Released
  BY <1>3, <1>9, <1>13 DEF Released
<1>15. Closing'
  BY <1>3, <1>10 DEF IInv, Closing, PromptTypeOK
<1> HIDE DEF Released
<1> QED BY <1>3, <1>10, <1>12, <1>14, <1>15, ReleasedKeepsIInv DEF IInv, PromptTypeOK

-----------------------------------------------------------------------------
(* The sweep.                                                              *)

\* Every due timer gets one delivery, its own.
LEMMA ScheduledSound ==
    ASSUME NEW T, NEW R, NEW C, NEW M, NEW order \in Orders(T),
           Sound(T, R, C, M), \A s \in Sessions : M[s] # "none" => s \in C
    PROVE  Sound(Scheduled(T, order), R, C, M)
<1> DEFINE U == Scheduled(T, order)
           n == Len(T.deliveries)
           at(t) == CHOOSE i \in DOMAIN order : order[i] = t
           timer(t) == [T.timers[t] EXCEPT !.delivery = n + at(t)]
           check(i) == Check(T.timers[order[i]], order[i], FALSE)
           news == [i \in DOMAIN order |-> check(i)]
<1>1. PICK k \in Nat : /\ k <= MaxDeliveries - n
                       /\ DOMAIN order = 1 .. k
                       /\ \A i \in 1 .. k : /\ order[i] \in Timers
                                            /\ T.timers[order[i]] # NULL
                                            /\ T.timers[order[i]].status = "active"
                                            /\ T.timers[order[i]].delivery = NULL
                       /\ \A i, j \in 1 .. k : order[i] = order[j] => i = j
  BY DEF Orders, SeqOf, IsInjective
<1>2. n \in Nat /\ n <= MaxDeliveries /\ DOMAIN T.deliveries = 1 .. n
      /\ T.deliveries \in Seq(Delivery) /\ T.timers \in [Timers -> Timer \cup {NULL}]
  BY DEF Sound, Typed
<1>3. \A t \in Timers : t \in Range(order) <=> \E i \in 1 .. k : order[i] = t
  BY <1>1 DEF Range
<1>4. \A i \in 1 .. k : at(order[i]) = i
  BY <1>1
<1>5. ASSUME NEW i \in 1 .. k
      PROVE  /\ T.timers[order[i]] \in Timer
             /\ check(i) \in Delivery /\ check(i).timer = order[i] /\ check(i).state = "pending"
             /\ check(i).sender = T.timers[order[i]].source
             /\ check(i).recipient = T.timers[order[i]].session
             /\ timer(order[i]) \in Timer /\ timer(order[i]).delivery = n + i
             /\ timer(order[i]).session = T.timers[order[i]].session
             /\ timer(order[i]).source = T.timers[order[i]].source
             /\ timer(order[i]).status = T.timers[order[i]].status
             /\ timer(order[i]).limit = T.timers[order[i]].limit
             /\ timer(order[i]).runs = T.timers[order[i]].runs
             /\ n + i \in Ids
             /\ \A s \in C : s # T.timers[order[i]].source /\ s # T.timers[order[i]].session
             /\ ~WaitingFor(T, order[i])
  <2>1. T.timers[order[i]] \in Timer /\ order[i] \in Timers
    BY <1>1, <1>2
  <2>2. n + i \in Ids
    BY <1>1, <1>2, PromptAssumption DEF Ids
  <2>3. /\ check(i) \in Delivery /\ check(i).timer = order[i] /\ check(i).state = "pending"
        /\ check(i).sender = T.timers[order[i]].source
        /\ check(i).recipient = T.timers[order[i]].session
    BY <2>1, PromptAssumption DEF Check, Delivery, Timer, Outstanding
  <2>4. timer(order[i]) = [T.timers[order[i]] EXCEPT !.delivery = n + i]
    BY <1>4
  <2>5. \A s \in C : s # T.timers[order[i]].source /\ s # T.timers[order[i]].session
    BY <1>1, <2>1 DEF Sound, Quiet, Live
  <2>6. ~WaitingFor(T, order[i])
    BY <1>1, <1>2, <2>1, PromptAssumption DEF Sound, Held, WaitingFor
  <2> HIDE DEF timer, check
  <2> QED BY <2>1, <2>2, <2>3, <2>4, <2>5, <2>6 DEF Timer
<1>6. /\ U.timers = [t \in Timers |-> IF t \in Range(order) THEN timer(t) ELSE T.timers[t]]
      /\ U.deliveries = T.deliveries \o news
      /\ U = [timers |-> U.timers, deliveries |-> U.deliveries]
  BY DEF Scheduled
<1> HIDE DEF check, timer, at, U
<1>7. /\ news \in Seq(Delivery) /\ Len(news) = k /\ \A i \in 1 .. k : news[i] = check(i)
  <2>1. news = [i \in 1 .. k |-> check(i)]
    BY <1>1
  <2> QED BY <1>5, <2>1
<1> HIDE DEF news
<1>8. /\ U.deliveries \in Seq(Delivery) /\ Len(U.deliveries) = n + k
      /\ DOMAIN U.deliveries = 1 .. (n + k)
      /\ \A d \in 1 .. n : U.deliveries[d] = T.deliveries[d]
      /\ \A i \in 1 .. k : U.deliveries[n + i] = check(i)
  <2>1. U.deliveries = T.deliveries \o news
    BY <1>6
  <2>2. /\ U.deliveries \in Seq(Delivery) /\ Len(U.deliveries) = n + k
        /\ DOMAIN U.deliveries = 1 .. (n + k)
    <3>1. T.deliveries \in Seq(Delivery) /\ news \in Seq(Delivery)
      BY <1>2, <1>7
    <3>2. U.deliveries \in Seq(Delivery) /\ Len(U.deliveries) = n + k
      <4>1. T.deliveries \o news \in Seq(Delivery)
            /\ Len(T.deliveries \o news) = Len(T.deliveries) + Len(news)
        BY <3>1, ConcatProperties
      <4> QED BY <1>7, <2>1, <4>1
    <3> QED BY <3>2, LenProperties
  <2>3. \A d \in 1 .. n : U.deliveries[d] = T.deliveries[d]
    BY <1>2, <1>7, <2>1
  <2>4. \A i \in 1 .. k : U.deliveries[n + i] = news[i]
    <3> TAKE i \in 1 .. k
    <3>1. n + i \in 1 .. (n + k) /\ ~(n + i <= n) /\ (n + i) - n = i
      BY <1>1, <1>2
    <3> QED BY <1>2, <1>7, <2>1, <3>1
  <2> QED BY <1>7, <2>2, <2>3, <2>4
<1>9. \A d \in DOMAIN U.deliveries \ DOMAIN T.deliveries : \E i \in 1 .. k : d = n + i
  <2> TAKE d \in DOMAIN U.deliveries \ DOMAIN T.deliveries
  <2>1. d - n \in 1 .. k /\ d = n + (d - n)
    BY <1>2, <1>8
  <2> QED BY <2>1
<1>10. ASSUME NEW t \in Timers
       PROVE  \/ \E i \in 1 .. k : order[i] = t /\ U.timers[t] = timer(t)
              \/ U.timers[t] = T.timers[t]
  BY <1>3, <1>6
<1>11. Typed(U)
  <2>1. U.timers \in [Timers -> Timer \cup {NULL}]
    BY <1>2, <1>3, <1>5, <1>6
  <2>2. \A t \in Timers : U.timers[t] \in Timer =>
           U.timers[t].delivery = NULL \/ U.timers[t].delivery \in 1 .. (n + k)
    BY <1>1, <1>2, <1>5, <1>10 DEF Sound, Typed
  <2>3. n + k <= MaxDeliveries
    BY <1>1, <1>2, PromptAssumption
  <2> QED BY <1>6, <1>8, <2>1, <2>2, <2>3 DEF Typed
<1>12. Grows(T, U, C)
  <2>1. ASSUME NEW d \in DOMAIN U.deliveries \ DOMAIN T.deliveries
        PROVE  /\ U.deliveries[d].state = "pending"
               /\ \A s \in C : ~Concerns(U, d, s)
               /\ OwnerOf(U, d) # NULL =>
                    /\ T.timers[OwnerOf(U, d)] \in Timer
                    /\ T.timers[OwnerOf(U, d)].status \in Live
                    /\ ~WaitingFor(T, OwnerOf(U, d))
                    /\ U.timers[OwnerOf(U, d)].delivery = d
    <3>1. PICK i \in 1 .. k : d = n + i
      BY <1>9
    <3>2. U.deliveries[d] = check(i) /\ OwnerOf(U, d) = order[i]
      BY <1>5, <1>8, <3>1 DEF OwnerOf
    <3>3. U.timers[order[i]] = timer(order[i])
      BY <1>1, <1>3, <1>6
    <3> QED BY <1>1, <1>5, <3>1, <3>2, <3>3 DEF Concerns, Live
  <2>2. /\ DOMAIN T.deliveries \subseteq DOMAIN U.deliveries
        /\ \A d \in DOMAIN T.deliveries : U.deliveries[d] = T.deliveries[d]
    BY <1>2, <1>8
  <2>3. ASSUME NEW t \in Timers
        PROVE  /\ T.timers[t] = NULL => U.timers[t] = NULL
               /\ T.timers[t] \in Timer =>
                    /\ U.timers[t] \in Timer
                    /\ U.timers[t].session = T.timers[t].session
                    /\ U.timers[t].source = T.timers[t].source
                    /\ U.timers[t].status = T.timers[t].status
                    /\ U.timers[t].limit = T.timers[t].limit
                    /\ U.timers[t].runs = T.timers[t].runs
                    /\ U.timers[t].delivery = T.timers[t].delivery \/ ~WaitingFor(T, t)
    BY <1>1, <1>5, <1>10
  <2> QED BY <2>1, <2>2, <2>3 DEF Grows
<1> QED BY <1>11, <1>12, Grown DEF U

LEMMA BeginSweepKeeps ==
    ASSUME IInv, BeginSweep
    PROVE  IInv'
<1> DEFINE Swept(tables) ==
             LET pending == {d \in DOMAIN tables.deliveries : tables.deliveries[d].state = "pending"}
             IN  /\ store' = tables
                 /\ \E from \in {Reading(pending)} : \E taken \in {Rows(pending, from)} :
                      /\ page' = [from EXCEPT !.cursor = IF taken = {} THEN from.boundary
                                                         ELSE Max(taken)]
                      /\ sweep' = [s \in Sessions |-> Passed(tables, taken, s)]
<1>1. \E unreadable \in SUBSET In({"dispatching", "uncertain"}) :
      \E reconciled \in {Reconciled(unreadable)} :
      \E order \in Orders(reconciled) :
      \E tables \in {Scheduled(reconciled, order)} : Swept(tables)
  BY DEF BeginSweep
<1> HIDE DEF Swept
<1>u. PICK unreadable \in SUBSET In({"dispatching", "uncertain"}) :
         \E order \in Orders(Reconciled(unreadable)) :
            Swept(Scheduled(Reconciled(unreadable), order))
  BY <1>1
<1>2. PICK order \in Orders(Reconciled(unreadable)) :
         Swept(Scheduled(Reconciled(unreadable), order))
  BY <1>u
<1>3. PICK pending : pending = {d \in DOMAIN store'.deliveries :
                                   store'.deliveries[d].state = "pending"}
  OBVIOUS
<1>4. PICK from : from = Reading(pending)
  OBVIOUS
<1>5. PICK taken : taken = Rows(pending, from)
  OBVIOUS
<1>6. /\ store' = Scheduled(Reconciled(unreadable), order)
      /\ page' = [from EXCEPT !.cursor = IF taken = {} THEN from.boundary ELSE Max(taken)]
      /\ sweep' = [s \in Sessions |-> Passed(store', taken, s)]
  BY <1>2, <1>3, <1>4, <1>5 DEF Swept
<1>7. /\ Idle /\ UNCHANGED <<closed, removal, receipts, sending, clearing, spent>>
  BY DEF BeginSweep
<1>8. Sound(Reconciled(unreadable), receipts, closed, removal)
  <2> DEFINE admitted == {d \in In({"dispatching", "uncertain"}) \ unreadable :
                             receipts[d] = "consumed"}
             outcome == [d \in admitted \cup In({"dispatching"}) |->
                            IF d \in admitted THEN "accepted" ELSE "uncertain"]
  <2>1. Warranted(store, receipts, outcome)
    BY Stored DEF Warranted, In, Outcomes
  <2> QED BY <2>1, FinishedSound DEF IInv, Reconciled
<1>9. Sound(store', receipts, closed, removal)
  BY <1>6, <1>8, ScheduledSound, Stored
<1>10. /\ Typed(store') /\ pending \subseteq DOMAIN store'.deliveries
       /\ DOMAIN store'.deliveries \subseteq Ids
  BY <1>3, <1>9, PromptAssumption DEF Sound, Typed, Ids
<1>11. MaxDeliveries \in Nat /\ pending \cup {0} \in SUBSET (0 .. MaxDeliveries)
  BY <1>10, PromptAssumption DEF Ids
<1>12. from \in [cursor : 0 .. MaxDeliveries, boundary : 0 .. MaxDeliveries]
  <2>1. Max(pending \cup {0}) \in 0 .. MaxDeliveries
    BY <1>11, MaxBelongs
  <2>2. page \in [cursor : 0 .. MaxDeliveries, boundary : 0 .. MaxDeliveries]
    BY DEF IInv, PromptTypeOK
  <2> QED BY <1>4, <1>11, <2>1, <2>2 DEF Reading
<1>13. taken \subseteq pending
  BY <1>5 DEF Rows
<1>14. page' \in [cursor : 0 .. MaxDeliveries, boundary : 0 .. MaxDeliveries]
  <2>1. taken # {} => Max(taken) \in 0 .. MaxDeliveries
    BY <1>11, <1>13, MaxBelongs
  <2> QED BY <1>6, <1>11, <1>12, <2>1
<1>15. \A s \in Sessions : \A d \in sweep'[s] :
          d \in pending /\ store'.deliveries[d].recipient = s
  BY <1>6, <1>13 DEF Passed
<1>16. sweep' \in [Sessions -> SUBSET Ids]
  BY <1>6, <1>10, <1>13 DEF Passed
<1>17. \A s \in Sessions : sending'[s] = NULL
  BY <1>7 DEF Idle
<1>18. Queued' /\ InHand'
  BY <1>3, <1>15, <1>17 DEF Queued, InHand, deliveries
<1>19. Closing'
  BY <1>7 DEF IInv, Closing
<1>20. PromptTypeOK'
  BY <1>7, <1>10, <1>14, <1>16 DEF IInv, PromptTypeOK, Typed, deliveries
<1>21. Sound(store', receipts', closed', removal')
  BY <1>7, <1>9
<1>22. Sound(store, receipts, closed, removal)'
  BY <1>21
<1> QED BY <1>18, <1>19, <1>20, <1>22 DEF IInv

-----------------------------------------------------------------------------
(* The theorems.                                                           *)

LEMMA InitInvariant == Init => IInv
<1> SUFFICES ASSUME Init PROVE IInv
  OBVIOUS
<1>1. /\ store.timers = [t \in Timers |-> NULL] /\ store.deliveries = << >>
      /\ store = [timers |-> store.timers, deliveries |-> store.deliveries]
      /\ timers = store.timers /\ deliveries = store.deliveries
      /\ DOMAIN store.deliveries = {}
      /\ << >> \in Seq(Delivery) /\ Len(store.deliveries) = 0
  BY DEF Init, timers, deliveries
<1>2. \A t \in Timers : store.timers[t] \notin Timer
  BY <1>1, NoRow
<1>3. Typed(store)
  <2>1. store \in [timers : [Timers -> Timer \cup {NULL}], deliveries : Seq(Delivery)]
    BY <1>1
  <2>2. 0 <= MaxDeliveries
    BY PromptAssumption
  <2> QED BY <1>1, <1>2, <2>1, <2>2 DEF Typed
<1>4. Held(store) /\ Counted(store) /\ Limited(store)
  BY <1>1, <1>2 DEF Held, Counted, Limited
<1>5. Evident(store, receipts) /\ Quiet(store, closed) /\ Resolved(store, removal)
  BY <1>1, <1>2 DEF Init, Evident, Quiet, Resolved
<1>6. Queued /\ InHand /\ Closing
  BY DEF Init, Queued, InHand, Closing
<1>7. PromptTypeOK
  <2>1. spent \in [changes : 0 .. MaxChanges, removals : 0 .. MaxRemovals,
                   crashes : 0 .. MaxCrashes]
    BY PromptAssumption DEF Init
  <2>2. page \in [cursor : 0 .. MaxDeliveries, boundary : 0 .. MaxDeliveries]
    BY PromptAssumption DEF Init
  <2> QED BY <1>1, <1>3, <2>1, <2>2 DEF Init, PromptTypeOK, Typed
<1> QED BY <1>3, <1>4, <1>5, <1>6, <1>7 DEF IInv, Sound

LEMMA NextInvariant == IInv /\ [Next]_vars => IInv'
<1> SUFFICES ASSUME IInv, [Next]_vars PROVE IInv'
  OBVIOUS
<1>1. CASE Ask
  <2>1. ASSUME NEW t \in Timers, NEW s \in Sessions, NEW source \in Sources,
               NEW limit \in Limits, CreateTimer(t, s, source, limit)
        PROVE  IInv'
    BY <2>1, CreateTimerKeeps
  <2>2. ASSUME NEW s \in Sessions, NEW r \in Sessions, SendMessage(s, r) PROVE IInv'
    BY <2>2, SendMessageKeeps
  <2>3. ASSUME NEW t \in Timers, NEW status \in {"paused", "cancelled"}, Halt(t, status)
        PROVE  IInv'
    BY <2>3, HaltKeeps
  <2>4. ASSUME NEW t \in Timers, NEW limit \in Limits, UpdateTimer(t, limit) PROVE IInv'
    BY <2>4, UpdateKeeps
  <2>5. ASSUME NEW t \in Timers, Resume(t) \/ RunNow(t) PROVE IInv'
    BY <2>5, ResumeKeeps, RunNowKeeps
  <2>6. ASSUME NEW s \in Sessions, Prepare(s) \/ Release(s) \/ Keep(s) PROVE IInv'
    BY <2>6, PrepareKeeps, ReleaseKeeps, KeepKeeps
  <2> QED BY <1>1, <2>1, <2>2, <2>3, <2>4, <2>5, <2>6 DEF Ask
<1>2. CASE Serve
  <2>1. ASSUME NEW s \in Sessions, Dispatches(s) PROVE IInv'
    BY <2>1, BeginKeeps, InspectedKeeps, PostponedKeeps, RefusedKeeps, PreparedKeeps,
       AdmitKeeps, DeliveredKeeps, RejectedKeeps DEF Dispatches
  <2> QED BY <1>2, <2>1, PrepareEndsKeeps, BeginSweepKeeps DEF Serve
<1>3. ASSUME NEW t \in Timers, Elapse(t) PROVE IInv'
  BY <1>3, ElapseKeeps
<1>4. ASSUME NEW d \in Ids, Consume(d) PROVE IInv'
  BY <1>4, ConsumeKeeps
<1>5. CASE Crash
  BY <1>5, CrashKeeps
<1>6. CASE UNCHANGED vars
  <2>1. UNCHANGED <<store, closed, removal, receipts, sweep, sending, page, clearing, spent>>
    BY <1>6 DEF vars
  <2>2. Released
    BY <2>1 DEF Released, deliveries
  <2>3. Sound(store', receipts', closed', removal')
    BY <2>1 DEF IInv
  <2>4. Closing'
    BY <2>1 DEF IInv, Closing
  <2> HIDE DEF Released
  <2> QED BY <2>1, <2>2, <2>3, <2>4, ReleasedKeepsIInv DEF IInv, PromptTypeOK
<1> QED BY <1>1, <1>2, <1>3, <1>4, <1>5, <1>6 DEF Next

\* The inductive invariant holds throughout: what the rows of timers and
\* deliveries, the receipts, the closed sessions, the sweep and the dispatches
\* under way say of each other.
THEOREM Invariance == PromptSpec => []IInv
<1>1. Init => IInv
  BY InitInvariant
<1>2. IInv /\ [Next]_vars => IInv'
  BY NextInvariant
<1> QED BY <1>1, <1>2, PTL DEF PromptSpec

\* Every row, receipt, cursor and dispatch of the scheduler stays well formed.
THEOREM PromptTypes == PromptSpec => []PromptTypeOK
<1>1. IInv => PromptTypeOK
  BY DEF IInv
<1> QED BY <1>1, Invariance, PTL

\* A timer never obtains more admissions than its run limit, whatever pauses,
\* resumptions, checks by hand, lost answers and crashes it goes through: the
\* admitted deliveries are those counted and at most the one still open.
THEOREM LimitsHold == PromptSpec => []AdmittedWithinLimit
<1>1. IInv => AdmittedWithinLimit
  <2> SUFFICES ASSUME IInv, NEW t \in Timers, timers[t] # NULL, timers[t].limit # NULL
               PROVE  Cardinality({d \in Of(t) : receipts[d] # "absent"}) <= timers[t].limit
    BY DEF AdmittedWithinLimit
  <2> DEFINE admitted == {d \in Of(t) : receipts[d] # "absent"}
             accepted == AcceptedOf(store, t)
  <2>1. /\ timers[t] \in Timer /\ timers[t].runs = Cardinality(accepted)
        /\ timers[t].runs \in Nat /\ timers[t].limit \in Nat
        /\ timers[t].runs <= timers[t].limit
        /\ WaitingFor(store, t) => timers[t].runs < timers[t].limit
    BY Stored DEF IInv, Sound, Counted, Limited, Timer
  <2>2. IsFiniteSet(accepted) /\ IsFiniteSet(admitted)
    <3>1. IsFiniteSet(DOMAIN deliveries)
      BY Stored, FS_Interval
    <3>2. accepted \subseteq DOMAIN deliveries /\ admitted \subseteq DOMAIN deliveries
      BY Stored DEF AcceptedOf, Of
    <3> QED BY <3>1, <3>2, FS_Subset
  <2>3. \A d \in admitted : d \in DOMAIN deliveries /\ OwnerOf(store, d) = t
                            /\ (d \in accepted \/ Waits(store, d))
    BY Stored DEF Of, OwnerOf, AcceptedOf, Waits, Outstanding, IInv, Sound, Evident
  <2>4. \A d \in DOMAIN deliveries :
           OwnerOf(store, d) = t /\ Waits(store, d) =>
              d = timers[t].delivery /\ WaitingFor(store, t)
    BY Stored, PromptAssumption DEF IInv, Sound, Held, WaitingFor
  <2> HIDE DEF admitted, accepted
  <2>5. CASE admitted \subseteq accepted
    <3>1. Cardinality(admitted) <= Cardinality(accepted) /\ Cardinality(admitted) \in Nat
      BY <2>2, <2>5, FS_Subset, FS_CardinalityType
    <3> QED BY <2>1, <3>1 DEF admitted
  <2>6. CASE ~(admitted \subseteq accepted)
    <3>1. WaitingFor(store, t) /\ admitted \subseteq accepted \cup {timers[t].delivery}
      BY <2>3, <2>4, <2>6
    <3>2. /\ IsFiniteSet(accepted \cup {timers[t].delivery})
          /\ Cardinality(accepted \cup {timers[t].delivery}) <= Cardinality(accepted) + 1
          /\ Cardinality(accepted) \in Nat
          /\ Cardinality(accepted \cup {timers[t].delivery}) \in Nat
      <4>1. PICK d : d = timers[t].delivery
        OBVIOUS
      <4>2. /\ IsFiniteSet(accepted \cup {d})
            /\ Cardinality(accepted \cup {d}) = IF d \in accepted THEN Cardinality(accepted)
                                                 ELSE Cardinality(accepted) + 1
        BY <2>2, FS_AddElement
      <4>3. Cardinality(accepted) \in Nat
        BY <2>2, FS_CardinalityType
      <4> QED BY <4>1, <4>2, <4>3
    <3>3. Cardinality(admitted) <= Cardinality(accepted \cup {timers[t].delivery})
          /\ Cardinality(admitted) \in Nat
      BY <2>2, <3>1, <3>2, FS_Subset, FS_CardinalityType
    <3> QED BY <2>1, <3>1, <3>2, <3>3 DEF admitted
  <2> QED BY <2>5, <2>6
<1> QED BY <1>1, Invariance, PTL

\* A delivery the store reports failed or cancelled was never admitted by the
\* command owner, and never will be: nothing takes such a state from it.
THEOREM ReportedFailedNeverRan == PromptSpec => []FailedNeverRan
<1>1. IInv => FailedNeverRan
  BY Stored DEF IInv, Sound, Evident, FailedNeverRan, In
<1> QED BY <1>1, Invariance, PTL

\* Once the removal of a session is prepared, no delivery from it or to it is
\* outstanding, and none becomes so while its resources are released.
THEOREM RemovalsSettle == PromptSpec => []RemovalSettles
<1>1. IInv => RemovalSettles
  BY Stored DEF IInv, Sound, Resolved, RemovalSettles, In, Touches, Concerns, Waits
<1> QED BY <1>1, Invariance, PTL
=============================================================================
