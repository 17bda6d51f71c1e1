--------------------------- MODULE WarmPoolProofs ---------------------------
(***************************************************************************)
(* Proofs about WarmPool, for all values of its constants: types, no       *)
(* leaked sandbox, no credential under another owner, creates within the   *)
(* target.                                                                 *)
(*                                                                         *)
(* The invariant has three parts: what the gateway holds or may still do,  *)
(* against the ledger (World); what the operation under way may rely on    *)
(* between its awaits (AtHand); and the vacancy a create was decided on    *)
(* (Room).                                                                 *)
(***************************************************************************)
EXTENDS WarmPool, Extrema, FiniteSetTheorems

-----------------------------------------------------------------------------
(* The inductive invariant.                                                *)

Sent(i) == Exists(i) \/ Create(i) \in flight

\* Whatever was asked for, or may still come to exist, is on a record that says
\* so, and a create is sent only once.
AccountedFor ==
    \A i \in Ids :
        /\ Sent(i) => /\ i \in DOMAIN records
                      /\ records[i].started
                      /\ records[i].state # "removed"
        /\ Exists(i) => Create(i) \notin flight
        /\ i \in DOMAIN records /\ records[i].known =>
              records[i].started /\ Create(i) \notin flight

MayHold(i, p) == p \in sandbox[i].providers \/ Attach(i, p) \in flight

\* What is attached, or may still be, belongs to the account of the owner.
Owned ==
    \A i \in Ids, p \in Providers :
        MayHold(i, p) => /\ i \in DOMAIN records
                         /\ records[i].conversation # NULL
                         /\ p \in Desired(records[i].account)

AssignedStates ==
    \A i \in DOMAIN records :
        records[i].conversation # NULL =>
            records[i].state \in {"claiming", "claimed", "uncertain"}

World == AccountedFor /\ Owned /\ AssignedStates

\* The record an operation works on is in the state the operation gave it, and
\* nothing but the operation changes it.
Unassigned == {i \in DOMAIN records : records[i].conversation = NULL}

HandInState ==
    /\ op.pc \in {"removal", "deleting"} =>
         op.id \in Unassigned /\ records[op.id].known
    /\ op.pc = "create" =>
         op.id \in Slots /\ ~records[op.id].started
    /\ op.pc \in {"creating", "waiting"} =>
         op.id \in Unassigned /\ records[op.id].started
    /\ op.pc = "claim" =>
         /\ op.id \in Unassigned /\ op.todo = {}
         /\ op.conversation # NULL /\ op.account \in Accounts
    /\ op.pc \in {"recovery", "bind", "attach", "attaching"} =>
         /\ op.id \in DOMAIN records
         /\ records[op.id].conversation # NULL
         /\ records[op.id].account = op.account
         /\ op.account \in Accounts
    /\ op.pc \in {"bind", "attach", "attaching"} => records[op.id].state = "claiming"
    /\ op.pc \in {"attach", "attaching"} => op.providers \subseteq Desired(op.account)
    /\ op.pc = "recheck" => op.id \in Slots

AtHand ==
    op # NULL => up /\ op.todo \subseteq Unassigned /\ HandInState

\* The place of a sandbox about to be asked for was vacant.
Room ==
    op # NULL /\ op.pc = "create" =>
        Cardinality(Slots \ {op.id}) < settings.capacity

IInv == PoolTypeOK /\ World /\ AtHand /\ Room

-----------------------------------------------------------------------------
(* Helpers.                                                                *)

States == {"preparing", "ready", "claiming", "claimed", "removing", "removed", "uncertain"}

Pcs == {"admitted", "next", "removal", "deleting", "create", "creating", "waiting", "claim",
        "recovery", "bind", "attach", "attaching", "recheck", "finish", "answer"}

\* Writing one record leaves the others alone.
LEMMA Updated ==
    ASSUME PoolTypeOK, NEW i \in DOMAIN records, NEW r \in Record, Update(i, r)
    PROVE  /\ i \in Ids
           /\ records' \in Seq(Record)
           /\ Len(records') = Len(records)
           /\ DOMAIN records' = DOMAIN records
           /\ records'[i] = r
           /\ \A j \in DOMAIN records \ {i} : records'[j] = records[j]
BY PoolAssumption DEF PoolTypeOK, Update, Ids

\* Records are numbered by Ids, and each has its type.
LEMMA RecordsTyped ==
    ASSUME PoolTypeOK
    PROVE  /\ DOMAIN records \subseteq Ids
           /\ \A i \in DOMAIN records : records[i] \in Record
           /\ Unassigned \subseteq DOMAIN records
           /\ Slots \subseteq Unassigned
BY PoolAssumption DEF PoolTypeOK, Ids, Unassigned, Slots

\* So does changing the state of one.
LEMMA Restated ==
    ASSUME PoolTypeOK, NEW i \in DOMAIN records, NEW state \in States, Becomes(i, state)
    PROVE  /\ records' \in Seq(Record)
           /\ Len(records') = Len(records)
           /\ DOMAIN records' = DOMAIN records
           /\ records'[i].state = state
           /\ \A j \in DOMAIN records \ {i} : records'[j] = records[j]
           /\ \A j \in DOMAIN records :
                 /\ records'[j].known = records[j].known
                 /\ records'[j].started = records[j].started
                 /\ records'[j].conversation = records[j].conversation
                 /\ records'[j].account = records[j].account
           /\ Unassigned' = Unassigned
<1> DEFINE r == [records[i] EXCEPT !.state = state]
<1>1. records[i] \in Record
  BY RecordsTyped
<1>2. r \in Record
  BY <1>1 DEF Record, States
<1>3. Update(i, r)
  BY DEF Becomes
<1>4. /\ r.state = state /\ r.known = records[i].known /\ r.started = records[i].started
      /\ r.conversation = records[i].conversation /\ r.account = records[i].account
  BY <1>1 DEF Record
<1> HIDE DEF r
<1>5. /\ records' \in Seq(Record)
      /\ Len(records') = Len(records)
      /\ DOMAIN records' = DOMAIN records
      /\ records'[i] = r
      /\ \A j \in DOMAIN records \ {i} : records'[j] = records[j]
  BY <1>2, <1>3, Updated
<1> QED BY <1>4, <1>5 DEF Unassigned

\* An operation that goes on to its next await.
LEMMA Proceeded ==
    ASSUME op \in Operation, NEW pc \in Pcs, Proceed(pc)
    PROVE  /\ op' \in Operation
           /\ op'.pc = pc /\ op'.id = op.id /\ op'.todo = op.todo
           /\ op'.conversation = op.conversation /\ op'.account = op.account
           /\ op'.providers = op.providers
BY DEF Operation, Proceed, Pcs

\* A record that comes to belong to a conversation.
LEMMA OwnedRecord ==
    ASSUME NEW r \in Record, NEW state \in States,
           NEW c \in Conversations \cup {NULL}, NEW a \in Accounts \cup {NULL}
    PROVE  LET o == [r EXCEPT !.state = state, !.conversation = c, !.account = a]
           IN  /\ o \in Record
               /\ o.state = state /\ o.conversation = c /\ o.account = a
               /\ o.known = r.known /\ o.started = r.started
BY DEF Record, States

-----------------------------------------------------------------------------
(* Types.                                                                  *)

\* What a step of an operation may change.
LEMMA TypedStep ==
    ASSUME PoolTypeOK,
           settings' \in Settings,
           records' \in Seq(Record), Len(records') <= MaxRecords,
           op' \in Operation \cup {NULL},
           flight' \subseteq Call,
           rows' \in [Requests -> {"unsent", "reserved", "open", "answered"}],
           busy' \in BOOLEAN,
           UNCHANGED <<up, recipe, sandbox, crashes>>
    PROVE  PoolTypeOK'
BY DEF PoolTypeOK

\* A step of an operation keeps the types.
LEMMA TypedWork ==
    ASSUME IInv, Work
    PROVE  PoolTypeOK'
<1>0. op \in Operation /\ op # NULL
  BY DEF Work, SaveSettings, Prepare, ChangeRecord, Recheck, Retire, SendDelete, FinishRetire,
         Fill, SendCreate, Created, Prepared, Assign, Reassign, Bind, SendAttach, Attached,
         Claimed, Complete, Fail, Finish, Answer, At, IInv, PoolTypeOK
<1>1. DOMAIN records \subseteq Ids /\ Unassigned \subseteq DOMAIN records /\ Slots \subseteq Unassigned
      /\ \A i \in DOMAIN records : records[i] \in Record
  BY RecordsTyped DEF IInv
<1>t. /\ settings \in Settings
      /\ records \in Seq(Record) /\ Len(records) <= MaxRecords
      /\ flight \subseteq Call /\ busy \in BOOLEAN
      /\ rows \in [Requests -> {"unsent", "reserved", "open", "answered"}]
      /\ recipe \in Recipes
      /\ PoolTypeOK
  BY DEF IInv, PoolTypeOK
<1>h. HandInState /\ op.todo \subseteq Unassigned
  BY <1>0 DEF IInv, AtHand
<1>r. ASSUME NEW b \in BOOLEAN PROVE [settings EXCEPT !.resting = b] \in Settings
  BY <1>t DEF Settings
<1>2. ASSUME NEW new \in Settings, SaveSettings(new) PROVE PoolTypeOK'
  <2>1. settings' \in Settings
    BY <1>2 DEF SaveSettings, Settings
  <2>2. op' \in Operation
    BY <1>0, <1>1, <1>2 DEF SaveSettings, Operation, Settings
  <2>3. rows' \in [Requests -> {"unsent", "reserved", "open", "answered"}]
    BY <1>t, <1>2 DEF SaveSettings
  <2> QED BY <1>2, <1>t, <2>1, <2>2, <2>3, TypedStep DEF SaveSettings, world
<1>3. CASE Prepare
  <2>1. settings' \in Settings
    BY <1>3, <1>r DEF Prepare
  <2>2. op' \in Operation
    BY <1>0, <1>3 DEF Prepare, Operation
  <2>3. rows' \in [Requests -> {"unsent", "reserved", "open", "answered"}]
    BY <1>t, <1>3 DEF Prepare
  <2> QED BY <1>3, <1>t, <2>1, <2>2, <2>3, TypedStep DEF Prepare, world
<1>4. CASE ChangeRecord
  <2>1. settings' \in Settings
    BY <1>4, <1>t DEF ChangeRecord, Settings
  <2>2. op' \in Operation
    <3>1. CASE op.id \in Slots /\ op.input = "recheck"
      BY <1>0, <1>4, <3>1 DEF ChangeRecord, Operation
    <3>2. CASE op.id \in Slots /\ op.input # "recheck"
      <4> DEFINE again == op.input = "replace"
      <4>1. op' = [op EXCEPT !.pc = "next", !.todo = {op.id}, !.refill = again]
        BY <1>4, <3>2 DEF ChangeRecord
      <4>2. again \in BOOLEAN /\ {op.id} \subseteq Ids
        BY <1>1, <3>2
      <4> HIDE DEF again
      <4> QED BY <1>0, <4>1, <4>2 DEF Operation
    <3>3. CASE op.id \notin Slots
      BY <1>0, <1>4, <3>3, Proceeded DEF ChangeRecord, Pcs
    <3> QED BY <3>1, <3>2, <3>3
  <2>3. rows' \in [Requests -> {"unsent", "reserved", "open", "answered"}]
    BY <1>t, <1>4 DEF ChangeRecord
  <2> QED BY <1>4, <1>t, <2>1, <2>2, <2>3, TypedStep DEF ChangeRecord, world
<1>5. CASE Recheck
  <2>1. op.id \in DOMAIN records
    BY <1>5, <1>h, <1>1 DEF Recheck, At, HandInState
  <2>2. op' \in Operation
    BY <1>0, <1>5, Proceeded DEF Recheck, Pcs
  <2>3. records' \in Seq(Record) /\ Len(records') = Len(records)
    <3>1. CASE Becomes(op.id, "removed")
      BY <1>t, <2>1, <3>1, Restated DEF States
    <3>2. CASE ~Becomes(op.id, "removed")
      <4> DEFINE r == [records[op.id] EXCEPT !.known = TRUE, !.started = TRUE,
                          !.state = IF sandbox[op.id].phase = "ready" THEN "ready" ELSE @]
      <4>1. Update(op.id, r)
        BY <1>5, <3>2 DEF Recheck
      <4>2. r \in Record
        BY <1>1, <2>1 DEF Record
      <4> HIDE DEF r
      <4> QED BY <4>1, <4>2, <1>t, <2>1, Updated
    <3> QED BY <3>1, <3>2
  <2> QED BY <1>5, <1>t, <2>2, <2>3, TypedStep DEF Recheck, world
<1>6. CASE Retire
  <2> DEFINE due == IF op.todo # {} \/ ~op.refill THEN op.todo ELSE Obsolete
             i == Min(due)
  <2>1. due \in SUBSET Nat /\ due \subseteq DOMAIN records /\ due # {}
    BY <1>1, <1>h, <1>6 DEF Obsolete, Ids, Retire
  <2>2. i \in DOMAIN records
    <3> HIDE DEF due
    <3> QED BY <2>1, MinBelongs
  <2>3. CASE BeginRetire(i)
    <3>1. op' \in Operation
      BY <1>0, <1>1, <2>2, <2>3 DEF BeginRetire, Operation
    <3>2. records' \in Seq(Record) /\ Len(records') = Len(records)
      BY <1>t, <2>2, <2>3, Restated DEF BeginRetire, States
    <3> QED BY <2>3, <1>t, <3>1, <3>2, TypedStep DEF BeginRetire, world
  <2>4. CASE ~BeginRetire(i)
    <3>1. /\ Proceed("finish")
          /\ UNCHANGED <<settings, records, busy, rows, up, recipe, world, crashes>>
      BY <1>6, <2>4 DEF Retire
    <3>2. op' \in Operation
      BY <1>0, <3>1, Proceeded DEF Pcs
    <3> QED BY <1>t, <3>1, <3>2, TypedStep DEF world
  <2> QED BY <2>3, <2>4
<1>7. CASE SendDelete
  <2>1. op' \in Operation
    BY <1>0, <1>7, Proceeded DEF SendDelete, Pcs
  <2>2. flight' \subseteq Call
    BY <1>1, <1>7, <1>h, <1>t DEF SendDelete, Delete, Call, At, HandInState
  <2> QED BY <1>7, <1>t, <2>1, <2>2, TypedStep DEF SendDelete
<1>8. CASE FinishRetire
  <2>1. op.id \in DOMAIN records /\ Removed
    BY <1>1, <1>8, <1>h DEF FinishRetire, At, HandInState
  <2>2. op' \in Operation
    BY <1>0, <2>1, Proceeded DEF Removed, Pcs
  <2>3. records' \in Seq(Record) /\ Len(records') = Len(records)
    BY <1>t, <2>1, Restated DEF Removed, States
  <2> QED BY <1>t, <2>1, <2>2, <2>3, TypedStep DEF Removed, world
<1>9. CASE Fill
  <2>1. Reservation \in Record
    BY <1>t DEF Reservation, Record, Settings
  <2>2. records' \in Seq(Record) /\ Len(records') = Len(records) + 1
    BY <1>9, <1>t, <2>1 DEF Fill
  <2>3. Len(records) + 1 \in Ids /\ Len(records') <= MaxRecords
    BY <1>9, <1>t, <2>2, PoolAssumption DEF Fill, Ids
  <2>4. op' \in Operation
    BY <1>0, <1>9, <2>3 DEF Fill, Operation
  <2> QED BY <1>9, <1>t, <2>2, <2>3, <2>4, TypedStep DEF Fill, world
<1>10. CASE SendCreate
  <2>1. op.id \in DOMAIN records
    BY <1>1, <1>10, <1>h DEF SendCreate, At, HandInState
  <2>2. [records[op.id] EXCEPT !.started = TRUE] \in Record
    BY <1>1, <2>1 DEF Record
  <2>3. records' \in Seq(Record) /\ Len(records') = Len(records)
    BY <1>10, <1>t, <2>1, <2>2, Updated DEF SendCreate
  <2>4. flight' \subseteq Call
    BY <1>1, <1>10, <1>t, <2>1 DEF SendCreate, Create, Call
  <2>5. op' \in Operation
    BY <1>0, <1>10, Proceeded DEF SendCreate, Pcs
  <2> QED BY <1>10, <1>t, <2>3, <2>4, <2>5, TypedStep DEF SendCreate
<1>11. CASE Created
  <2>1. op.id \in DOMAIN records
    BY <1>1, <1>11, <1>h DEF Created, At, HandInState
  <2>2. [records[op.id] EXCEPT !.known = TRUE] \in Record
    BY <1>1, <2>1 DEF Record
  <2>3. records' \in Seq(Record) /\ Len(records') = Len(records)
    BY <1>11, <1>t, <2>1, <2>2, Updated DEF Created
  <2>4. op' \in Operation
    BY <1>0, <1>11, Proceeded DEF Created, Pcs
  <2> QED BY <1>11, <1>t, <2>3, <2>4, TypedStep DEF Created, world
<1>12. CASE Prepared
  <2>1. op.id \in DOMAIN records
    BY <1>1, <1>12, <1>h DEF Prepared, At, HandInState
  <2>2. records' \in Seq(Record) /\ Len(records') = Len(records)
    BY <1>12, <1>t, <2>1, Restated DEF Prepared, States
  <2>3. op' \in Operation
    BY <1>0, <1>12, Proceeded DEF Prepared, Pcs
  <2> QED BY <1>12, <1>t, <2>2, <2>3, TypedStep DEF Prepared, world
<1>13. CASE Assign
  <2>1. op.id \in DOMAIN records
    BY <1>1, <1>13, <1>h DEF Assign, At, HandInState
  <2>2. [records[op.id] EXCEPT !.state = "claiming", !.conversation = op.conversation,
                               !.account = op.account] \in Record
    <3>1. op.conversation \in Conversations \cup {NULL} /\ op.account \in Accounts \cup {NULL}
      BY <1>0 DEF Operation
    <3>2. "claiming" \in States /\ records[op.id] \in Record
      BY <1>1, <2>1 DEF States
    <3> QED BY <3>1, <3>2, OwnedRecord
  <2>3. records' \in Seq(Record) /\ Len(records') = Len(records)
    BY <1>13, <1>t, <2>1, <2>2, Updated DEF Assign
  <2>4. op' \in Operation
    BY <1>0, <1>13, Proceeded DEF Assign, Pcs
  <2>5. settings' \in Settings
    BY <1>13, <1>r DEF Assign
  <2> QED BY <1>13, <1>t, <2>3, <2>4, <2>5, TypedStep DEF Assign, world
<1>14. CASE Reassign
  <2>1. op.id \in DOMAIN records
    BY <1>1, <1>14, <1>h DEF Reassign, At, HandInState
  <2>2. records' \in Seq(Record) /\ Len(records') = Len(records)
    BY <1>14, <1>t, <2>1, Restated DEF Reassign, States
  <2>3. op' \in Operation
    BY <1>0, <1>14, Proceeded DEF Reassign, Pcs
  <2> QED BY <1>14, <1>t, <2>2, <2>3, TypedStep DEF Reassign, world
<1>15. CASE Bind
  <2>1. op.account \in Accounts
    BY <1>15, <1>h DEF Bind, At, HandInState
  <2>2. op' \in Operation
    BY <1>0, <1>15, <2>1 DEF Bind, Desired, Providers, Operation
  <2> QED BY <1>15, <1>t, <2>2, TypedStep DEF Bind, world
<1>16. CASE SendAttach
  <2>1. op' \in Operation
    BY <1>0, <1>16, Proceeded DEF SendAttach, Pcs
  <2>2. op.providers \subseteq Providers /\ op.id \in Ids
    BY <1>0, <1>1, <1>16, <1>h DEF SendAttach, At, HandInState, Operation
  <2>3. flight' \subseteq Call
    BY <1>16, <1>t, <2>2 DEF SendAttach, Attach, Call
  <2> QED BY <1>16, <1>t, <2>1, <2>3, TypedStep DEF SendAttach
<1>17. CASE Attached
  <2>1. PICK p \in op.providers : op' = [op EXCEPT !.pc = "attach", !.providers = @ \ {p}]
    BY <1>17 DEF Attached
  <2>2. op' \in Operation
    BY <1>0, <2>1 DEF Operation
  <2> QED BY <1>17, <1>t, <2>2, TypedStep DEF Attached, world
<1>18. CASE Claimed
  <2>1. op.id \in DOMAIN records
    BY <1>1, <1>18, <1>h DEF Claimed, At, HandInState
  <2>2. records' \in Seq(Record) /\ Len(records') = Len(records)
    BY <1>18, <1>t, <2>1, Restated DEF Claimed, States
  <2>3. op' \in Operation
    BY <1>0, <1>18, Proceeded DEF Claimed, Pcs
  <2> QED BY <1>18, <1>t, <2>2, <2>3, TypedStep DEF Claimed, world
<1>19. CASE Complete
  <2>1. op' \in Operation
    BY <1>0, <1>19, Proceeded DEF Complete, Pcs
  <2> QED BY <1>19, <1>t, <2>1, TypedStep DEF Complete, world
<1>20. CASE Fail
  <2>1. op' \in Operation
    BY <1>0, <1>20, Proceeded DEF Fail, Pcs
  <2>2. settings' \in Settings
    BY <1>20, <1>r, <1>t DEF Fail, Settings
  <2>3. records' \in Seq(Record) /\ Len(records') = Len(records)
    <3>1. CASE op.pc \in {"recheck", "next"}
      BY <1>20, <1>t, <3>1 DEF Fail
    <3>2. CASE op.pc \notin {"recheck", "next"}
      <4>1. op.id \in DOMAIN records
        BY <1>1, <1>20, <1>h, <3>2 DEF Fail, OutOfTime, HandInState
      <4> QED BY <1>20, <1>t, <3>2, <4>1, Restated DEF Fail, States
    <3> QED BY <3>1, <3>2
  <2> QED BY <1>20, <1>t, <2>1, <2>2, <2>3, TypedStep DEF Fail, world
<1>21. CASE Finish
  <2>1. op' \in Operation \cup {NULL}
    BY <1>0, <1>21 DEF Finish, Operation
  <2> QED BY <1>21, <1>t, <2>1, TypedStep DEF Finish, world
<1>22. CASE Answer
  <2>1. rows' \in [Requests -> {"unsent", "reserved", "open", "answered"}]
    BY <1>t, <1>22 DEF Answer
  <2> QED BY <1>22, <1>t, <2>1, TypedStep DEF Answer, world
<1> QED BY <1>2, <1>3, <1>4, <1>5, <1>6, <1>7, <1>8, <1>9, <1>10, <1>11, <1>12, <1>13, <1>14,
           <1>15, <1>16, <1>17, <1>18, <1>19, <1>20, <1>21, <1>22 DEF Work

\* An operation is reserved, or the pool only wakes.
LEMMA TypedOperate ==
    ASSUME IInv, Operate
    PROVE  PoolTypeOK'
<1>t. /\ settings \in Settings
      /\ records \in Seq(Record) /\ Len(records) <= MaxRecords
      /\ flight \subseteq Call /\ busy \in BOOLEAN
      /\ rows \in [Requests -> {"unsent", "reserved", "open", "answered"}]
      /\ op \in Operation \cup {NULL}
      /\ PoolTypeOK
  BY DEF IInv, PoolTypeOK
<1>1. DOMAIN records \subseteq Ids /\ Slots \subseteq DOMAIN records
  BY <1>t, RecordsTyped
<1>i. /\ Idle \in Operation
      /\ Idle.pc = "next" /\ Idle.todo = {}
  BY DEF Idle, Operation
<1>r. ASSUME NEW b \in BOOLEAN PROVE [settings EXCEPT !.resting = b] \in Settings
  BY <1>t DEF Settings
<1>2. ASSUME NEW q \in Requests, NEW i \in Ids \cup {NULL},
             NEW input \in {"settings", "prepare", "remove", "replace", "recheck"},
             Mutate(q, input, i)
      PROVE  PoolTypeOK'
  <2>1. op' \in Operation /\ busy' \in BOOLEAN
    BY <1>2, <1>i DEF Mutate, Reserve, Operation
  <2>2. rows' \in [Requests -> {"unsent", "reserved", "open", "answered"}]
    BY <1>2, <1>t DEF Mutate
  <2> QED BY <1>2, <1>t, <2>1, <2>2, TypedStep DEF Mutate, world
<1>3. ASSUME NEW c \in Conversations, ClaimNothing(c) PROVE PoolTypeOK'
  <2>1. settings' \in Settings
    BY <1>3, <1>r DEF ClaimNothing
  <2> QED BY <1>3, <1>t, <2>1, TypedStep DEF ClaimNothing, world
<1>4. ASSUME NEW c \in Conversations, NEW account \in Accounts, Claim(c, account)
      PROVE  PoolTypeOK'
  <2> DEFINE spares == {i \in DOMAIN records : Claimable(i)}
  <2>1. spares \in SUBSET Nat /\ spares \subseteq Ids /\ spares # {}
    BY <1>1, <1>4 DEF Claim, Ids
  <2>2. Min(spares) \in Ids
    <3> HIDE DEF spares
    <3> QED BY <2>1, MinBelongs
  <2>3. op' \in Operation /\ busy' \in BOOLEAN
    BY <1>4, <1>i, <2>2 DEF Claim, Reserve, Operation
  <2> QED BY <1>4, <1>t, <2>3, TypedStep DEF Claim, world
<1>5. ASSUME NEW c \in Conversations, NEW account \in Accounts, RecoverClaim(c, account)
      PROVE  PoolTypeOK'
  <2>1. PICK i \in Bound(c) :
           /\ Reserve([Idle EXCEPT !.pc = "recovery", !.id = i,
                                   !.conversation = c, !.account = account])
           /\ UNCHANGED <<settings, records, rows, up, recipe, world, crashes>>
    BY <1>5 DEF RecoverClaim
  <2>2. i \in Ids
    BY <1>1 DEF Bound
  <2>3. op' \in Operation /\ busy' \in BOOLEAN
    BY <1>i, <2>1, <2>2 DEF Reserve, Operation
  <2> QED BY <1>t, <2>1, <2>3, TypedStep DEF world
<1>6. CASE Expire
  <2>1. op' \in Operation /\ busy' \in BOOLEAN
    BY <1>1, <1>6, <1>i DEF Expire, Reserve, Operation
  <2>2. settings' \in Settings
    BY <1>6, <1>r DEF Expire
  <2> QED BY <1>6, <1>t, <2>1, <2>2, TypedStep DEF Expire, world
<1>7. CASE Refill
  <2>1. op' \in Operation /\ busy' \in BOOLEAN
    BY <1>7, <1>i DEF Refill, Reserve, Operation
  <2> QED BY <1>7, <1>t, <2>1, TypedStep DEF Refill, world
<1> QED BY <1>1, <1>2, <1>3, <1>4, <1>5, <1>6, <1>7 DEF Operate, Reconcile

\* A call that lands or is lost keeps the types.
LEMMA TypedGateway ==
    ASSUME PoolTypeOK, Gateway
    PROVE  PoolTypeOK'
<1>t. /\ sandbox \in [Ids -> [phase : {"absent", "starting", "ready"}, providers : SUBSET Providers]]
      /\ flight \subseteq Call
  BY DEF PoolTypeOK
<1>1. ASSUME NEW i \in Ids, CreateLands(i) \/ DeleteLands(i) \/ Boots(i)
      PROVE  /\ sandbox' \in [Ids -> [phase : {"absent", "starting", "ready"},
                                     providers : SUBSET Providers]]
             /\ flight' \subseteq Call
  BY <1>t, <1>1 DEF CreateLands, DeleteLands, Boots
<1>2. ASSUME NEW i \in Ids, NEW p \in Providers, AttachLands(i, p)
      PROVE  /\ sandbox' \in [Ids -> [phase : {"absent", "starting", "ready"},
                                     providers : SUBSET Providers]]
             /\ flight' \subseteq Call
  BY <1>t, <1>2 DEF AttachLands
<1>3. ASSUME CallLost
      PROVE  sandbox' = sandbox /\ flight' \subseteq Call
  BY <1>t, <1>3 DEF CallLost
<1>4. /\ sandbox' \in [Ids -> [phase : {"absent", "starting", "ready"},
                              providers : SUBSET Providers]]
      /\ flight' \subseteq Call
  BY <1>t, <1>1, <1>2, <1>3 DEF Gateway, CallLost
<1> QED BY <1>4 DEF PoolTypeOK, Gateway

\* What a restart makes of a record.
LEMMA InterruptedRecord ==
    ASSUME NEW r \in Record
    PROVE  /\ Interrupted(r) \in Record
           /\ Interrupted(r).state = r.state \/ Interrupted(r).state = "uncertain"
           /\ Interrupted(r).known = r.known /\ Interrupted(r).started = r.started
           /\ Interrupted(r).conversation = r.conversation
           /\ Interrupted(r).account = r.account
BY DEF Interrupted, Record

\* recoverInterrupted() restates records and does nothing else to them.
LEMMA Restarted ==
    ASSUME PoolTypeOK, Restart
    PROVE  /\ records' \in Seq(Record) /\ Len(records') = Len(records)
           /\ DOMAIN records' = DOMAIN records
           /\ \A i \in DOMAIN records :
                 /\ records'[i].state = records[i].state \/ records'[i].state = "uncertain"
                 /\ records'[i].known = records[i].known
                 /\ records'[i].started = records[i].started
                 /\ records'[i].conversation = records[i].conversation
                 /\ records'[i].account = records[i].account
<1>1. records \in Seq(Record) /\ \A i \in DOMAIN records : records[i] \in Record
  BY RecordsTyped DEF PoolTypeOK
<1>2. CASE ~busy
  BY <1>1, <1>2 DEF Restart
<1>3. CASE busy
  <2>1. records' = [i \in DOMAIN records |-> Interrupted(records[i])]
    BY <1>3 DEF Restart
  <2> QED BY <1>1, <2>1, InterruptedRecord
<1> QED BY <1>2, <1>3

\* A death and a restart keep the types.
LEMMA TypedProcess ==
    ASSUME PoolTypeOK, Crash \/ Restart
    PROVE  PoolTypeOK'
<1>1. CASE Crash
  <2>1. crashes' \in 0 .. MaxCrashes
    BY <1>1, PoolAssumption DEF Crash, PoolTypeOK
  <2> QED BY <1>1, <2>1 DEF Crash, PoolTypeOK, world
<1>2. CASE Restart
  BY <1>2, Restarted DEF Restart, PoolTypeOK, world
<1> QED BY <1>1, <1>2

-----------------------------------------------------------------------------
(* The world against the ledger.                                           *)

\* What the ledger may do while the gateway rests: keep what it knows and who
\* owns what, and let go only of what was not sent.
Careful ==
    /\ DOMAIN records \subseteq DOMAIN records'
    /\ \A i \in DOMAIN records :
          /\ records[i].started => records'[i].started
          /\ records'[i].known => \/ records[i].known
                                  \/ records'[i].started /\ Create(i) \notin flight
          /\ Sent(i) => records'[i].state # "removed"
          /\ records[i].conversation # NULL =>
                /\ records'[i].conversation # NULL
                /\ records'[i].account = records[i].account
          /\ records'[i].conversation # NULL =>
                records'[i].state \in {"claiming", "claimed", "uncertain"}
    /\ \A i \in DOMAIN records' \ DOMAIN records :
          /\ ~records'[i].known
          /\ records'[i].conversation = NULL

\* A careful ledger stays in step with the gateway.
LEMMA CarefulKeepsWorld ==
    ASSUME World, Careful, UNCHANGED world
    PROVE  World'
<1>1. /\ \A i \in Ids : Exists(i)' <=> Exists(i)
      /\ \A i \in Ids : Sent(i)' <=> Sent(i)
      /\ \A i \in Ids, p \in Providers : MayHold(i, p)' <=> MayHold(i, p)
      /\ flight' = flight
  BY DEF world, Exists, Sent, MayHold
<1>2. AccountedFor'
  <2> SUFFICES ASSUME NEW i \in Ids
               PROVE  /\ Sent(i)' => /\ i \in DOMAIN records'
                                     /\ records'[i].started
                                     /\ records'[i].state # "removed"
                      /\ Exists(i)' => Create(i) \notin flight'
                      /\ i \in DOMAIN records' /\ records'[i].known =>
                            records'[i].started /\ Create(i) \notin flight'
    BY DEF AccountedFor, Create
  <2> QED BY <1>1 DEF World, AccountedFor, Careful
<1>3. Owned'
  <2> SUFFICES ASSUME NEW i \in Ids, NEW p \in Providers, MayHold(i, p)'
               PROVE  /\ i \in DOMAIN records'
                      /\ records'[i].conversation # NULL
                      /\ p \in Desired(records'[i].account)
    BY DEF Owned, Providers, Desired
  <2> QED BY <1>1 DEF World, Owned, Careful
<1>4. AssignedStates'
  BY DEF AssignedStates, Careful
<1> QED BY <1>2, <1>3, <1>4 DEF World

\* What the gateway may do while the ledger rests: take effect, or lose calls.
Honest ==
    /\ \A i \in Ids : /\ Create(i) \in flight' => Create(i) \in flight
                      /\ Sent(i)' => Sent(i)
                      /\ Exists(i)' => Create(i) \notin flight'
    /\ \A i \in Ids, p \in Providers : MayHold(i, p)' => MayHold(i, p)

\* So does a ledger at rest under an honest gateway.
LEMMA HonestKeepsWorld ==
    ASSUME World, Honest, UNCHANGED records
    PROVE  World'
<1>1. AccountedFor'
  BY DEF World, AccountedFor, Honest, Create
<1>2. Owned'
  BY DEF World, Owned, Honest, Desired, Providers
<1>3. AssignedStates'
  BY DEF World, AssignedStates
<1> QED BY <1>1, <1>2, <1>3 DEF World

\* A change of state alone.
LEMMA RestatedKeepsWorld ==
    ASSUME PoolTypeOK, World, NEW i \in DOMAIN records, NEW state \in States,
           Becomes(i, state), UNCHANGED world,
           Sent(i) => state # "removed",
           records[i].conversation # NULL => state \in {"claiming", "claimed", "uncertain"}
    PROVE  World'
<1>1. DOMAIN records \subseteq Ids
  BY RecordsTyped
<1>2. /\ DOMAIN records' = DOMAIN records
      /\ records'[i].state = state
      /\ \A j \in DOMAIN records \ {i} : records'[j] = records[j]
      /\ \A j \in DOMAIN records :
            /\ records'[j].known = records[j].known
            /\ records'[j].started = records[j].started
            /\ records'[j].conversation = records[j].conversation
            /\ records'[j].account = records[j].account
  BY Restated
<1>3. Careful
  BY <1>1, <1>2 DEF Careful, World, AccountedFor, AssignedStates
<1> QED BY <1>3, CarefulKeepsWorld

\* No step of an operation loses a sandbox or attaches one for another owner.
LEMMA WorldWork ==
    ASSUME IInv, Work
    PROVE  World'
<1>0. op # NULL /\ op \in Operation
  BY DEF Work, SaveSettings, Prepare, ChangeRecord, Recheck, Retire, SendDelete, FinishRetire,
         Fill, SendCreate, Created, Prepared, Assign, Reassign, Bind, SendAttach, Attached,
         Claimed, Complete, Fail, Finish, Answer, At, IInv, PoolTypeOK
<1>1. DOMAIN records \subseteq Ids /\ Unassigned \subseteq DOMAIN records /\ Slots \subseteq Unassigned
      /\ \A i \in DOMAIN records : records[i] \in Record
  BY RecordsTyped DEF IInv
<1>t. /\ PoolTypeOK /\ World
      /\ records \in Seq(Record)
  BY DEF IInv, PoolTypeOK
<1>h. HandInState /\ op.todo \subseteq Unassigned
  BY <1>0 DEF IInv, AtHand
<1>s. ASSUME UNCHANGED <<records, world>> PROVE World'
  <2>1. Careful
    BY <1>s, <1>t, <1>1 DEF Careful, World, AccountedFor, AssignedStates
  <2> QED BY <1>s, <1>t, <2>1, CarefulKeepsWorld
<1>2. ASSUME NEW new \in Settings, SaveSettings(new) PROVE World'
  BY <1>2, <1>s DEF SaveSettings
<1>3. CASE Prepare \/ ChangeRecord \/ Bind \/ Attached \/ Complete \/ Finish \/ Answer
  BY <1>3, <1>s DEF Prepare, ChangeRecord, Bind, Attached, Complete, Finish, Answer
<1>4. CASE Recheck
  <2>1. op.id \in Slots /\ op.id \in DOMAIN records /\ op.id \in Ids
    BY <1>4, <1>h, <1>1 DEF Recheck, At, HandInState
  <2>2. records[op.id].conversation = NULL
    BY <2>1 DEF Slots
  <2>3. CASE ~Exists(op.id) /\ Releasable(records[op.id]) /\ Becomes(op.id, "removed")
    <3>1. ~Sent(op.id)
      BY <1>t, <2>1, <2>3 DEF World, AccountedFor, Releasable, Sent
    <3> QED BY <1>4, <1>t, <2>1, <2>2, <2>3, <3>1, RestatedKeepsWorld DEF Recheck, States
  <2>4. CASE Exists(op.id)
    <3> DEFINE r == [records[op.id] EXCEPT !.known = TRUE, !.started = TRUE,
                        !.state = IF sandbox[op.id].phase = "ready" THEN "ready" ELSE @]
    <3>1. Update(op.id, r)
      BY <1>4, <2>4 DEF Recheck
    <3>2. /\ r \in Record
          /\ r.started /\ r.conversation = NULL
          /\ r.state = "ready" \/ r.state = records[op.id].state
      BY <1>1, <2>1, <2>2 DEF Record
    <3> HIDE DEF r
    <3>3. /\ DOMAIN records' = DOMAIN records
          /\ records'[op.id] = r
          /\ \A j \in DOMAIN records \ {op.id} : records'[j] = records[j]
      BY <1>t, <2>1, <3>1, <3>2, Updated
    <3>4. /\ Create(op.id) \notin flight
          /\ records[op.id].state # "removed"
      BY <1>t, <2>1, <2>4 DEF World, AccountedFor, Slots
    <3>5. Careful
      BY <1>1, <1>t, <2>1, <2>2, <3>2, <3>3, <3>4
      DEF Careful, World, AccountedFor, AssignedStates
    <3> QED BY <1>4, <1>t, <3>5, CarefulKeepsWorld DEF Recheck
  <2> QED BY <1>4, <2>3, <2>4 DEF Recheck
<1>5. CASE Retire
  <2> DEFINE due == IF op.todo # {} \/ ~op.refill THEN op.todo ELSE Obsolete
             i == Min(due)
  <2>1. due \in SUBSET Nat /\ due \subseteq Unassigned /\ due # {}
    BY <1>1, <1>h, <1>5 DEF Obsolete, Ids, Retire
  <2>2. i \in Unassigned
    <3> HIDE DEF due
    <3> QED BY <2>1, MinBelongs
  <2>3. CASE BeginRetire(i)
    <3>1. i \in DOMAIN records /\ records[i].conversation = NULL
      BY <2>2 DEF Unassigned
    <3>2. Becomes(i, "removing") /\ UNCHANGED world
      BY <2>3 DEF BeginRetire
    <3> HIDE DEF i
    <3> QED BY <1>t, <3>1, <3>2, RestatedKeepsWorld DEF States
  <2>4. CASE ~BeginRetire(i)
    BY <1>5, <1>s, <2>4 DEF Retire
  <2> QED BY <2>3, <2>4
<1>6. CASE SendDelete
  <2>1. Honest
    BY <1>6, <1>t
    DEF SendDelete, Honest, World, AccountedFor, Sent, Exists, MayHold, Create, Delete, Attach
  <2> QED BY <1>6, <1>t, <2>1, HonestKeepsWorld DEF SendDelete
<1>7. CASE FinishRetire
  <2>1. op.id \in Unassigned /\ records[op.id].known /\ Removed
    BY <1>7, <1>h DEF FinishRetire, At, HandInState
  <2>2. op.id \in DOMAIN records /\ op.id \in Ids /\ records[op.id].conversation = NULL
    BY <1>1, <2>1 DEF Unassigned
  <2>3. ~Sent(op.id)
    BY <1>t, <2>1, <2>2 DEF World, AccountedFor, Removed, Sent
  <2> QED BY <1>t, <2>1, <2>2, <2>3, RestatedKeepsWorld DEF Removed, States
<1>8. CASE Fill
  <2>1. /\ DOMAIN records' = DOMAIN records \cup {Len(records) + 1}
        /\ \A i \in DOMAIN records : records'[i] = records[i]
        /\ records'[Len(records) + 1] = Reservation
        /\ UNCHANGED world
    BY <1>8, <1>t DEF Fill
  <2>2. ~Reservation.known /\ Reservation.conversation = NULL
    BY DEF Reservation
  <2>3. Careful
    BY <1>1, <1>t, <2>1, <2>2 DEF Careful, World, AccountedFor, AssignedStates
  <2> QED BY <1>t, <2>1, <2>3, CarefulKeepsWorld
<1>9. CASE SendCreate
  <2> DEFINE r == [records[op.id] EXCEPT !.started = TRUE]
  <2>1. op.id \in Slots /\ op.id \in DOMAIN records /\ op.id \in Ids /\ ~records[op.id].started
    BY <1>1, <1>9, <1>h DEF SendCreate, At, HandInState
  <2>2. /\ records[op.id].conversation = NULL /\ records[op.id].state # "removed"
        /\ ~records[op.id].known
        /\ ~Exists(op.id)
    BY <1>t, <2>1 DEF World, AccountedFor, Slots, Sent
  <2>3. /\ r \in Record /\ r.started
        /\ r.conversation = NULL /\ r.state # "removed" /\ ~r.known
    <3>1. PICK old \in Record : records[op.id] = old
      BY <2>1, <1>t, RecordsTyped
    <3>2. r = [old EXCEPT !.started = TRUE]
      BY <3>1
    <3>3. old.conversation = NULL /\ old.state # "removed" /\ ~old.known
      BY <2>2, <3>1
    <3> HIDE DEF r
    <3> QED BY <3>2, <3>3 DEF Record
  <2> HIDE DEF r
  <2>4. /\ DOMAIN records' = DOMAIN records
        /\ records'[op.id] = r
        /\ \A j \in DOMAIN records \ {op.id} : records'[j] = records[j]
    <3>1. Update(op.id, r)
      BY <1>9 DEF SendCreate, r
    <3> QED BY <1>t, <2>1, <2>3, <3>1, Updated
  <2>5. /\ \A i \in Ids : Exists(i)' <=> Exists(i)
        /\ \A i \in Ids : Create(i) \in flight' <=> (Create(i) \in flight \/ i = op.id)
        /\ \A i \in Ids, p \in Providers : MayHold(i, p)' <=> MayHold(i, p)
    BY <1>9 DEF SendCreate, Exists, Create, Attach, MayHold
  <2>6. AccountedFor'
    <3> SUFFICES ASSUME NEW i \in Ids
                 PROVE  /\ Sent(i)' => /\ i \in DOMAIN records'
                                       /\ records'[i].started
                                       /\ records'[i].state # "removed"
                        /\ Exists(i)' => Create(i) \notin flight'
                        /\ i \in DOMAIN records' /\ records'[i].known =>
                              records'[i].started /\ Create(i) \notin flight'
      BY DEF AccountedFor, Create
    <3>1. CASE i = op.id
      BY <2>1, <2>2, <2>3, <2>4, <2>5, <3>1
    <3>2. CASE i # op.id
      BY <1>t, <2>4, <2>5, <3>2 DEF World, AccountedFor, Sent, Create
    <3> QED BY <3>1, <3>2
  <2>7. Owned'
    <3> SUFFICES ASSUME NEW i \in Ids, NEW p \in Providers, MayHold(i, p)'
                 PROVE  /\ i \in DOMAIN records'
                        /\ records'[i].conversation # NULL
                        /\ p \in Desired(records'[i].account)
      BY DEF Owned, Providers, Desired
    <3> QED BY <1>t, <2>2, <2>4, <2>5 DEF World, Owned
  <2>8. AssignedStates'
    BY <1>t, <2>3, <2>4 DEF World, AssignedStates
  <2> QED BY <2>6, <2>7, <2>8 DEF World
<1>10. CASE Created
  <2> DEFINE r == [records[op.id] EXCEPT !.known = TRUE]
  <2>1. op.id \in Unassigned /\ op.id \in DOMAIN records /\ op.id \in Ids /\ records[op.id].started
    BY <1>1, <1>10, <1>h DEF Created, At, HandInState
  <2>2. /\ records[op.id].conversation = NULL
        /\ Create(op.id) \notin flight
    BY <1>10, <2>1 DEF Created, Unassigned
  <2>3. r \in Record /\ r.started /\ r.conversation = NULL /\ r.state = records[op.id].state
    <3>1. records[op.id] \in Record
      BY <1>1, <2>1
    <3>2. r \in Record /\ r.started = records[op.id].started
      BY <3>1 DEF Record
    <3>3. r.conversation = records[op.id].conversation /\ r.state = records[op.id].state
      BY <3>1 DEF Record
    <3> HIDE DEF r
    <3> QED BY <2>1, <2>2, <3>2, <3>3
  <2> HIDE DEF r
  <2>4. /\ DOMAIN records' = DOMAIN records
        /\ records'[op.id] = r
        /\ \A j \in DOMAIN records \ {op.id} : records'[j] = records[j]
    <3>1. Update(op.id, r)
      BY <1>10 DEF Created, r
    <3> QED BY <1>t, <2>1, <2>3, <3>1, Updated
  <2>5. Careful
    BY <1>1, <1>t, <2>1, <2>2, <2>3, <2>4 DEF Careful, World, AccountedFor, AssignedStates
  <2> QED BY <1>10, <1>t, <2>5, CarefulKeepsWorld DEF Created
<1>11. CASE Prepared
  <2>1. op.id \in DOMAIN records /\ records[op.id].conversation = NULL
    BY <1>11, <1>h DEF Prepared, At, HandInState, Unassigned
  <2> QED BY <1>11, <1>t, <2>1, RestatedKeepsWorld DEF Prepared, States
<1>12. CASE Assign
  <2> DEFINE r == [records[op.id] EXCEPT !.state = "claiming", !.conversation = op.conversation,
                                         !.account = op.account]
  <2>1. /\ op.id \in Unassigned /\ op.id \in DOMAIN records /\ op.id \in Ids
        /\ op.conversation # NULL
    BY <1>1, <1>12, <1>h DEF Assign, At, HandInState
  <2>2. records[op.id].conversation = NULL
    BY <2>1 DEF Unassigned
  <2>3. /\ r \in Record /\ r.state = "claiming" /\ r.conversation # NULL
        /\ r.known = records[op.id].known /\ r.started = records[op.id].started
    <3>1. op.conversation \in Conversations \cup {NULL} /\ op.account \in Accounts \cup {NULL}
      BY <1>0 DEF Operation
    <3>2. "claiming" \in States /\ records[op.id] \in Record
      BY <1>1, <2>1 DEF States
    <3>3. r \in Record
      BY <3>1, <3>2, OwnedRecord
    <3>4. /\ r.state = "claiming" /\ r.conversation = op.conversation
          /\ r.known = records[op.id].known /\ r.started = records[op.id].started
      BY <3>2 DEF Record
    <3> HIDE DEF r
    <3> QED BY <2>1, <3>3, <3>4
  <2> HIDE DEF r
  <2>4. /\ DOMAIN records' = DOMAIN records
        /\ records'[op.id] = r
        /\ \A j \in DOMAIN records \ {op.id} : records'[j] = records[j]
    <3>1. Update(op.id, r)
      BY <1>12 DEF Assign, r
    <3> QED BY <1>t, <2>1, <2>3, <3>1, Updated
  <2>5. Careful
    BY <1>1, <1>t, <2>1, <2>2, <2>3, <2>4 DEF Careful, World, AccountedFor, AssignedStates
  <2> QED BY <1>12, <1>t, <2>5, CarefulKeepsWorld DEF Assign
<1>13. CASE Reassign
  <2>1. op.id \in DOMAIN records
    BY <1>13, <1>h DEF Reassign, At, HandInState
  <2> QED BY <1>13, <1>t, <2>1, RestatedKeepsWorld DEF Reassign, States
<1>14. CASE Claimed
  <2>1. op.id \in DOMAIN records
    BY <1>14, <1>h DEF Claimed, At, HandInState
  <2> QED BY <1>14, <1>t, <2>1, RestatedKeepsWorld DEF Claimed, States
<1>15. CASE SendAttach
  <2>1. PICK p \in op.providers : flight' = flight \cup {Attach(op.id, p)}
    BY <1>15 DEF SendAttach
  <2>2. /\ op.id \in DOMAIN records /\ records[op.id].conversation # NULL
        /\ p \in Desired(records[op.id].account)
    BY <1>15, <1>h, <2>1 DEF SendAttach, At, HandInState
  <2>3. /\ \A i \in Ids : Exists(i)' <=> Exists(i)
        /\ \A i \in Ids : Create(i) \in flight' <=> Create(i) \in flight
        /\ \A i \in Ids, q \in Providers : MayHold(i, q)' => MayHold(i, q) \/ (i = op.id /\ q = p)
        /\ records' = records
    <3>1. sandbox' = sandbox /\ records' = records
      BY <1>15 DEF SendAttach
    <3>2. \A i \in Ids : Create(i) \in flight' <=> Create(i) \in flight
      BY <2>1 DEF Create, Attach
    <3>3. ASSUME NEW i \in Ids, NEW q \in Providers, MayHold(i, q)', ~MayHold(i, q)
          PROVE  i = op.id /\ q = p
      <4>1. Attach(i, q) \in flight' /\ Attach(i, q) \notin flight
        BY <3>1, <3>3 DEF MayHold, Attach
      <4>2. Attach(i, q) = Attach(op.id, p)
        BY <2>1, <4>1
      <4>3. Attach(i, q).id = Attach(op.id, p).id
            /\ Attach(i, q).provider = Attach(op.id, p).provider
        BY <4>2
      <4> QED BY <4>3 DEF Attach
    <3>4. \A i \in Ids : Exists(i)' <=> Exists(i)
      BY <3>1 DEF Exists
    <3> QED BY <3>1, <3>2, <3>3, <3>4
  <2>4. AccountedFor'
    <3> SUFFICES ASSUME NEW i \in Ids
                 PROVE  /\ Sent(i)' => /\ i \in DOMAIN records'
                                       /\ records'[i].started
                                       /\ records'[i].state # "removed"
                        /\ Exists(i)' => Create(i) \notin flight'
                        /\ i \in DOMAIN records' /\ records'[i].known =>
                              records'[i].started /\ Create(i) \notin flight'
      BY DEF AccountedFor, Create
    <3>1. Sent(i)' => Sent(i)
      BY <2>3 DEF Sent, Create
    <3> QED BY <1>t, <2>3, <3>1 DEF World, AccountedFor
  <2>5. Owned'
    <3> SUFFICES ASSUME NEW i \in Ids, NEW q \in Providers, MayHold(i, q)'
                 PROVE  /\ i \in DOMAIN records
                        /\ records[i].conversation # NULL
                        /\ q \in Desired(records[i].account)
      BY <2>3 DEF Owned, Providers, Desired
    <3> QED BY <1>t, <2>2, <2>3 DEF World, Owned
  <2>6. AssignedStates'
    BY <1>t, <2>3 DEF World, AssignedStates
  <2> QED BY <2>4, <2>5, <2>6 DEF World
<1>16. CASE Fail
  <2>1. CASE op.pc \in {"recheck", "next"}
    BY <1>16, <1>s, <2>1 DEF Fail
  <2>2. CASE op.pc \notin {"recheck", "next"}
    <3>1. op.id \in DOMAIN records
      BY <1>1, <1>16, <1>h, <2>2 DEF Fail, OutOfTime, HandInState
    <3> QED BY <1>16, <1>t, <2>2, <3>1, RestatedKeepsWorld DEF Fail, States
  <2> QED BY <2>1, <2>2
<1> QED BY <1>2, <1>3, <1>4, <1>5, <1>6, <1>7, <1>8, <1>9, <1>10, <1>11, <1>12, <1>13, <1>14,
           <1>15, <1>16 DEF Work

\* The gateway is honest: a create lands once, nothing appears unasked.
LEMMA WorldGateway ==
    ASSUME PoolTypeOK, World, Gateway
    PROVE  World'
<1>t. sandbox \in [Ids -> [phase : {"absent", "starting", "ready"}, providers : SUBSET Providers]]
  BY DEF PoolTypeOK
<1>1. ASSUME NEW i \in Ids, CreateLands(i) PROVE Honest
  BY <1>1, <1>t DEF CreateLands, Honest, World, AccountedFor, Sent, Exists, MayHold, Create, Attach
<1>2. ASSUME NEW i \in Ids, DeleteLands(i) PROVE Honest
  BY <1>2, <1>t
  DEF DeleteLands, Honest, World, AccountedFor, Sent, Exists, MayHold, Create, Attach, Delete
<1>3. ASSUME NEW i \in Ids, Boots(i) PROVE Honest
  BY <1>3, <1>t DEF Boots, Honest, World, AccountedFor, Sent, Exists, MayHold, Create, Attach
<1>4. ASSUME NEW i \in Ids, NEW p \in Providers, AttachLands(i, p) PROVE Honest
  BY <1>4, <1>t DEF AttachLands, Honest, World, AccountedFor, Sent, Exists, MayHold, Create, Attach
<1>5. ASSUME CallLost PROVE Honest
  BY <1>5 DEF CallLost, Honest, World, AccountedFor, Sent, Exists, MayHold, Create, Attach
<1>6. Honest
  BY <1>1, <1>2, <1>3, <1>4, <1>5 DEF Gateway
<1> QED BY <1>6, HonestKeepsWorld DEF Gateway

\* A restart is careful: it forgets neither a sandbox nor an owner.
LEMMA WorldRestart ==
    ASSUME PoolTypeOK, World, Restart
    PROVE  World'
<1>1. Careful
  BY Restarted, RecordsTyped DEF Careful, World, AccountedFor, AssignedStates
<1> QED BY <1>1, CarefulKeepsWorld DEF Restart

-----------------------------------------------------------------------------
(* What the operation relies on.                                           *)

\* Between records, and while it is being answered, it relies on little.
LEMMA Rested ==
    ASSUME op' = NULL \/ (/\ up'
                          /\ op'.todo \subseteq Unassigned'
                          /\ op'.pc \in {"admitted", "next", "finish", "answer"})
    PROVE  AtHand'
BY DEF AtHand, HandInState

\* Each step leaves the record as the next one expects it.
LEMMA AtHandWork ==
    ASSUME IInv, Work
    PROVE  AtHand'
<1>0. op # NULL /\ op \in Operation /\ up
  BY DEF Work, SaveSettings, Prepare, ChangeRecord, Recheck, Retire, SendDelete, FinishRetire,
         Fill, SendCreate, Created, Prepared, Assign, Reassign, Bind, SendAttach, Attached,
         Claimed, Complete, Fail, Finish, Answer, At, IInv, PoolTypeOK
<1>1. DOMAIN records \subseteq Ids /\ Unassigned \subseteq DOMAIN records /\ Slots \subseteq Unassigned
      /\ \A i \in DOMAIN records : records[i] \in Record
  BY RecordsTyped DEF IInv
<1>t. PoolTypeOK /\ records \in Seq(Record)
  BY DEF IInv, PoolTypeOK
<1>h. HandInState /\ op.todo \subseteq Unassigned
  BY <1>0 DEF IInv, AtHand
<1>u. ASSUME UNCHANGED records PROVE Unassigned' = Unassigned /\ Slots' = Slots
  BY <1>u DEF Unassigned, Slots
<1>p. ASSUME NEW pc \in Pcs, Proceed(pc)
      PROVE  /\ op'.pc = pc /\ op'.id = op.id /\ op'.todo = op.todo
             /\ op'.conversation = op.conversation /\ op'.account = op.account
             /\ op'.providers = op.providers
  BY <1>0, <1>p, Proceeded
<1>2. ASSUME NEW new \in Settings, SaveSettings(new) PROVE AtHand'
  <2>1. op'.pc = "next" /\ op'.todo \subseteq Slots /\ up' /\ UNCHANGED records
    BY <1>0, <1>2 DEF SaveSettings, Operation
  <2> QED BY <1>1, <1>u, <2>1, Rested
<1>3. CASE Prepare
  <2>1. op'.pc = "next" /\ op'.todo = op.todo /\ up' /\ UNCHANGED records
    BY <1>0, <1>3 DEF Prepare, Operation
  <2> QED BY <1>h, <1>u, <2>1, Rested
<1>4. CASE ChangeRecord
  <2>1. up' /\ UNCHANGED records
    BY <1>0, <1>4 DEF ChangeRecord
  <2>2. CASE op.id \in Slots /\ op.input = "recheck"
    <3>1. op'.pc = "recheck" /\ op'.id = op.id /\ op'.todo = op.todo
      BY <1>0, <1>4, <2>2 DEF ChangeRecord, Operation
    <3> QED BY <1>h, <1>u, <2>1, <2>2, <3>1 DEF AtHand, HandInState
  <2>3. CASE op.id \in Slots /\ op.input # "recheck"
    <3> DEFINE again == op.input = "replace"
    <3>1. op' = [op EXCEPT !.pc = "next", !.todo = {op.id}, !.refill = again]
      BY <1>4, <2>3 DEF ChangeRecord
    <3> HIDE DEF again
    <3>2. op'.pc = "next" /\ op'.todo = {op.id}
      BY <1>0, <3>1 DEF Operation
    <3> QED BY <1>1, <1>u, <2>1, <2>3, <3>2, Rested
  <2>4. CASE op.id \notin Slots
    <3>1. op'.pc = "finish" /\ op'.todo = op.todo
      BY <1>p, <1>4, <2>4 DEF ChangeRecord, Pcs
    <3> QED BY <1>h, <1>u, <2>1, <3>1, Rested
  <2> QED BY <2>2, <2>3, <2>4
<1>5. CASE Recheck
  <2>1. op.id \in Slots /\ op.id \in DOMAIN records
    BY <1>1, <1>5, <1>h DEF Recheck, At, HandInState
  <2>2. op'.pc = "finish" /\ op'.todo = op.todo /\ up'
    BY <1>0, <1>p, <1>5 DEF Recheck, Pcs
  <2>3. Unassigned' = Unassigned
    <3>1. CASE Becomes(op.id, "removed")
      BY <1>t, <2>1, <3>1, Restated DEF States
    <3>2. CASE ~Becomes(op.id, "removed")
      <4> DEFINE r == [records[op.id] EXCEPT !.known = TRUE, !.started = TRUE,
                          !.state = IF sandbox[op.id].phase = "ready" THEN "ready" ELSE @]
      <4>1. Update(op.id, r)
        BY <1>5, <3>2 DEF Recheck
      <4>2. r \in Record /\ r.conversation = records[op.id].conversation
        BY <1>1, <2>1 DEF Record
      <4> HIDE DEF r
      <4> QED BY <1>t, <2>1, <4>1, <4>2, Updated DEF Unassigned
    <3> QED BY <3>1, <3>2
  <2> QED BY <1>h, <2>2, <2>3, Rested
<1>6. CASE Retire
  <2> DEFINE due == IF op.todo # {} \/ ~op.refill THEN op.todo ELSE Obsolete
             i == Min(due)
  <2>1. due \in SUBSET Nat /\ due \subseteq Unassigned /\ due # {}
    BY <1>1, <1>h, <1>6 DEF Obsolete, Ids, Retire
  <2>2. i \in Unassigned
    <3> HIDE DEF due
    <3> QED BY <2>1, MinBelongs
  <2>3. CASE records[i].known
    <3>1. BeginRetire(i)
      BY <1>6, <2>3 DEF Retire
    <3> HIDE DEF i
    <3>2. op'.pc = "removal" /\ op'.id = i /\ op'.todo \subseteq op.todo /\ up'
      BY <1>0, <3>1 DEF BeginRetire, Operation
    <3>3. i \in DOMAIN records /\ Becomes(i, "removing")
      BY <1>1, <2>2, <3>1 DEF BeginRetire
    <3>4. Unassigned' = Unassigned /\ records'[i].known
      BY <1>t, <2>3, <3>3, Restated DEF States
    <3> QED BY <1>h, <2>2, <3>2, <3>4 DEF AtHand, HandInState
  <2>4. CASE ~records[i].known
    <3>1. op'.pc = "finish" /\ op'.todo = op.todo /\ up' /\ UNCHANGED records
      BY <1>0, <1>p, <1>6, <2>4 DEF Retire, Pcs
    <3> QED BY <1>h, <1>u, <3>1, Rested
  <2> QED BY <2>3, <2>4
<1>7. CASE SendDelete
  <2>1. op'.pc = "deleting" /\ op'.id = op.id /\ op'.todo = op.todo /\ up' /\ UNCHANGED records
    BY <1>0, <1>p, <1>7 DEF SendDelete, Pcs
  <2>2. op.id \in Unassigned /\ records[op.id].known
    BY <1>7, <1>h DEF SendDelete, At, HandInState
  <2> QED BY <1>h, <1>u, <2>1, <2>2 DEF AtHand, HandInState
<1>8. CASE FinishRetire
  <2>1. op.id \in DOMAIN records /\ Removed
    BY <1>1, <1>8, <1>h DEF FinishRetire, At, HandInState
  <2>2. op'.pc = "next" /\ op'.todo = op.todo /\ up'
    BY <1>0, <1>p, <2>1 DEF Removed, Pcs
  <2>3. Unassigned' = Unassigned
    BY <1>t, <2>1, Restated DEF Removed, States
  <2> QED BY <1>h, <2>2, <2>3, Rested
<1>9. CASE Fill
  <2>1. op'.pc = "create" /\ op'.id = Len(records) + 1 /\ op'.todo = op.todo /\ up'
    BY <1>0, <1>9 DEF Fill, Operation
  <2>2. /\ DOMAIN records' = DOMAIN records \cup {Len(records) + 1}
        /\ \A i \in DOMAIN records : records'[i] = records[i]
        /\ records'[Len(records) + 1] = Reservation
    BY <1>9, <1>t DEF Fill
  <2>3. ~Reservation.started /\ Reservation.conversation = NULL /\ Reservation.state # "removed"
    BY DEF Reservation
  <2>4. Unassigned \subseteq Unassigned' /\ op'.id \in Slots'
    BY <2>1, <2>2, <2>3 DEF Unassigned, Slots
  <2> QED BY <1>h, <2>1, <2>2, <2>3, <2>4 DEF AtHand, HandInState
<1>10. CASE SendCreate
  <2> DEFINE r == [records[op.id] EXCEPT !.started = TRUE]
  <2>1. op.id \in Unassigned /\ op.id \in DOMAIN records
    BY <1>1, <1>10, <1>h DEF SendCreate, At, HandInState
  <2>2. r \in Record /\ r.started /\ r.conversation = records[op.id].conversation
    BY <1>1, <2>1 DEF Record
  <2>3. Update(op.id, r)
    BY <1>10 DEF SendCreate
  <2> HIDE DEF r
  <2>4. Unassigned' = Unassigned /\ records'[op.id].started
    BY <1>t, <2>1, <2>2, <2>3, Updated DEF Unassigned
  <2>5. op'.pc = "creating" /\ op'.id = op.id /\ op'.todo = op.todo /\ up'
    BY <1>0, <1>p, <1>10 DEF SendCreate, Pcs
  <2> QED BY <1>h, <2>1, <2>4, <2>5 DEF AtHand, HandInState
<1>11. CASE Created
  <2> DEFINE r == [records[op.id] EXCEPT !.known = TRUE]
  <2>1. op.id \in Unassigned /\ op.id \in DOMAIN records /\ records[op.id].started
    BY <1>1, <1>11, <1>h DEF Created, At, HandInState
  <2>2. records[op.id] \in Record
    BY <1>1, <2>1
  <2>3. r \in Record /\ r.started = records[op.id].started
        /\ r.conversation = records[op.id].conversation
    BY <2>2 DEF Record
  <2>4. Update(op.id, r)
    BY <1>11 DEF Created
  <2> HIDE DEF r
  <2>5. Unassigned' = Unassigned /\ records'[op.id].started
    BY <1>t, <2>1, <2>3, <2>4, Updated DEF Unassigned
  <2>6. op'.pc = "waiting" /\ op'.id = op.id /\ op'.todo = op.todo /\ up'
    BY <1>0, <1>p, <1>11 DEF Created, Pcs
  <2> QED BY <1>h, <2>1, <2>5, <2>6 DEF AtHand, HandInState
<1>12. CASE Prepared
  <2>1. op.id \in DOMAIN records
    BY <1>1, <1>12, <1>h DEF Prepared, At, HandInState
  <2>2. op'.pc = "next" /\ op'.todo = op.todo /\ up'
    BY <1>0, <1>p, <1>12 DEF Prepared, Pcs
  <2>3. Unassigned' = Unassigned
    BY <1>12, <1>t, <2>1, Restated DEF Prepared, States
  <2> QED BY <1>h, <2>2, <2>3, Rested
<1>13. CASE Assign
  <2> DEFINE r == [records[op.id] EXCEPT !.state = "claiming", !.conversation = op.conversation,
                                         !.account = op.account]
  <2>1. /\ op.id \in DOMAIN records /\ op.todo = {}
        /\ op.conversation # NULL /\ op.account \in Accounts
    BY <1>1, <1>13, <1>h DEF Assign, At, HandInState
  <2>2. r \in Record /\ r.state = "claiming"
        /\ r.conversation = op.conversation /\ r.account = op.account
    <3>1. op.conversation \in Conversations \cup {NULL} /\ op.account \in Accounts \cup {NULL}
      BY <1>0 DEF Operation
    <3>2. "claiming" \in States /\ records[op.id] \in Record
      BY <1>1, <2>1 DEF States
    <3>3. r \in Record
      BY <3>1, <3>2, OwnedRecord
    <3>4. r.state = "claiming" /\ r.conversation = op.conversation /\ r.account = op.account
      BY <3>2 DEF Record
    <3> HIDE DEF r
    <3> QED BY <3>3, <3>4
  <2>3. Update(op.id, r)
    BY <1>13 DEF Assign
  <2> HIDE DEF r
  <2>4. DOMAIN records' = DOMAIN records /\ records'[op.id] = r
    BY <1>t, <2>1, <2>2, <2>3, Updated
  <2>5. op'.pc = "bind" /\ op'.id = op.id /\ op'.todo = op.todo /\ op'.account = op.account /\ up'
    BY <1>0, <1>p, <1>13 DEF Assign, Pcs
  <2> QED BY <2>1, <2>2, <2>4, <2>5 DEF AtHand, HandInState
<1>14. CASE Reassign
  <2>1. /\ op.id \in DOMAIN records /\ records[op.id].conversation # NULL
        /\ records[op.id].account = op.account /\ op.account \in Accounts
    BY <1>14, <1>h DEF Reassign, At, HandInState
  <2>2. op'.pc = "bind" /\ op'.id = op.id /\ op'.todo = op.todo /\ op'.account = op.account /\ up'
    BY <1>0, <1>p, <1>14 DEF Reassign, Pcs
  <2>3. /\ DOMAIN records' = DOMAIN records /\ Unassigned' = Unassigned
        /\ records'[op.id].state = "claiming"
        /\ records'[op.id].conversation = records[op.id].conversation
        /\ records'[op.id].account = records[op.id].account
    BY <1>14, <1>t, <2>1, Restated DEF Reassign, States
  <2> QED BY <1>h, <2>1, <2>2, <2>3 DEF AtHand, HandInState
<1>15. CASE Bind
  <2>1. /\ op'.pc = "attach" /\ op'.id = op.id /\ op'.todo = op.todo /\ op'.account = op.account
        /\ op'.providers \subseteq Desired(op.account) /\ up' /\ UNCHANGED records
    BY <1>0, <1>15 DEF Bind, Operation
  <2>2. /\ op.id \in DOMAIN records /\ records[op.id].conversation # NULL
        /\ records[op.id].account = op.account /\ op.account \in Accounts
        /\ records[op.id].state = "claiming"
    BY <1>15, <1>h DEF Bind, At, HandInState
  <2> QED BY <1>h, <1>u, <2>1, <2>2 DEF AtHand, HandInState, Desired
<1>16. CASE SendAttach \/ Attached
  <2>1. /\ op'.pc \in {"attach", "attaching"} /\ op'.id = op.id /\ op'.todo = op.todo
        /\ op'.account = op.account
        /\ op'.providers \subseteq op.providers /\ up' /\ UNCHANGED records
    <3>1. CASE SendAttach
      BY <1>0, <1>p, <3>1 DEF SendAttach, Pcs
    <3>2. CASE Attached
      <4>1. PICK p \in op.providers : op' = [op EXCEPT !.pc = "attach", !.providers = @ \ {p}]
        BY <3>2 DEF Attached
      <4> QED BY <1>0, <3>2, <4>1 DEF Attached, Operation
    <3> QED BY <1>16, <3>1, <3>2
  <2>2. /\ op.id \in DOMAIN records /\ records[op.id].conversation # NULL
        /\ records[op.id].account = op.account /\ op.account \in Accounts
        /\ records[op.id].state = "claiming" /\ op.providers \subseteq Desired(op.account)
    BY <1>16, <1>h DEF SendAttach, Attached, At, HandInState
  <2> QED BY <1>h, <1>u, <2>1, <2>2 DEF AtHand, HandInState, Desired
<1>17. CASE Claimed
  <2>1. op.id \in DOMAIN records
    BY <1>17, <1>h DEF Claimed, At, HandInState
  <2>2. op'.pc = "finish" /\ op'.todo = op.todo /\ up'
    BY <1>0, <1>p, <1>17 DEF Claimed, Pcs
  <2>3. Unassigned' = Unassigned
    BY <1>17, <1>t, <2>1, Restated DEF Claimed, States
  <2> QED BY <1>h, <2>2, <2>3, Rested
<1>18. CASE Complete
  <2>1. op'.pc = "finish" /\ op'.todo = op.todo /\ up' /\ UNCHANGED records
    BY <1>0, <1>p, <1>18 DEF Complete, Pcs
  <2> QED BY <1>h, <1>u, <2>1, Rested
<1>19. CASE Fail
  <2>1. op'.pc = "finish" /\ op'.todo = op.todo /\ up'
    BY <1>0, <1>p, <1>19 DEF Fail, Pcs
  <2>2. Unassigned' = Unassigned
    <3>1. CASE op.pc \in {"recheck", "next"}
      BY <1>19, <1>u, <3>1 DEF Fail
    <3>2. CASE op.pc \notin {"recheck", "next"}
      <4>1. op.id \in DOMAIN records
        BY <1>1, <1>19, <1>h, <3>2 DEF Fail, OutOfTime, HandInState
      <4> QED BY <1>19, <1>t, <3>2, <4>1, Restated DEF Fail, States
    <3> QED BY <3>1, <3>2
  <2> QED BY <1>h, <2>1, <2>2, Rested
<1>20. CASE Finish
  <2>1. UNCHANGED records /\ up'
        /\ (op' = NULL \/ (op'.pc = "answer" /\ op'.todo = op.todo))
    BY <1>0, <1>20 DEF Finish, Operation
  <2> QED BY <1>h, <1>u, <2>1, Rested
<1>21. CASE Answer
  BY <1>21, Rested DEF Answer
<1> QED BY <1>2, <1>3, <1>4, <1>5, <1>6, <1>7, <1>8, <1>9, <1>10, <1>11, <1>12, <1>13, <1>14,
           <1>15, <1>16, <1>17, <1>18, <1>19, <1>20, <1>21 DEF Work

\* An operation is reserved on what the ledger says at that moment.
LEMMA AtHandOperate ==
    ASSUME IInv, Operate
    PROVE  AtHand'
<1>1. DOMAIN records \subseteq Ids /\ Unassigned \subseteq DOMAIN records /\ Slots \subseteq Unassigned
  BY RecordsTyped DEF IInv
<1>i. Idle \in Operation /\ Idle.pc = "next" /\ Idle.todo = {}
  BY DEF Idle, Operation
<1>u. ASSUME UNCHANGED records PROVE Unassigned' = Unassigned /\ Slots' = Slots
  BY <1>u DEF Unassigned, Slots
<1>2. ASSUME NEW q \in Requests, NEW i \in Ids \cup {NULL},
             NEW input \in {"settings", "prepare", "remove", "replace", "recheck"},
             Mutate(q, input, i)
      PROVE  AtHand'
  <2>1. up' /\ op'.pc = "admitted" /\ op'.todo = {}
    BY <1>2, <1>i DEF Mutate, Reserve, Operation
  <2> QED BY <2>1, Rested
<1>3. ASSUME NEW c \in Conversations, ClaimNothing(c) PROVE AtHand'
  BY <1>3 DEF ClaimNothing, IInv, AtHand, HandInState, Unassigned, Slots
<1>4. ASSUME NEW c \in Conversations, NEW account \in Accounts, Claim(c, account)
      PROVE  AtHand'
  <2> DEFINE spares == {i \in DOMAIN records : Claimable(i)}
  <2>1. /\ spares \in SUBSET Nat /\ spares # {}
        /\ spares \subseteq Unassigned
    BY <1>1, <1>4 DEF Claim, Ids, Claimable, Unassigned
  <2>2. Min(spares) \in Unassigned
    <3> HIDE DEF spares
    <3> QED BY <2>1, MinBelongs
  <2>3. /\ up' /\ UNCHANGED records
        /\ op'.pc = "claim" /\ op'.id = Min(spares) /\ op'.todo = {}
        /\ op'.conversation = c /\ op'.account = account
    BY <1>4, <1>i DEF Claim, Reserve, Operation
  <2>4. c # NULL
    BY PoolAssumption
  <2> HIDE DEF spares
  <2> QED BY <1>u, <2>2, <2>3, <2>4 DEF AtHand, HandInState
<1>5. ASSUME NEW c \in Conversations, NEW account \in Accounts, RecoverClaim(c, account)
      PROVE  AtHand'
  <2>1. PICK i \in Bound(c) :
           /\ records[i].account = account
           /\ Reserve([Idle EXCEPT !.pc = "recovery", !.id = i,
                                   !.conversation = c, !.account = account])
           /\ UNCHANGED <<settings, records, rows, up, recipe, world, crashes>>
    BY <1>5 DEF RecoverClaim
  <2>2. i \in DOMAIN records /\ records[i].conversation # NULL
    BY PoolAssumption DEF Bound
  <2>3. /\ up' /\ UNCHANGED records
        /\ op'.pc = "recovery" /\ op'.id = i /\ op'.todo = {} /\ op'.account = account
    BY <1>i, <2>1 DEF Reserve, Operation
  <2> QED BY <2>1, <2>2, <2>3 DEF AtHand, HandInState
<1>6. CASE Expire
  <2>1. up' /\ op'.pc = "next" /\ op'.todo \subseteq Slots /\ UNCHANGED records
    BY <1>6, <1>i DEF Expire, Reserve, Operation
  <2> QED BY <1>1, <1>u, <2>1, Rested
<1>7. CASE Refill
  <2>1. up' /\ op'.pc = "next" /\ op'.todo = {}
    BY <1>7, <1>i DEF Refill, Reserve, Operation
  <2> QED BY <2>1, Rested
<1> QED BY <1>1, <1>2, <1>3, <1>4, <1>5, <1>6, <1>7 DEF Operate, Reconcile

-----------------------------------------------------------------------------
(* The vacancy.                                                            *)

\* Only Fill leads to a create, and it adds the one record it is about.
LEMMA RoomNext ==
    ASSUME IInv, Next
    PROVE  Room'
<1>1. op \in Operation \cup {NULL} /\ settings \in Settings /\ records \in Seq(Record)
  BY DEF IInv, PoolTypeOK
<1>i. Idle.pc = "next"
  BY DEF Idle
<1>2. CASE Fill
  <2>1. op'.pc = "create" /\ op'.id = Len(records) + 1 /\ settings' = settings
    BY <1>1, <1>2 DEF Fill, At, Operation
  <2>2. /\ DOMAIN records' = DOMAIN records \cup {Len(records) + 1}
        /\ \A i \in DOMAIN records : records'[i] = records[i]
        /\ Len(records) + 1 \notin DOMAIN records
    BY <1>1, <1>2 DEF Fill
  <2>3. Slots' \ {op'.id} = Slots
    BY <2>1, <2>2 DEF Slots
  <2> QED BY <1>2, <2>1, <2>3 DEF Room, Fill, Vacant
<1>3. CASE Work /\ ~Fill
  <2>1. op' = NULL \/ op'.pc # "create"
    <3>0. op \in Operation
      BY <1>1, <1>3
      DEF Work, SaveSettings, Prepare, ChangeRecord, Recheck, Retire, SendDelete, FinishRetire,
          Fill, SendCreate, Created, Prepared, Assign, Reassign, Bind, SendAttach, Attached,
          Claimed, Complete, Fail, Finish, Answer, At
    <3>p. ASSUME NEW pc \in Pcs, Proceed(pc) PROVE op'.pc = pc
      BY <3>0, <3>p, Proceeded
    <3>1. ASSUME NEW new \in Settings, SaveSettings(new) PROVE op'.pc = "next"
      BY <3>0, <3>1 DEF SaveSettings, Operation
    <3>2. ASSUME Prepare PROVE op'.pc = "next"
      BY <3>0, <3>2 DEF Prepare, Operation
    <3>3. ASSUME ChangeRecord PROVE op'.pc # "create"
      <4> DEFINE again == op.input = "replace"
      <4>1. \/ op' = [op EXCEPT !.pc = "recheck"]
            \/ op' = [op EXCEPT !.pc = "next", !.todo = {op.id}, !.refill = again]
            \/ op' = [op EXCEPT !.pc = "finish"]
        BY <3>3 DEF ChangeRecord, Proceed
      <4> HIDE DEF again
      <4> QED BY <3>0, <4>1 DEF Operation
    <3>4. ASSUME Recheck \/ SendDelete \/ FinishRetire \/ SendCreate \/ Created \/ Prepared \/ Assign
                   \/ Reassign \/ SendAttach \/ Claimed \/ Complete \/ Fail
          PROVE  op'.pc # "create"
      <4>1. \E pc \in Pcs \ {"create"} : Proceed(pc)
        BY <3>4
        DEF Recheck, SendDelete, FinishRetire, Removed, SendCreate, Created, Prepared, Assign,
            Reassign, SendAttach, Claimed, Complete, Fail, Pcs
      <4> QED BY <3>p, <4>1
    <3>5. ASSUME Retire PROVE op'.pc # "create"
      <4>1. PICK i : BeginRetire(i) \/ Proceed("finish")
        BY <3>5 DEF Retire
      <4>2. CASE BeginRetire(i)
        BY <3>0, <4>2 DEF BeginRetire, Operation
      <4>3. CASE Proceed("finish")
        BY <3>p, <4>3 DEF Pcs
      <4> QED BY <4>1, <4>2, <4>3
    <3>6. ASSUME Bind PROVE op'.pc # "create"
      BY <3>0, <3>6 DEF Bind, Operation
    <3>7. ASSUME Attached PROVE op'.pc # "create"
      <4>1. PICK p \in op.providers : op' = [op EXCEPT !.pc = "attach", !.providers = @ \ {p}]
        BY <3>7 DEF Attached
      <4> QED BY <3>0, <4>1 DEF Operation
    <3>8. ASSUME Finish PROVE op' = NULL \/ op'.pc # "create"
      BY <3>0, <3>8 DEF Finish, Operation
    <3>9. ASSUME Answer PROVE op' = NULL
      BY <3>9 DEF Answer
    <3> QED BY <1>3, <3>1, <3>2, <3>3, <3>4, <3>5, <3>6, <3>7, <3>8, <3>9 DEF Work
  <2> QED BY <2>1 DEF Room
<1>4. CASE Operate
  <2>1. ASSUME NEW c \in Conversations, ClaimNothing(c) PROVE Room'
    <3>1. settings'.capacity = settings.capacity /\ UNCHANGED <<records, op>>
      BY <1>1, <2>1 DEF ClaimNothing, Settings
    <3> QED BY <3>1 DEF IInv, Room, Slots
  <2>2. ASSUME ~\E c \in Conversations : ClaimNothing(c) PROVE op'.pc # "create"
    <3>1. Idle \in Operation
      BY DEF Idle, Operation
    <3>2. ASSUME NEW q \in Requests, NEW i, NEW input, Mutate(q, input, i) PROVE op'.pc = "admitted"
      BY <3>1, <3>2 DEF Mutate, Reserve, Operation
    <3>3. ASSUME NEW c, NEW account, Claim(c, account) PROVE op'.pc = "claim"
      BY <3>1, <3>3 DEF Claim, Reserve, Operation
    <3>4. ASSUME NEW c, NEW account, RecoverClaim(c, account) PROVE op'.pc = "recovery"
      BY <3>1, <3>4 DEF RecoverClaim, Reserve, Operation
    <3>5. ASSUME Reconcile PROVE op'.pc = "next"
      BY <1>i, <3>1, <3>5 DEF Reconcile, Expire, Refill, Reserve, Operation
    <3> QED BY <1>4, <2>2, <3>2, <3>3, <3>4, <3>5 DEF Operate
  <2> QED BY <2>1, <2>2 DEF Room
<1>5. CASE Gateway
  BY <1>5 DEF Gateway, IInv, Room, Slots
<1>6. CASE Crash
  BY <1>6 DEF Crash, Room
<1>7. CASE Restart
  BY <1>7 DEF Restart, IInv, AtHand, Room
<1> QED BY <1>2, <1>3, <1>4, <1>5, <1>6, <1>7 DEF Next

-----------------------------------------------------------------------------
(* The theorems.                                                           *)

\* A host starts with an empty ledger and an empty gateway.
LEMMA InitInvariant ==
    ASSUME Init
    PROVE  IInv
<1>1. PoolTypeOK
  <2>1. settings \in Settings /\ records \in Seq(Record) /\ Len(records) <= MaxRecords
    BY PoolAssumption DEF Init
  <2>2. rows \in [Requests -> {"unsent", "reserved", "open", "answered"}] /\ busy \in BOOLEAN
    BY DEF Init
  <2>3. /\ sandbox \in [Ids -> [phase : {"absent", "starting", "ready"},
                                providers : SUBSET Providers]]
        /\ flight \subseteq Call
    BY DEF Init
  <2>4. /\ up \in BOOLEAN /\ recipe \in Recipes /\ op \in Operation \cup {NULL}
        /\ crashes \in 0 .. MaxCrashes
    BY PoolAssumption DEF Init
  <2> QED BY <2>1, <2>2, <2>3, <2>4 DEF PoolTypeOK
<1>2. World
  BY DEF Init, World, AccountedFor, Owned, AssignedStates, Sent, Exists, MayHold, Ids
<1>3. AtHand /\ Room
  BY DEF Init, AtHand, Room
<1> QED BY <1>1, <1>2, <1>3 DEF IInv

\* Every step keeps the invariant.
LEMMA NextInvariant ==
    ASSUME IInv, [Next]_vars
    PROVE  IInv'
<1>t. PoolTypeOK /\ World /\ AtHand
  BY DEF IInv
<1>1. CASE Work
  BY <1>1, TypedWork, WorldWork, AtHandWork, RoomNext DEF IInv, Next
<1>2. CASE Operate
  <2>1. Careful /\ UNCHANGED world
    <3>1. UNCHANGED <<records, world>>
      BY <1>2 DEF Operate, Mutate, ClaimNothing, Claim, RecoverClaim, Reconcile, Expire, Refill
    <3>2. DOMAIN records \subseteq Ids
      BY <1>t, RecordsTyped
    <3> QED BY <1>t, <3>1, <3>2 DEF Careful, World, AccountedFor, AssignedStates
  <2>2. World'
    BY <1>t, <2>1, CarefulKeepsWorld
  <2> QED BY <1>2, <2>2, TypedOperate, AtHandOperate, RoomNext DEF IInv, Next
<1>3. CASE Gateway
  <2>1. AtHand'
    BY <1>t, <1>3 DEF Gateway, AtHand, HandInState, Unassigned, Slots, Desired
  <2> QED BY <1>3, <1>t, <2>1, TypedGateway, WorldGateway, RoomNext DEF IInv, Next
<1>4. CASE Crash
  <2>1. Careful /\ UNCHANGED world
    <3>1. DOMAIN records \subseteq Ids
      BY <1>t, RecordsTyped
    <3> QED BY <1>4, <1>t, <3>1 DEF Crash, Careful, World, AccountedFor, AssignedStates
  <2>2. World'
    BY <1>t, <2>1, CarefulKeepsWorld
  <2>3. AtHand'
    BY <1>4 DEF Crash, AtHand
  <2> QED BY <1>4, <1>t, <2>2, <2>3, TypedProcess, RoomNext DEF IInv, Next
<1>5. CASE Restart
  <2>1. AtHand'
    BY <1>5, <1>t DEF Restart, AtHand
  <2> QED BY <1>5, <1>t, <2>1, TypedProcess, WorldRestart, RoomNext DEF IInv, Next
<1>6. CASE UNCHANGED vars
  <2>1. PoolTypeOK'
    BY <1>6, <1>t DEF vars, PoolTypeOK
  <2>2. World'
    <3>1. Honest
      BY <1>6, <1>t
      DEF vars, Honest, World, AccountedFor, Sent, Exists, MayHold, Create, Attach
    <3> QED BY <1>6, <1>t, <3>1, HonestKeepsWorld DEF vars
  <2>3. AtHand'
    BY <1>6, <1>t DEF vars, AtHand, HandInState, Unassigned, Slots, Desired
  <2>4. Room'
    BY <1>6 DEF IInv, vars, Room, Slots
  <2> QED BY <2>1, <2>2, <2>3, <2>4 DEF IInv
<1> QED BY <1>1, <1>2, <1>3, <1>4, <1>5, <1>6 DEF Next

\* The invariant holds in every behaviour of the pool, whatever the gateway
\* does late or never, and wherever the controller dies.
THEOREM Invariance == PoolSpec => []IInv
<1> QED BY InitInvariant, NextInvariant, PTL DEF PoolSpec

\* Every variable keeps its type, and the operation under way finds the record it
\* works on as it left it before the await: between its steps no late answer, other
\* request or recovery changes that record's state, ownership or account.
THEOREM PoolTypes == PoolSpec => [](PoolTypeOK /\ AtHand)
<1>1. IInv => PoolTypeOK /\ AtHand
  BY DEF IInv
<1> QED BY <1>1, Invariance, PTL

\* Whatever exists at the gateway, or may come to exist, is on a record not let
\* go: recheck, retirement and restart never free a sandbox that may be there.
THEOREM NoSandboxLeaked == PoolSpec => []SandboxesAccounted
<1>1. IInv => SandboxesAccounted
  BY DEF IInv, World, AccountedFor, SandboxesAccounted, Sent
<1> QED BY <1>1, Invariance, PTL

\* What is attached, or may still be, belongs to the account of the conversation
\* that owns the record: claim and recovery never mix two owners.
THEOREM CredentialsOwned == PoolSpec => []AttachmentsOwned
<1>1. IInv => AttachmentsOwned
  BY DEF IInv, World, Owned, AssignedStates, AttachmentsOwned, MayHold
<1> QED BY <1>1, Invariance, PTL

\* The unassigned sandboxes that exist or may come to exist are among the slots.
LEMMA OthersAreSlots ==
    ASSUME IInv, NEW i \in Ids
    PROVE  LET others == {j \in DOMAIN records \ {i} :
                             /\ Exists(j) \/ Create(j) \in flight
                             /\ records[j].conversation = NULL}
           IN  /\ IsFiniteSet(others) /\ IsFiniteSet(Slots \ {i})
               /\ Cardinality(others) \in Nat /\ Cardinality(Slots \ {i}) \in Nat
               /\ Cardinality(others) <= Cardinality(Slots \ {i})
<1> DEFINE others == {j \in DOMAIN records \ {i} :
                         /\ Exists(j) \/ Create(j) \in flight
                         /\ records[j].conversation = NULL}
<1>1. DOMAIN records \subseteq 1 .. MaxRecords
  BY RecordsTyped DEF IInv, Ids
<1>2. IsFiniteSet(1 .. MaxRecords)
  BY PoolAssumption, FS_Interval
<1>3. Slots \ {i} \subseteq 1 .. MaxRecords
  BY <1>1 DEF Slots
<1>4. IsFiniteSet(Slots \ {i})
  BY <1>2, <1>3, FS_Subset
<1>5. others \subseteq Slots \ {i}
  BY <1>1 DEF IInv, World, AccountedFor, Sent, Slots, Ids
<1> HIDE DEF others
<1>6. /\ IsFiniteSet(others)
      /\ Cardinality(others) <= Cardinality(Slots \ {i})
  BY <1>4, <1>5, FS_Subset
<1>7. Cardinality(others) \in Nat /\ Cardinality(Slots \ {i}) \in Nat
  BY <1>4, <1>6, FS_CardinalityType
<1> QED BY <1>4, <1>6, <1>7 DEF others

\* A create is sent only while fewer other unassigned sandboxes than the target
\* exist, or may yet: neither an uncertain record nor a lost answer makes room.
THEOREM CreatesBounded == PoolSpec => CreatesWithinTarget
<1> DEFINE Bounded(i) == Cardinality({j \in DOMAIN records \ {i} :
                                         /\ Exists(j) \/ Create(j) \in flight
                                         /\ records[j].conversation = NULL}) < settings.capacity
           Within == \A i \in Ids : Create(i) \in flight' \ flight => Bounded(i)
<1>1. ASSUME IInv, [Next]_vars PROVE [Within]_vars
  <2> SUFFICES ASSUME NEW i \in Ids, Create(i) \in flight', Create(i) \notin flight
               PROVE  Bounded(i)
    OBVIOUS
  <2>0. PoolTypeOK /\ settings.capacity \in Nat
    BY <1>1 DEF IInv, PoolTypeOK, Settings
  <2>1. SendCreate
    <3>1. ASSUME Work, ~SendCreate PROVE FALSE
      <4>1. ASSUME NEW new \in Settings, SaveSettings(new) PROVE UNCHANGED flight
        BY <4>1 DEF SaveSettings, world
      <4>2. ASSUME Prepare \/ ChangeRecord \/ Recheck \/ Fill \/ Created \/ Prepared \/ Assign
                     \/ Reassign \/ Bind \/ Attached \/ Claimed \/ Complete \/ Fail \/ Finish
                     \/ Answer \/ FinishRetire \/ Retire
            PROVE  UNCHANGED flight
        BY <4>2
        DEF Prepare, ChangeRecord, Recheck, Fill, Created, Prepared, Assign, Reassign, Bind,
            Attached, Claimed, Complete, Fail, Finish, Answer, FinishRetire, Removed, Retire,
            BeginRetire, world
      <4>3. ASSUME SendDelete PROVE FALSE
        <5>1. Create(i) = Delete(op.id)
          BY <4>3 DEF SendDelete
        <5>2. Create(i).kind = Delete(op.id).kind
          BY <5>1
        <5> QED BY <5>2 DEF Create, Delete
      <4>4. ASSUME SendAttach PROVE FALSE
        <5>1. PICK p \in op.providers : flight' = flight \cup {Attach(op.id, p)}
          BY <4>4 DEF SendAttach
        <5>2. Create(i) = Attach(op.id, p)
          BY <5>1
        <5>3. Create(i).kind = Attach(op.id, p).kind
          BY <5>2
        <5> QED BY <5>3 DEF Create, Attach
      <4> QED BY <3>1, <4>1, <4>2, <4>3, <4>4 DEF Work
    <3>2. ASSUME Operate \/ Crash \/ Restart PROVE UNCHANGED flight
      BY <3>2
      DEF Operate, Mutate, Claim, ClaimNothing, RecoverClaim, Reconcile, Expire, Refill, Crash,
          Restart, world
    <3>3. ASSUME Gateway PROVE flight' \subseteq flight
      BY <3>3 DEF Gateway, CreateLands, DeleteLands, AttachLands, Boots, CallLost
    <3> QED BY <1>1, <3>1, <3>2, <3>3 DEF Next, vars
  <2>2. i = op.id
    <3>1. Create(i) = Create(op.id)
      BY <2>1 DEF SendCreate
    <3>2. Create(i).id = Create(op.id).id
      BY <3>1
    <3> QED BY <3>2 DEF Create
  <2>3. Cardinality(Slots \ {i}) < settings.capacity
    BY <1>1, <2>1, <2>2 DEF IInv, Room, SendCreate, At
  <2> QED BY <1>1, <2>0, <2>3, OthersAreSlots
<1> QED BY <1>1, Invariance, PTL DEF PoolSpec, CreatesWithinTarget
=============================================================================
