------------------------------ MODULE WarmPool ------------------------------
(***************************************************************************)
(* The pool of warm sandboxes (server/openshell-warm-pool.ts), its gateway *)
(* adapter (openshell-warm-pool-runtime.ts) and the controller process     *)
(* that owns it (openshell-warm-pool-host.ts).                             *)
(*                                                                         *)
(* A durable ledger holds the settings, one record per sandbox the pool    *)
(* ever asked for, and the reservation of the single operation that may    *)
(* change it.  The gateway is a separate system: a create, a delete or an  *)
(* attachment, once sent, may take effect late, after its caller gave up   *)
(* or died, or never.  `flight' holds the calls still able to take effect. *)
(*                                                                         *)
(* An operation is a sequence of steps between awaits.  A read of the      *)
(* gateway and the code that runs on its answer are one step: the ledger   *)
(* cannot change in between, since only the reserving operation writes it. *)
(***************************************************************************)
EXTENDS Integers, Sequences, FiniteSets, FiniteSetsExt

CONSTANTS
    Conversations,
    Accounts,       \* account providers a conversation may run under
    Services,       \* further providers attached with every account
    Recipes,        \* what the configuration can hash to (warmPoolScope)
    Sizes,          \* processor and memory limits
    Requests,       \* idempotency keys of the operators' requests
    NULL,
    MaxRecords,     \* bound: records the pool creates in a behaviour
    MaxCrashes      \* bound: deaths of the controller process

ASSUME PoolAssumption ==
    /\ NULL \notin Conversations \cup Accounts \cup Requests
    /\ MaxRecords \in Nat
    /\ MaxCrashes \in Nat

VARIABLES
    settings,   \* what the operator saved, and whether the pool rests after expiry
    records,    \* the ledger's records, oldest first
    busy,       \* an operation is reserved on the ledger
    rows,       \* how far each operator request got
    up,         \* a controller process runs
    recipe,     \* the recipe its adapter was built with
    op,         \* the operation the process is running, NULL when none
    sandbox,    \* what the gateway holds under each record's name
    flight,     \* calls to the gateway that may still take effect
    crashes

world == <<sandbox, flight>>
vars == <<settings, records, busy, rows, up, recipe, op, sandbox, flight, crashes>>

Ids == 1 .. MaxRecords
Providers == Accounts \cup Services
Desired(account) == {account} \cup Services

Settings == [enabled : BOOLEAN, capacity : {1, 2}, auto : BOOLEAN, size : Sizes,
             resting : BOOLEAN]
Record == [state : {"preparing", "ready", "claiming", "claimed", "removing",
                    "removed", "uncertain"},
           known : BOOLEAN,     \* physicalId is recorded
           started : BOOLEAN,   \* creationStarted
           recipe : Recipes,
           size : Sizes,
           conversation : Conversations \cup {NULL},
           account : Accounts \cup {NULL}]
Call == [kind : {"create", "delete", "attach"}, id : Ids, provider : Providers \cup {NULL}]
Operation == [pc : {"admitted", "next", "removal", "deleting", "create", "creating",
                    "waiting", "claim", "recovery", "bind", "attach", "attaching",
                    "recheck", "finish", "answer"},
              id : Ids \cup {NULL},               \* the record at hand
              todo : SUBSET Ids,                  \* records still to be retired
              refill : BOOLEAN,                   \* fill() follows
              conversation : Conversations \cup {NULL},
              account : Accounts \cup {NULL},
              providers : SUBSET Providers,       \* still to be attached
              request : Requests \cup {NULL},
              input : {"settings", "prepare", "remove", "replace", "recheck", NULL}]

Create(i) == [kind |-> "create", id |-> i, provider |-> NULL]
Delete(i) == [kind |-> "delete", id |-> i, provider |-> NULL]
Attach(i, p) == [kind |-> "attach", id |-> i, provider |-> p]

Idle == [pc |-> "next", id |-> NULL, todo |-> {}, refill |-> FALSE, conversation |-> NULL,
         account |-> NULL, providers |-> {}, request |-> NULL, input |-> NULL]

Exists(i) == sandbox[i].phase # "absent"

\* Fault: an operation of unknown outcome does not keep its place.
SlotsKnown == {i \in DOMAIN records :
                  /\ records[i].conversation = NULL
                  /\ records[i].state \notin {"removed", "uncertain"}}

\* Records that are neither assigned to a conversation nor let go.  Uncertain
\* ones are among them: an operation of unknown outcome keeps its place.
Slots == {i \in DOMAIN records :
             records[i].conversation = NULL /\ records[i].state # "removed"}

Obsolete == {i \in Slots : records[i].state = "ready" /\ records[i].recipe # recipe}

-----------------------------------------------------------------------------
(* The ledger.                                                             *)

Reserve(o) ==
    /\ up /\ op = NULL
    /\ ~busy
    /\ busy' = TRUE
    /\ op' = o

\* A step of the running operation that awaits at pc.
At(pc) == up /\ op # NULL /\ op.pc = pc

Proceed(pc) == op' = [op EXCEPT !.pc = pc]

Update(i, r) == records' = [records EXCEPT ![i] = r]

Becomes(i, state) == Update(i, [records[i] EXCEPT !.state = state])

-----------------------------------------------------------------------------
(* Operator requests: mutate() reserves, inserts the request's row, acts,  *)
(* releases the ledger and stores the answer, each a write of its own.     *)

\* A key is admitted once.  A row refuses its replay; when the process died
\* before inserting the row the reservation itself has moved the revision the
\* request was written against, and the replay is refused as stale.
Mutate(q, input, i) ==
    /\ rows[q] = "unsent"
    /\ Reserve([Idle EXCEPT !.pc = "admitted", !.request = q, !.input = input, !.id = i])
    /\ rows' = [rows EXCEPT ![q] = "reserved"]
    /\ UNCHANGED <<settings, records, up, recipe, world, crashes>>

\* Saved limits that change retire every spare, a lower target the excess.
SaveSettings(new) ==
    LET kept == IF new.size = settings.size THEN new.capacity ELSE 0
    IN  /\ At("admitted") /\ op.input = "settings"
        /\ settings' = [new EXCEPT !.resting = FALSE]
        /\ op' = [op EXCEPT !.pc = "next", !.refill = new.enabled /\ new.auto,
                            !.todo = {i \in Slots : Cardinality({j \in Slots : j < i}) >= kept}]
        /\ rows' = [rows EXCEPT ![op.request] = "open"]
        /\ UNCHANGED <<records, busy, up, recipe, world, crashes>>

Prepare ==
    /\ At("admitted") /\ op.input = "prepare"
    /\ settings' = [settings EXCEPT !.resting = FALSE]
    /\ op' = [op EXCEPT !.pc = "next", !.refill = TRUE]
    /\ rows' = [rows EXCEPT ![op.request] = "open"]
    /\ UNCHANGED <<records, busy, up, recipe, world, crashes>>

\* Removing one spare pauses warming; replacing one refills the pool.
ChangeRecord ==
    /\ At("admitted") /\ op.input \in {"remove", "replace", "recheck"}
    /\ rows' = [rows EXCEPT ![op.request] = "open"]
    /\ IF op.id \in Slots
         THEN /\ op' = IF op.input = "recheck"
                         THEN [op EXCEPT !.pc = "recheck"]
                         ELSE [op EXCEPT !.pc = "next", !.todo = {op.id},
                                         !.refill = op.input = "replace"]
              /\ settings' = [settings EXCEPT !.enabled = @ /\ op.input # "remove"]
         ELSE /\ Proceed("finish")
              /\ UNCHANGED settings
    /\ UNCHANGED <<records, busy, up, recipe, world, crashes>>

\* Fault: absence alone frees a record.
ReleasableAlways(r) == TRUE

\* An absent sandbox frees its record only when creation is known not to have
\* been sent, or is known to have taken effect before.
Releasable(r) == r.known \/ ~r.started

Recheck ==
    LET i == op.id
        r == records[i]
    IN  /\ At("recheck")
        /\ \/ /\ ~Exists(i)
              /\ Releasable(r)
              /\ Becomes(i, "removed")
           \/ /\ Exists(i) /\ sandbox[i].providers = {}
              /\ Update(i, [r EXCEPT !.known = TRUE, !.started = TRUE,
                                     !.state = IF sandbox[i].phase = "ready"
                                                 THEN "ready" ELSE @])
        /\ Proceed("finish")
        /\ UNCHANGED <<settings, busy, rows, up, recipe, world, crashes>>

-----------------------------------------------------------------------------
(* Retiring a spare: remove it, and let its record go once it is absent.   *)

BeginRetire(i) ==
    /\ op' = [op EXCEPT !.pc = "removal", !.id = i, !.todo = @ \ {i}]
    /\ Becomes(i, "removing")
    /\ UNCHANGED <<settings, busy, rows, up, recipe, world, crashes>>

\* fill() retires the spares of an older recipe first.
Retire ==
    LET due == IF op.todo # {} \/ ~op.refill THEN op.todo ELSE Obsolete
        i == Min(due)
    IN  /\ At("next")
        /\ due # {}
        /\ IF records[i].known
             THEN BeginRetire(i)
             ELSE /\ Proceed("finish")
                  /\ UNCHANGED <<settings, records, busy, rows, up, recipe, world, crashes>>

Removed ==
    /\ ~Exists(op.id)
    /\ Becomes(op.id, "removed")
    /\ Proceed("next")
    /\ UNCHANGED <<settings, busy, rows, up, recipe, world, crashes>>

SendDelete ==
    /\ At("removal")
    /\ Exists(op.id) /\ sandbox[op.id].providers = {}
    /\ flight' = flight \cup {Delete(op.id)}
    /\ Proceed("deleting")
    /\ UNCHANGED <<settings, records, busy, rows, up, recipe, sandbox, crashes>>

FinishRetire ==
    \/ At("removal") /\ Removed
    \/ At("deleting") /\ Delete(op.id) \notin flight /\ Removed

-----------------------------------------------------------------------------
(* Filling the pool: a record is written before its sandbox is asked for,  *)
(* that creation was sent is written before it is sent.                    *)

Vacant == Cardinality(Slots) < settings.capacity

Reservation == [state |-> "preparing", known |-> FALSE, started |-> FALSE, recipe |-> recipe,
                size |-> settings.size, conversation |-> NULL, account |-> NULL]

Fill ==
    /\ At("next")
    /\ op.todo = {} /\ op.refill /\ Obsolete = {}
    /\ Vacant /\ Len(records) < MaxRecords
    /\ records' = Append(records, Reservation)
    /\ op' = [op EXCEPT !.pc = "create", !.id = Len(records) + 1]
    /\ UNCHANGED <<settings, busy, rows, up, recipe, world, crashes>>

SendCreate ==
    /\ At("create")
    /\ Update(op.id, [records[op.id] EXCEPT !.started = TRUE])
    /\ flight' = flight \cup {Create(op.id)}
    /\ Proceed("creating")
    /\ UNCHANGED <<settings, busy, rows, up, recipe, sandbox, crashes>>

\* The receipt of the create is stored before readiness is awaited.
Created ==
    /\ At("creating")
    /\ Exists(op.id) /\ Create(op.id) \notin flight
    /\ Update(op.id, [records[op.id] EXCEPT !.known = TRUE])
    /\ Proceed("waiting")
    /\ UNCHANGED <<settings, busy, rows, up, recipe, world, crashes>>

Prepared ==
    /\ At("waiting")
    /\ sandbox[op.id] = [phase |-> "ready", providers |-> {}]
    /\ Becomes(op.id, "ready")
    /\ Proceed("next")
    /\ UNCHANGED <<settings, busy, rows, up, recipe, world, crashes>>

-----------------------------------------------------------------------------
(* A conversation takes a spare: claim() and recoverClaim().               *)

Bound(c) == {i \in DOMAIN records : records[i].conversation = c}

Claimable(i) ==
    /\ records[i].state = "ready" /\ records[i].conversation = NULL
    /\ records[i].recipe = recipe /\ records[i].size = settings.size

\* The pool is never waited for: while it is busy the conversation starts cold.
Claim(c, account) ==
    LET spares == {i \in DOMAIN records : Claimable(i)}
    IN  /\ Bound(c) = {}
        /\ spares # {}
        /\ Reserve([Idle EXCEPT !.pc = "claim", !.id = Min(spares),
                                !.conversation = c, !.account = account])
        /\ UNCHANGED <<settings, records, rows, up, recipe, world, crashes>>

\* With no spare to give, the claim only wakes a resting pool.
ClaimNothing(c) ==
    /\ up /\ ~busy
    /\ Bound(c) = {}
    /\ {i \in DOMAIN records : Claimable(i)} = {}
    /\ settings' = [settings EXCEPT !.resting = FALSE]
    /\ UNCHANGED <<records, busy, rows, up, recipe, op, world, crashes>>

\* Ownership is on the ledger before any account is attached.
Assign ==
    LET i == op.id
    IN  /\ At("claim")
        /\ sandbox[i] = [phase |-> "ready", providers |-> {}]
        /\ Update(i, [records[i] EXCEPT !.state = "claiming", !.conversation = op.conversation,
                                        !.account = op.account])
        /\ settings' = [settings EXCEPT !.resting = FALSE]
        /\ Proceed("bind")
        /\ UNCHANGED <<busy, rows, up, recipe, world, crashes>>

\* A failed claim is only finished in place, for its conversation and account.
RecoverClaim(c, account) ==
    \E i \in Bound(c) :
        /\ records[i].account = account
        /\ records[i].state = "uncertain"
        /\ records[i].known /\ records[i].recipe = recipe
        /\ Reserve([Idle EXCEPT !.pc = "recovery", !.id = i,
                                !.conversation = c, !.account = account])
        /\ UNCHANGED <<settings, records, rows, up, recipe, world, crashes>>

Reassign ==
    /\ At("recovery")
    /\ sandbox[op.id].phase = "ready"
    /\ sandbox[op.id].providers \subseteq Desired(op.account)
    /\ Becomes(op.id, "claiming")
    /\ Proceed("bind")
    /\ UNCHANGED <<settings, busy, rows, up, recipe, world, crashes>>

\* The adapter's bind(): upload, attach what is missing one by one, verify.  A
\* first claim allows no provider at all, and finds none: Assign saw none, and
\* nobody attaches one to an unclaimed sandbox.
Bind ==
    /\ At("bind")
    /\ sandbox[op.id].phase = "ready"
    /\ sandbox[op.id].providers \subseteq Desired(op.account)
    /\ op' = [op EXCEPT !.pc = "attach",
                        !.providers = Desired(op.account) \ sandbox[op.id].providers]
    /\ UNCHANGED <<settings, records, busy, rows, up, recipe, world, crashes>>

SendAttach ==
    /\ At("attach")
    /\ \E p \in op.providers : flight' = flight \cup {Attach(op.id, p)}
    /\ Proceed("attaching")
    /\ UNCHANGED <<settings, records, busy, rows, up, recipe, sandbox, crashes>>

Attached ==
    /\ At("attaching")
    /\ \E p \in op.providers :
          /\ p \in sandbox[op.id].providers /\ Attach(op.id, p) \notin flight
          /\ op' = [op EXCEPT !.pc = "attach", !.providers = @ \ {p}]
    /\ UNCHANGED <<settings, records, busy, rows, up, recipe, world, crashes>>

Claimed ==
    /\ At("attach") /\ op.providers = {}
    /\ sandbox[op.id] = [phase |-> "ready", providers |-> Desired(op.account)]
    /\ Becomes(op.id, "claimed")
    /\ Proceed("finish")
    /\ UNCHANGED <<settings, busy, rows, up, recipe, world, crashes>>

-----------------------------------------------------------------------------
(* The five-second timer: release idle spares, or fill up to the target.   *)

Automatic == settings.enabled /\ ~settings.resting

\* Whether the saved inactivity has passed is left open.
Expire ==
    /\ Automatic
    /\ Reserve([Idle EXCEPT !.todo = {i \in Slots : records[i].state = "ready"}])
    /\ settings' = [settings EXCEPT !.resting = TRUE]
    /\ UNCHANGED <<records, rows, up, recipe, world, crashes>>

Refill ==
    /\ Automatic /\ settings.auto
    /\ Vacant \/ Obsolete # {}
    /\ Reserve([Idle EXCEPT !.refill = TRUE])
    /\ UNCHANGED <<settings, records, rows, up, recipe, world, crashes>>

Reconcile == Expire \/ Refill

-----------------------------------------------------------------------------
(* How an operation ends.                                                  *)

\* Nothing left to do.
Complete ==
    /\ At("next")
    /\ op.todo = {}
    /\ op.refill => Obsolete = {} /\ (~Vacant \/ Len(records) = MaxRecords)
    /\ Proceed("finish")
    /\ UNCHANGED <<settings, records, busy, rows, up, recipe, world, crashes>>

\* fill() finds that earlier awaits have used up the operation's time.
OutOfTime ==
    /\ op.pc = "next" /\ op.id # NULL
    /\ op.todo = {} /\ op.refill /\ Obsolete = {} /\ Vacant

\* An await fails or runs out of time: what was sent may still take effect.
\* The record at hand becomes uncertain; a recheck leaves it as it is, and between
\* two records there is none.
Fail ==
    /\ up /\ op # NULL
    /\ \/ op.pc \in {"removal", "deleting", "create", "creating", "waiting", "claim",
                     "recovery", "bind", "attach", "attaching", "recheck"}
       \/ OutOfTime
    /\ IF op.pc \in {"recheck", "next"} THEN UNCHANGED records ELSE Becomes(op.id, "uncertain")
    /\ settings' = [settings EXCEPT !.resting = @ /\ op.pc # "claim"]
    /\ Proceed("finish")
    /\ UNCHANGED <<busy, rows, up, recipe, world, crashes>>

Finish ==
    /\ At("finish")
    /\ busy' = FALSE
    /\ op' = IF op.request = NULL THEN NULL ELSE [op EXCEPT !.pc = "answer"]
    /\ UNCHANGED <<settings, records, rows, up, recipe, world, crashes>>

\* The answer is stored in the same turn, before any other operation runs.
Answer ==
    /\ At("answer")
    /\ rows' = [rows EXCEPT ![op.request] = "answered"]
    /\ op' = NULL
    /\ UNCHANGED <<settings, records, busy, up, recipe, world, crashes>>

Work ==
    \/ \E new \in Settings : SaveSettings(new)
    \/ Prepare \/ ChangeRecord \/ Recheck
    \/ Retire \/ SendDelete \/ FinishRetire
    \/ Fill \/ SendCreate \/ Created \/ Prepared
    \/ Assign \/ Reassign \/ Bind \/ SendAttach \/ Attached \/ Claimed
    \/ Complete \/ Fail \/ Finish \/ Answer

-----------------------------------------------------------------------------
(* The gateway.                                                            *)

CreateLands(i) ==
    /\ Create(i) \in flight
    /\ flight' = flight \ {Create(i)}
    /\ sandbox' = [sandbox EXCEPT ![i] = [phase |-> "starting", providers |-> {}]]

DeleteLands(i) ==
    /\ Delete(i) \in flight
    /\ flight' = flight \ {Delete(i)}
    /\ sandbox' = [sandbox EXCEPT ![i] = [phase |-> "absent", providers |-> {}]]

AttachLands(i, p) ==
    /\ Attach(i, p) \in flight
    /\ flight' = flight \ {Attach(i, p)}
    /\ sandbox' = [sandbox EXCEPT ![i].providers = IF Exists(i) THEN @ \cup {p} ELSE @]

Boots(i) ==
    /\ sandbox[i].phase = "starting"
    /\ sandbox' = [sandbox EXCEPT ![i].phase = "ready"]
    /\ UNCHANGED flight

\* A call that never takes effect; its caller only sees it fail.
CallLost ==
    /\ \E call \in flight : flight' = flight \ {call}
    /\ UNCHANGED sandbox

Gateway ==
    /\ \/ \E i \in Ids : CreateLands(i) \/ DeleteLands(i) \/ Boots(i)
       \/ \E i \in Ids, p \in Providers : AttachLands(i, p)
       \/ CallLost
    /\ UNCHANGED <<settings, records, busy, rows, up, recipe, op, crashes>>

-----------------------------------------------------------------------------
(* The controller process.                                                 *)

Crash ==
    /\ up /\ crashes < MaxCrashes
    /\ up' = FALSE
    /\ op' = NULL
    /\ crashes' = crashes + 1
    /\ UNCHANGED <<settings, records, busy, rows, recipe, world>>

\* Fault: an interrupted claim goes back to the pool.
InterruptedReturned(r) ==
    CASE r.state = "claiming" -> [r EXCEPT !.state = "ready", !.conversation = NULL, !.account = NULL]
      [] r.state \in {"preparing", "removing"} -> [r EXCEPT !.state = "uncertain"]
      [] OTHER -> r

\* Fault: an interrupted record gets a state of its own.
InterruptedUnknown(r) ==
    IF r.state \in {"preparing", "removing", "claiming"}
      THEN [r EXCEPT !.state = "interrupted"] ELSE r

Interrupted(r) ==
    IF r.state \in {"preparing", "removing", "claiming"}
      THEN [r EXCEPT !.state = "uncertain"] ELSE r

\* Fault: a restart leaves the reservation of the dead process.
RestartReserved ==
    /\ ~up
    /\ up' = TRUE
    /\ recipe' \in Recipes
    /\ records' = IF busy THEN [i \in DOMAIN records |-> Interrupted(records[i])] ELSE records
    /\ UNCHANGED <<settings, busy, rows, op, world, crashes>>

\* recoverInterrupted() runs under the host lock, before anything else, and
\* only looks at the records when an operation was left reserved.
Restart ==
    /\ ~up
    /\ up' = TRUE
    /\ recipe' \in Recipes
    /\ records' = IF busy THEN [i \in DOMAIN records |-> Interrupted(records[i])] ELSE records
    /\ busy' = FALSE
    /\ UNCHANGED <<settings, rows, op, world, crashes>>

\* A host starts on the settings saved before: automatic preparation, one
\* spare or two.
Init ==
    /\ settings \in {s \in Settings : s.enabled /\ s.auto /\ ~s.resting}
    /\ records = <<>>
    /\ busy = FALSE
    /\ rows = [q \in Requests |-> "unsent"]
    /\ up = TRUE
    /\ recipe \in Recipes
    /\ op = NULL
    /\ sandbox = [i \in Ids |-> [phase |-> "absent", providers |-> {}]]
    /\ flight = {}
    /\ crashes = 0

Operate ==
    \/ \E q \in Requests, input \in {"settings", "prepare"} : Mutate(q, input, NULL)
    \/ \E q \in Requests, input \in {"remove", "replace", "recheck"}, i \in DOMAIN records :
          Mutate(q, input, i)
    \/ \E c \in Conversations : ClaimNothing(c)
    \/ \E c \in Conversations, account \in Accounts : Claim(c, account) \/ RecoverClaim(c, account)
    \/ Reconcile

Next == Work \/ Operate \/ Gateway \/ Crash \/ Restart

\* Every await of an operation is bounded by its caller's signal and by the
\* time limit of the command line, and a service manager restarts the server.
PoolSpec == Init /\ [][Next]_vars /\ WF_vars(Work) /\ WF_vars(Restart) /\ WF_vars(Reconcile)

-----------------------------------------------------------------------------
PoolTypeOK ==
    /\ settings \in Settings
    /\ records \in Seq(Record) /\ Len(records) <= MaxRecords
    /\ busy \in BOOLEAN
    /\ rows \in [Requests -> {"unsent", "reserved", "open", "answered"}]
    /\ up \in BOOLEAN
    /\ recipe \in Recipes
    /\ op \in Operation \cup {NULL}
    /\ sandbox \in [Ids -> [phase : {"absent", "starting", "ready"}, providers : SUBSET Providers]]
    /\ flight \subseteq Call
    /\ crashes \in 0 .. MaxCrashes

\* No sandbox is leaked.  Whatever exists at the gateway, or may still come to
\* exist because a create was sent, is on a record that has not been let go,
\* across lost answers, crashes and rechecks.
SandboxesAccounted ==
    \A i \in Ids : Exists(i) \/ Create(i) \in flight =>
        /\ i \in DOMAIN records
        /\ records[i].state # "removed"

\* No credential reaches a sandbox before the ledger says whose it is: every
\* provider attached, or that a call under way may still attach, belongs to the
\* account of the one conversation that owns the record.
AttachmentsOwned ==
    \A i \in Ids, p \in Providers :
        p \in sandbox[i].providers \/ Attach(i, p) \in flight =>
            /\ records[i].conversation # NULL
            /\ p \in Desired(records[i].account)
            /\ records[i].state \in {"claiming", "claimed", "uncertain"}

\* Resources of unknown outcome count against the ceiling: a create is only sent
\* while fewer spares than the target exist, or may yet come to exist.
CreatesWithinTarget ==
    [][\A i \in Ids : Create(i) \in flight' \ flight =>
         Cardinality({j \in DOMAIN records \ {i} :
                         /\ Exists(j) \/ Create(j) \in flight
                         /\ records[j].conversation = NULL}) < settings.capacity]_vars

\* Once conversations stop asking for sandboxes, the pool comes back, again and
\* again, to a state where no operation holds it and automatic preparation has
\* filled it: no failure, crash or lost call leaves it reserved or short.
AtTarget ==
    /\ ~busy
    /\ Automatic /\ settings.auto => (~Vacant /\ Obsolete = {}) \/ Len(records) = MaxRecords

TargetReached ==
    <>[](op = NULL \/ op.pc \notin {"claim", "recovery"}) => []<>AtTarget
=============================================================================
