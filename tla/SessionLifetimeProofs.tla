----------------------- MODULE SessionLifetimeProofs -----------------------
(***************************************************************************)
(* Proofs about SessionLifetime, for all values of its constants: types,   *)
(* and that marks, timers and controllers under a key belong to the entry  *)
(* the key has now.                                                        *)
(***************************************************************************)
EXTENDS SessionLifetime, SequenceTheorems, TLAPS

-----------------------------------------------------------------------------
(* The inductive invariant.                                                *)

Entered == {"created", "starting", "active", "unwinding"}
Distinct(s) == \A i, j \in DOMAIN s : s[i] = s[j] => i = j

\* A run that has begun and is not over has the key of a connection.
Keyed == \A r \in Runs : run[r].phase \notin {"idle", "over"} => run[r].key \in Connections

\* An entry has begun and is not over, its controller is live until it unwinds,
\* and its loop owns it and no other.
Standing(r) ==
    /\ run[r].phase \in Entered
    /\ run[r].aborted => run[r].phase = "unwinding"
    /\ run[r].phase # "created" => run[r].owned = r

\* The map has one entry per key.
EntriesUnique ==
    /\ sessions \in Seq(Runs) /\ Distinct(sessions)
    /\ \A r, t \in ToSet(sessions) : Key(r) = Key(t) => r = t

\* What the handlers keep of connections, timers and the stored state.
SurroundingsTyped ==
    /\ open \subseteq Connections /\ watching \subseteq open
    /\ closeTimers \subseteq Connections
    /\ state \in States /\ notices \in 0 .. MaxNotices

MarksOwned ==
    /\ marks \in [MarkNames -> SUBSET Connections]
    /\ \A n \in MarkNames : \A k \in marks[n] : \E r \in ToSet(sessions) : Key(r) = k

LInv ==
    /\ SurroundingsTyped
    /\ run \in [Runs -> Run] /\ Keyed
    /\ EntriesUnique
    /\ \A r \in ToSet(sessions) : Standing(r)
    /\ MarksOwned

LEMMA InvariantImplies ==
    ASSUME LInv
    PROVE  SessionTypeOK /\ KeysOwned
<1>1. \A r \in ToSet(sessions) : r \in Runs /\ run[r].phase \in Entered
  BY DEF LInv, EntriesUnique, ToSet, Standing
<1>2. sessions \in Seq(In(Entered))
  <2>1. \A i \in 1..Len(sessions) : sessions[i] \in In(Entered)
    BY <1>1 DEF LInv, EntriesUnique, ToSet, In
  <2> QED BY <2>1, SeqDef DEF LInv, EntriesUnique
<1>3. SessionTypeOK
  BY <1>2 DEF LInv, SessionTypeOK, SurroundingsTyped, MarksOwned, Entered
<1>4. \A n \in MarkNames : \A k \in marks[n] : Entry(k) # {}
  BY DEF LInv, MarksOwned, Entry
<1>5. ASSUME NEW i \in DOMAIN sessions, NEW j \in DOMAIN sessions,
             Key(sessions[i]) = Key(sessions[j])
      PROVE  i = j
  <2>1. sessions[i] \in ToSet(sessions) /\ sessions[j] \in ToSet(sessions)
    BY DEF ToSet
  <2> QED BY <1>5, <2>1 DEF LInv, EntriesUnique, Distinct
<1>6. KeysOwned
  BY <1>4, <1>5 DEF KeysOwned, LInv, Standing
<1> QED BY <1>3, <1>6

-----------------------------------------------------------------------------
(* The map.                                                                *)

LEMMA RemoveAtSays ==
    ASSUME NEW S, NEW s \in Seq(S), NEW i \in 1..Len(s)
    PROVE  /\ RemoveAt(s, i) \in Seq(S) /\ Len(RemoveAt(s, i)) = Len(s) - 1
           /\ \A j \in 1..(Len(s) - 1) : RemoveAt(s, i)[j] = IF j < i THEN s[j] ELSE s[j + 1]
<1>1. PICK a : a = SubSeq(s, 1, i - 1)
  OBVIOUS
<1>2. PICK b : b = SubSeq(s, i + 1, Len(s))
  OBVIOUS
<1>3. PICK n \in Nat : n = Len(s) /\ i \in 1..n
  OBVIOUS
<1>4. \A j \in 1..n : s[j] \in S
  BY <1>3
<1>5. a \in Seq(S) /\ Len(a) = i - 1 /\ \A j \in 1..(i - 1) : a[j] = s[j]
  <2>1. \A j \in 1..(i - 1) : s[j] \in S
    BY <1>3, <1>4
  <2>2. /\ a \in Seq(S) /\ Len(a) = IF 1 <= i - 1 THEN (i - 1) - 1 + 1 ELSE 0
        /\ \A j \in 1..((i - 1) - 1 + 1) : a[j] = s[1 + j - 1]
    BY <1>1, <1>3, <2>1, SubSeqProperties
  <2>3. (i - 1) - 1 + 1 = i - 1 /\ \A j \in 1..(i - 1) : 1 + j - 1 = j
    BY <1>3
  <2> QED BY <1>3, <2>2, <2>3
<1>6. b \in Seq(S) /\ Len(b) = n - i /\ \A j \in 1..(n - i) : b[j] = s[i + j]
  <2>1. \A j \in (i + 1)..n : s[j] \in S
    BY <1>3, <1>4
  <2>2. /\ b \in Seq(S) /\ Len(b) = IF i + 1 <= n THEN n - (i + 1) + 1 ELSE 0
        /\ \A j \in 1..(n - (i + 1) + 1) : b[j] = s[i + 1 + j - 1]
    BY <1>2, <1>3, <2>1, SubSeqProperties
  <2>3. n - (i + 1) + 1 = n - i /\ \A j \in 1..(n - i) : i + 1 + j - 1 = i + j
    BY <1>3
  <2> QED BY <1>3, <2>2, <2>3
<1>7. PICK d : d = a \o b /\ d = RemoveAt(s, i)
  BY <1>1, <1>2 DEF RemoveAt
<1>8. /\ d \in Seq(S) /\ Len(d) = Len(a) + Len(b)
      /\ \A j \in 1..(Len(a) + Len(b)) :
            d[j] = IF j <= Len(a) THEN a[j] ELSE b[j - Len(a)]
  <2>1. a \in Seq(S) /\ b \in Seq(S)
    BY <1>5, <1>6
  <2>2. d \in Seq(S)
    BY <1>7, <2>1, ConcatProperties, Zenon
  <2>3. Len(d) = Len(a) + Len(b)
    BY <1>7, <2>1, ConcatProperties, Zenon
  <2>4. \A j \in 1..(Len(a) + Len(b)) : d[j] = IF j <= Len(a) THEN a[j] ELSE b[j - Len(a)]
    BY <1>7, <2>1, ConcatProperties, Zenon
  <2> QED BY <2>2, <2>3, <2>4
<1>9. (i - 1) + (n - i) = n - 1
  BY <1>3
<1>10. /\ Len(d) = n - 1
       /\ \A j \in 1..(n - 1) : d[j] = IF j <= i - 1 THEN a[j] ELSE b[j - (i - 1)]
  BY <1>5, <1>6, <1>8, <1>9
<1>11. ASSUME NEW j \in 1..(n - 1) PROVE d[j] = IF j < i THEN s[j] ELSE s[j + 1]
  <2>1. CASE j < i
    <3>1. j <= i - 1 /\ j \in 1..(i - 1)
      BY <1>3, <2>1
    <3> QED BY <1>5, <1>10, <2>1, <3>1
  <2>2. CASE ~(j < i)
    <3>1. ~(j <= i - 1) /\ j - (i - 1) \in 1..(n - i) /\ i + (j - (i - 1)) = j + 1
      BY <1>3, <2>2
    <3> QED BY <1>6, <1>10, <2>2, <3>1
  <2> QED BY <2>1, <2>2
<1> QED BY <1>3, <1>7, <1>8, <1>10, <1>11

LEMMA DeletedSays ==
    ASSUME EntriesUnique, NEW k
    PROVE  /\ Deleted(k) \in Seq(Runs) /\ Distinct(Deleted(k))
           /\ ToSet(Deleted(k)) = {r \in ToSet(sessions) : Key(r) # k}
<1>1. CASE Entry(k) = {}
  BY <1>1 DEF Deleted, Entry, EntriesUnique
<1>2. CASE Entry(k) # {}
  <2> DEFINE s == sessions
             i == CHOOSE j \in DOMAIN sessions : Key(sessions[j]) = k
             d == RemoveAt(s, i)
  <2>1. i \in DOMAIN s /\ Key(s[i]) = k
    BY <1>2 DEF Entry, ToSet
  <2>2. Deleted(k) = d
    BY <1>2 DEF Deleted
  <2> HIDE DEF i
  <2>3. s \in Seq(Runs) /\ DOMAIN s = 1..Len(s) /\ Len(s) \in Nat /\ i \in 1..Len(s)
    BY <2>1 DEF EntriesUnique
  <2>4. /\ d \in Seq(Runs) /\ DOMAIN d = 1..(Len(s) - 1)
        /\ \A j \in 1..(Len(s) - 1) : d[j] = IF j < i THEN s[j] ELSE s[j + 1]
    <3>1. /\ d \in Seq(Runs) /\ Len(d) = Len(s) - 1
          /\ \A j \in 1..(Len(s) - 1) : d[j] = IF j < i THEN s[j] ELSE s[j + 1]
      BY <2>3, RemoveAtSays
    <3> HIDE DEF d
    <3>2. DOMAIN d = 1..Len(d)
      BY <3>1
    <3> QED BY <3>1, <3>2
  <2> HIDE DEF d
  <2>5. Distinct(d)
    <3> SUFFICES ASSUME NEW x \in DOMAIN d, NEW y \in DOMAIN d, d[x] = d[y] PROVE x = y
      BY DEF Distinct
    <3> DEFINE u == IF x < i THEN x ELSE x + 1
               v == IF y < i THEN y ELSE y + 1
    <3>1. u \in DOMAIN s /\ v \in DOMAIN s /\ d[x] = s[u] /\ d[y] = s[v]
      BY <2>3, <2>4
    <3>2. u = v
      BY <3>1 DEF EntriesUnique, Distinct
    <3> QED BY <2>3, <2>4, <3>2
  <2>6. ASSUME NEW r \in ToSet(d) PROVE r \in ToSet(s) /\ Key(r) # k
    <3>1. PICK x \in DOMAIN d : d[x] = r
      BY DEF ToSet
    <3> DEFINE u == IF x < i THEN x ELSE x + 1
    <3>2. u \in DOMAIN s /\ r = s[u] /\ u # i
      BY <2>3, <2>4, <3>1
    <3>3. r \in ToSet(s) /\ s[i] \in ToSet(s)
      BY <2>1, <3>2 DEF ToSet
    <3>4. r # s[i]
      BY <2>1, <3>2 DEF EntriesUnique, Distinct
    <3> QED BY <2>1, <3>3, <3>4 DEF EntriesUnique
  <2>7. ASSUME NEW r \in ToSet(s), Key(r) # k PROVE r \in ToSet(d)
    <3>1. PICK x \in DOMAIN s : s[x] = r
      BY DEF ToSet
    <3>2. x # i
      BY <2>1, <2>7, <3>1
    <3> DEFINE u == IF x < i THEN x ELSE x - 1
    <3>3. u \in DOMAIN d /\ d[u] = r
      <4>1. CASE x < i
        BY <2>3, <2>4, <3>1, <4>1
      <4>2. CASE ~(x < i)
        <5>1. i < x /\ x - 1 \in 1..(Len(s) - 1) /\ ~(x - 1 < i) /\ (x - 1) + 1 = x
          BY <2>3, <3>2, <4>2
        <5> QED BY <2>4, <3>1, <4>2, <5>1
      <4> QED BY <4>1, <4>2
    <3> QED BY <3>3 DEF ToSet
  <2>8. ToSet(d) = {r \in ToSet(s) : Key(r) # k}
    BY <2>6, <2>7
  <2> QED BY <2>2, <2>4, <2>5, <2>8 DEF d
<1> QED BY <1>1, <1>2

LEMMA RegisteredSays ==
    ASSUME EntriesUnique, NEW r \in Runs, r \notin ToSet(sessions)
    PROVE  /\ Registered(r) \in Seq(Runs) /\ Distinct(Registered(r))
           /\ ToSet(Registered(r)) = {t \in ToSet(sessions) : Key(t) # Key(r)} \cup {r}
<1> DEFINE s == sessions
           d == Registered(r)
<1>1. s \in Seq(Runs) /\ DOMAIN s = 1..Len(s) /\ Len(s) \in Nat
  BY DEF EntriesUnique
<1>2. CASE Entry(Key(r)) = {}
  <2>1. d = Append(s, r)
    BY <1>2 DEF Registered
  <2>2. /\ d \in Seq(Runs) /\ Len(d) = Len(s) + 1 /\ d[Len(s) + 1] = r
        /\ \A i \in 1..Len(s) : d[i] = s[i]
    BY <1>1, <2>1, AppendProperties
  <2>3. DOMAIN d = 1..(Len(s) + 1)
    BY <2>2
  <2> HIDE DEF d
  <2>4. Distinct(d)
    <3> SUFFICES ASSUME NEW x \in DOMAIN d, NEW y \in DOMAIN d, d[x] = d[y] PROVE x = y
      BY DEF Distinct
    <3>1. \A i \in DOMAIN s : s[i] # r
      BY DEF ToSet
    <3>2. CASE x \in DOMAIN s /\ y \in DOMAIN s
      BY <1>1, <2>2, <3>2 DEF EntriesUnique, Distinct
    <3>3. CASE x \notin DOMAIN s /\ y \notin DOMAIN s
      BY <1>1, <2>3, <3>3
    <3>4. CASE x \in DOMAIN s /\ y \notin DOMAIN s
      <4>1. y = Len(s) + 1
        BY <1>1, <2>3, <3>4
      <4> QED BY <1>1, <2>2, <3>1, <3>4, <4>1
    <3>5. CASE x \notin DOMAIN s /\ y \in DOMAIN s
      <4>1. x = Len(s) + 1
        BY <1>1, <2>3, <3>5
      <4> QED BY <1>1, <2>2, <3>1, <3>5, <4>1
    <3> QED BY <3>2, <3>3, <3>4, <3>5
  <2>5. ToSet(d) = ToSet(s) \cup {r}
    <3>1. \A x \in ToSet(d) : x \in ToSet(s) \cup {r}
      <4> SUFFICES ASSUME NEW i \in DOMAIN d PROVE d[i] \in ToSet(s) \cup {r}
        BY DEF ToSet
      <4>1. CASE i \in DOMAIN s
        BY <1>1, <2>2, <4>1 DEF ToSet
      <4>2. CASE i \notin DOMAIN s
        <5>1. i = Len(s) + 1
          BY <1>1, <2>3, <4>2
        <5> QED BY <2>2, <5>1
      <4> QED BY <4>1, <4>2
    <3>2. \A x \in ToSet(s) : x \in ToSet(d)
      <4> SUFFICES ASSUME NEW i \in DOMAIN s PROVE s[i] \in ToSet(d)
        BY DEF ToSet
      <4>1. i \in DOMAIN d /\ d[i] = s[i]
        BY <1>1, <2>2, <2>3
      <4> QED BY <4>1 DEF ToSet
    <3>3. r \in ToSet(d)
      <4>1. Len(s) + 1 \in DOMAIN d
        BY <1>1, <2>3
      <4> QED BY <2>2, <4>1 DEF ToSet
    <3> QED BY <3>1, <3>2, <3>3
  <2>6. \A t \in ToSet(s) : Key(t) # Key(r)
    BY <1>2 DEF Entry
  <2> QED BY <2>2, <2>4, <2>5, <2>6 DEF d
<1>3. CASE Entry(Key(r)) # {}
  <2>1. d = [i \in DOMAIN s |-> IF Key(s[i]) = Key(r) THEN r ELSE s[i]]
    BY <1>3 DEF Registered
  <2>2. PICK k \in DOMAIN s : Key(s[k]) = Key(r)
    BY <1>3 DEF Entry, ToSet
  <2>3. \A i \in DOMAIN s : Key(s[i]) = Key(r) => i = k
    <3> SUFFICES ASSUME NEW i \in DOMAIN s, Key(s[i]) = Key(r) PROVE i = k
      OBVIOUS
    <3>1. s[i] \in ToSet(s) /\ s[k] \in ToSet(s)
      BY <2>2 DEF ToSet
    <3> QED BY <2>2, <3>1 DEF EntriesUnique, Distinct
  <2>4. DOMAIN d = DOMAIN s /\ d[k] = r /\ \A i \in DOMAIN s : i # k => d[i] = s[i]
    BY <2>1, <2>2, <2>3
  <2>5. d \in Seq(Runs)
    <3>1. \A i \in 1..Len(s) : d[i] \in Runs
      BY <1>1, <2>4
    <3>2. d \in [1..Len(s) -> Runs]
      BY <1>1, <2>1, <3>1
    <3> QED BY <1>1, <3>2, SeqDef
  <2> HIDE DEF d
  <2>6. \A i \in DOMAIN s : s[i] # r
    BY DEF ToSet
  <2>7. Distinct(d)
    BY <2>2, <2>4, <2>6 DEF EntriesUnique, Distinct
  <2>8. ToSet(d) = {t \in ToSet(s) : Key(t) # Key(r)} \cup {r}
    <3>1. ASSUME NEW i \in DOMAIN d
          PROVE  d[i] = r \/ (d[i] \in ToSet(s) /\ Key(d[i]) # Key(r))
      BY <2>3, <2>4 DEF ToSet
    <3>2. ASSUME NEW i \in DOMAIN s, Key(s[i]) # Key(r) PROVE s[i] \in ToSet(d)
      <4>1. i # k
        BY <2>2, <3>2
      <4>2. i \in DOMAIN d /\ d[i] = s[i]
        BY <2>4, <4>1
      <4> QED BY <4>2 DEF ToSet
    <3>3. r \in ToSet(d)
      BY <2>2, <2>4 DEF ToSet
    <3> QED BY <3>1, <3>2, <3>3 DEF ToSet
  <2> QED BY <2>5, <2>7, <2>8 DEF d
<1> QED BY <1>2, <1>3

-----------------------------------------------------------------------------
(* Steps that leave entries or take them away.                             *)

\* The entries that stay keep their key and their standing, and the marks belong to
\* them.
LEMMA EntriesKept ==
    ASSUME LInv, SurroundingsTyped', run' \in [Runs -> Run], Keyed',
           sessions' \in Seq(Runs), Distinct(sessions'),
           ToSet(sessions') \subseteq ToSet(sessions),
           \A r \in ToSet(sessions') : run'[r].key = run[r].key /\ Standing(r)',
           marks' \in [MarkNames -> SUBSET Connections],
           \A n \in MarkNames : \A k \in marks'[n] :
               \E r \in ToSet(sessions') : run[r].key = k
    PROVE  LInv'
<1>1. \A r, t \in ToSet(sessions') : run'[r].key = run'[t].key => r = t
  BY DEF LInv, EntriesUnique, Key
<1>2. EntriesUnique'
  BY <1>1 DEF EntriesUnique, Key, Distinct
<1>3. MarksOwned'
  BY DEF MarksOwned, Key
<1> QED BY <1>2, <1>3 DEF LInv

\* No entry is added or removed.
LEMMA MapKept ==
    ASSUME LInv, SurroundingsTyped', run' \in [Runs -> Run], Keyed', UNCHANGED sessions,
           \A r \in ToSet(sessions) : run'[r].key = run[r].key /\ Standing(r)',
           marks' \in [MarkNames -> SUBSET Connections],
           \A n \in MarkNames : \A k \in marks'[n] : Entry(k) # {}
    PROVE  LInv'
<1>1. sessions' \in Seq(Runs) /\ Distinct(sessions')
  BY DEF LInv, EntriesUnique
<1>2. \A n \in MarkNames : \A k \in marks'[n] : \E r \in ToSet(sessions') : run[r].key = k
  BY DEF Entry, Key
<1> QED BY <1>1, <1>2, EntriesKept

\* Nothing of a key stays: neither its entry nor its marks.
LEMMA ForgetKeeps ==
    ASSUME LInv, NEW k, Forget(k), SurroundingsTyped', run' \in [Runs -> Run], Keyed',
           \A r \in ToSet(sessions) : Key(r) # k =>
               run'[r].key = run[r].key /\ Standing(r)'
    PROVE  LInv'
<1>1. /\ sessions' \in Seq(Runs) /\ Distinct(sessions')
      /\ ToSet(sessions') = {r \in ToSet(sessions) : Key(r) # k}
  BY DeletedSays DEF Forget, LInv
<1>2. marks' = [n \in MarkNames |-> marks[n] \ {k}]
  BY DEF Forget, Without
<1>3. marks' \in [MarkNames -> SUBSET Connections]
  BY <1>2 DEF LInv, MarksOwned
<1>4. ASSUME NEW n \in MarkNames, NEW l \in marks'[n]
      PROVE  \E r \in ToSet(sessions') : run[r].key = l
  <2>1. l \in marks[n] /\ l # k
    BY <1>2, <1>4
  <2>2. PICK r \in ToSet(sessions) : Key(r) = l
    BY <2>1 DEF LInv, MarksOwned
  <2> QED BY <1>1, <2>1, <2>2 DEF Key
<1> QED BY <1>1, <1>3, <1>4, EntriesKept

-----------------------------------------------------------------------------
(* The marks of a key.                                                     *)

LEMMA MarksSay ==
    ASSUME NEW m \in [MarkNames -> SUBSET Connections], NEW k \in Connections,
           NEW names \in SUBSET MarkNames
    PROVE  /\ With(m, names, k) \in [MarkNames -> SUBSET Connections]
           /\ Without(m, names, k) \in [MarkNames -> SUBSET Connections]
           /\ \A n \in MarkNames : /\ With(m, names, k)[n] \subseteq m[n] \cup {k}
                                   /\ Without(m, names, k)[n] \subseteq m[n]
BY DEF With, Without

LEMMA MarkSets ==
    /\ {"attached"} \in SUBSET MarkNames /\ {"suspended"} \in SUBSET MarkNames
    /\ {"attached", "closeoutTimers"} \in SUBSET MarkNames
    /\ {"suspended", "suspendTimers"} \in SUBSET MarkNames
    /\ {"detachTimers"} \in SUBSET MarkNames /\ {"closeoutTimers"} \in SUBSET MarkNames
    /\ {"userClosing"} \in SUBSET MarkNames /\ MarkNames \in SUBSET MarkNames
BY DEF MarkNames, Timers

\* Whatever is marked, it is marks of that key.
MarksOf(m, d, k) ==
    /\ d \in [MarkNames -> SUBSET Connections]
    /\ \A n \in MarkNames : d[n] \subseteq m[n] \cup {k}

LEMMA HandlersMark ==
    ASSUME NEW m \in [MarkNames -> SUBSET Connections], NEW k \in Connections
    PROVE  /\ MarksOf(m, m, k)
           /\ MarksOf(m, Detached(m, k), k)
           /\ MarksOf(m, Reattached(m, k), k)
           /\ MarksOf(m, Suspended(m, k), k)
           /\ MarksOf(m, With(m, {"attached"}, k), k)
           /\ MarksOf(m, With(m, {"userClosing"}, k), k)
           /\ MarksOf(m, Without(m, {"suspended", "suspendTimers"}, k), k)
           /\ MarksOf(m, Without(m, {"detachTimers"}, k), k)
           /\ MarksOf(m, Without(m, {"closeoutTimers"}, k), k)
           /\ MarksOf(m, With(Without(m, {"detachTimers"}, k), {"closeoutTimers"}, k), k)
           /\ MarksOf(m, Detached(Without(m, {"suspended", "suspendTimers"}, k), k), k)
<1>1. ASSUME NEW d \in [MarkNames -> SUBSET Connections], NEW names \in SUBSET MarkNames,
             MarksOf(m, d, k)
      PROVE  MarksOf(m, With(d, names, k), k) /\ MarksOf(m, Without(d, names, k), k)
  BY <1>1, MarksSay DEF MarksOf
<1>2. \A d : MarksOf(m, d, k) => d \in [MarkNames -> SUBSET Connections]
  BY DEF MarksOf
<1>3. MarksOf(m, m, k)
  BY DEF MarksOf
<1>4. ASSUME NEW d, MarksOf(m, d, k), NEW names \in SUBSET MarkNames
      PROVE  MarksOf(m, With(d, names, k), k) /\ MarksOf(m, Without(d, names, k), k)
  BY <1>1, <1>2, <1>4
<1>5. ASSUME NEW d, MarksOf(m, d, k) PROVE MarksOf(m, Detached(d, k), k)
  <2>1. MarksOf(m, Without(d, {"attached", "closeoutTimers"}, k), k)
    BY <1>4, <1>5, MarkSets
  <2>2. MarksOf(m, With(Without(d, {"attached", "closeoutTimers"}, k), {"detachTimers"}, k), k)
    BY <1>4, <2>1, MarkSets
  <2> QED BY <1>5, <2>2 DEF Detached
<1>6. MarksOf(m, Reattached(m, k), k)
  <2>1. MarksOf(m, Without(m, MarkNames, k), k)
    BY <1>3, <1>4, MarkSets
  <2> QED BY <1>4, <2>1, MarkSets DEF Reattached
<1>7. MarksOf(m, Suspended(m, k), k)
  <2>1. MarksOf(m, Without(m, {"detachTimers"}, k), k)
    BY <1>3, <1>4, MarkSets
  <2>2. {"suspended", "suspendTimers"} \in SUBSET MarkNames
    BY MarkSets
  <2> QED BY <1>4, <2>1, <2>2 DEF Suspended
<1>8. /\ MarksOf(m, With(m, {"attached"}, k), k)
      /\ MarksOf(m, With(m, {"userClosing"}, k), k)
  BY <1>3, <1>4, MarkSets
<1>9. /\ MarksOf(m, Without(m, {"suspended", "suspendTimers"}, k), k)
      /\ MarksOf(m, Without(m, {"detachTimers"}, k), k)
      /\ MarksOf(m, Without(m, {"closeoutTimers"}, k), k)
  BY <1>3, <1>4, MarkSets
<1>10. MarksOf(m, With(Without(m, {"detachTimers"}, k), {"closeoutTimers"}, k), k)
  BY <1>4, <1>9, MarkSets
<1>11. MarksOf(m, Detached(Without(m, {"suspended", "suspendTimers"}, k), k), k)
  BY <1>5, <1>9
<1> QED BY <1>3, <1>5, <1>6, <1>7, <1>8, <1>9, <1>10, <1>11

\* A step that at most marks an entry, and names it another owner.
LEMMA MarkingKeeps ==
    ASSUME LInv, SurroundingsTyped', UNCHANGED sessions,
           NEW k, Entry(k) # {}, MarksOf(marks, marks', k),
           \/ UNCHANGED run
           \/ \E r \in Runs, c \in Connections : run' = [run EXCEPT ![r].owner = c]
    PROVE  LInv'
<1>1. /\ run' \in [Runs -> Run]
      /\ \A r \in Runs : /\ run'[r].phase = run[r].phase /\ run'[r].key = run[r].key
                         /\ run'[r].aborted = run[r].aborted /\ run'[r].owned = run[r].owned
  <2>1. CASE UNCHANGED run
    BY <2>1 DEF LInv
  <2>2. ASSUME NEW r \in Runs, NEW c \in Connections, run' = [run EXCEPT ![r].owner = c]
        PROVE  /\ run' \in [Runs -> Run]
               /\ \A t \in Runs :
                     /\ run'[t].phase = run[t].phase /\ run'[t].key = run[t].key
                     /\ run'[t].aborted = run[t].aborted /\ run'[t].owned = run[t].owned
    BY <2>2 DEF LInv, Run
  <2> QED BY <2>1, <2>2
<1>2. Keyed'
  BY <1>1 DEF LInv, Keyed
<1>3. \A r \in ToSet(sessions) : r \in Runs
  BY DEF LInv, EntriesUnique, ToSet
<1>4. \A r \in ToSet(sessions) : run'[r].key = run[r].key /\ Standing(r)'
  BY <1>1, <1>3 DEF LInv, Standing
<1>5. marks' \in [MarkNames -> SUBSET Connections]
  BY DEF MarksOf
<1>6. \A n \in MarkNames : \A l \in marks'[n] : Entry(l) # {}
  <2> SUFFICES ASSUME NEW n \in MarkNames, NEW l \in marks'[n], l # k PROVE Entry(l) # {}
    OBVIOUS
  <2>1. l \in marks[n]
    BY DEF MarksOf
  <2> QED BY <2>1 DEF LInv, MarksOwned, Entry
<1> QED BY <1>1, <1>2, <1>4, <1>5, <1>6, MapKept

LEMMA UntouchedKeeps ==
    ASSUME LInv, SurroundingsTyped', UNCHANGED <<run, sessions, marks>>
    PROVE  LInv'
<1>1. \A r \in ToSet(sessions) : run'[r].key = run[r].key /\ Standing(r)'
  BY DEF LInv, Standing
<1>2. Keyed' /\ run' \in [Runs -> Run] /\ marks' \in [MarkNames -> SUBSET Connections]
  BY DEF LInv, Keyed, MarksOwned
<1>3. \A n \in MarkNames : \A k \in marks'[n] : Entry(k) # {}
  BY DEF LInv, MarksOwned, Entry
<1> QED BY <1>1, <1>2, <1>3, MapKept

\* The first entry is an entry, under the key of a connection.
LEMMA FoundSays ==
    ASSUME LInv, Found # NULL
    PROVE  /\ Found \in ToSet(sessions) /\ Found \in Runs
           /\ Key(Found) \in Connections /\ Entry(Key(Found)) # {}
<1>1. sessions \in Seq(Runs) /\ sessions # <<>> /\ Found = sessions[1]
  BY DEF Found, LInv, EntriesUnique
<1>2. 1 \in DOMAIN sessions /\ sessions[1] \in Runs
  BY <1>1
<1>3. Found \in ToSet(sessions) /\ Found \in Runs
  BY <1>1, <1>2 DEF ToSet
<1>4. Standing(Found)
  BY <1>3 DEF LInv
<1>5. Key(Found) \in Connections
  BY <1>3, <1>4 DEF LInv, Keyed, Key, Standing, Entered
<1> QED BY <1>3, <1>5 DEF Entry

LEMMA EntrySays ==
    ASSUME LInv, NEW r \in ToSet(sessions)
    PROVE  r \in Runs /\ Standing(r) /\ Key(r) \in Connections /\ r \in Entry(Key(r))
<1>1. r \in Runs /\ Standing(r)
  BY DEF LInv, EntriesUnique, ToSet
<1>2. Key(r) \in Connections
  BY <1>1 DEF LInv, Keyed, Key, Standing, Entered
<1> QED BY <1>1, <1>2 DEF Entry

\* Reattaching the first entry.
LEMMA ReattachKeeps ==
    ASSUME LInv, SurroundingsTyped', UNCHANGED sessions, Found # NULL,
           NEW c \in Connections, Reattach(Found, c)
    PROVE  LInv'
<1>1. PICK k \in Connections : k = Key(Found) /\ Entry(k) # {}
  BY FoundSays
<1>2. PICK f \in Runs : f = Found
  BY FoundSays
<1>3. run' = [run EXCEPT ![f].owner = c] /\ marks' = Reattached(marks, k)
  BY <1>1, <1>2 DEF Reattach
<1>4. marks \in [MarkNames -> SUBSET Connections]
  BY DEF LInv, MarksOwned
<1>5. MarksOf(marks, marks', k)
  BY <1>3, <1>4, HandlersMark
<1> QED BY <1>1, <1>3, <1>5, MarkingKeeps

LEMMA ConnectionsKeep ==
    ASSUME LInv, NEW c \in Connections,
           Disconnect(c) \/ Unwatch(c) \/ Switch(c) \/ Reconnect(c) \/ Suspend(c) \/ Join(c)
    PROVE  LInv'
<1>1. marks \in [MarkNames -> SUBSET Connections] /\ SurroundingsTyped
  BY DEF LInv, MarksOwned
<1>2. /\ "ACTIVE" \in States /\ "DETACHED" \in States /\ "SUSPENDED" \in States
  BY DEF States
<1>3. CASE Disconnect(c)
  <2>1. SurroundingsTyped'
    BY <1>1, <1>2, <1>3 DEF Disconnect, SurroundingsTyped
  <2>2. UNCHANGED <<run, sessions>>
    BY <1>3 DEF Disconnect
  <2>3. CASE UNCHANGED marks
    BY <2>1, <2>2, <2>3, UntouchedKeeps
  <2>4. CASE Found # NULL /\ marks' = Detached(marks, Key(Found))
    <3>1. PICK k \in Connections : k = Key(Found) /\ Entry(k) # {}
      BY <2>4, FoundSays
    <3>2. MarksOf(marks, marks', k)
      BY <1>1, <2>4, <3>1, HandlersMark
    <3> QED BY <2>1, <2>2, <3>1, <3>2, MarkingKeeps
  <2> QED BY <1>3, <2>3, <2>4 DEF Disconnect
<1>4. CASE Unwatch(c)
  <2>1. SurroundingsTyped'
    BY <1>1, <1>4 DEF Unwatch, SurroundingsTyped
  <2> QED BY <1>4, <2>1, UntouchedKeeps DEF Unwatch, registry
<1>5. CASE Switch(c)
  <2>1. SurroundingsTyped'
    BY <1>1, <1>2, <1>5 DEF Switch, SurroundingsTyped, Open, Reattach
  <2>2. CASE UNCHANGED <<run, marks>>
    BY <1>5, <2>1, <2>2, UntouchedKeeps DEF Switch
  <2>3. CASE Found # NULL /\ Reattach(Found, c)
    BY <1>5, <2>1, <2>3, ReattachKeeps DEF Switch
  <2> QED BY <1>5, <2>2, <2>3 DEF Switch
<1>6. CASE Reconnect(c)
  <2>1. CASE Found = NULL /\ UNCHANGED <<run, registry, state>>
    <3>1. SurroundingsTyped'
      BY <1>1, <1>6, <2>1 DEF Reconnect, SurroundingsTyped, Open
    <3> QED BY <2>1, <3>1, UntouchedKeeps DEF registry
  <2>2. CASE Found # NULL /\ Forget(Key(Found)) /\ UNCHANGED <<run, state>>
    <3>1. SurroundingsTyped'
      BY <1>1, <1>6, <2>2 DEF Reconnect, SurroundingsTyped, Open
    <3>2. run' \in [Runs -> Run] /\ Keyed'
      BY <2>2 DEF LInv, Keyed
    <3>3. \A r \in ToSet(sessions) : run'[r].key = run[r].key /\ Standing(r)'
      BY <2>2 DEF LInv, Standing
    <3>4. PICK k : k = Key(Found)
      OBVIOUS
    <3> QED BY <2>2, <3>1, <3>2, <3>3, <3>4, ForgetKeeps
  <2>3. CASE Found # NULL /\ Reattach(Found, c) /\ UNCHANGED sessions
    <3>1. SurroundingsTyped'
      BY <1>1, <1>2, <1>6, <2>3 DEF Reconnect, SurroundingsTyped, Open, Reattach
    <3> QED BY <2>3, <3>1, ReattachKeeps
  <2>4. ASSUME Found # NULL, UNCHANGED <<run, sessions>>, state' \in {"ACTIVE", state},
               marks' = Without(marks, {"suspended", "suspendTimers"}, Key(Found))
        PROVE  LInv'
    <3>1. SurroundingsTyped'
      BY <1>1, <1>2, <1>6, <2>4 DEF Reconnect, SurroundingsTyped, Open
    <3>2. PICK k \in Connections : k = Key(Found) /\ Entry(k) # {}
      BY <2>4, FoundSays
    <3>3. MarksOf(marks, marks', k)
      BY <1>1, <2>4, <3>2, HandlersMark
    <3> QED BY <2>4, <3>1, <3>2, <3>3, MarkingKeeps
  <2> QED BY <1>6, <2>1, <2>2, <2>3, <2>4 DEF Reconnect
<1>7. CASE Suspend(c)
  <2>1. SurroundingsTyped'
    BY <1>1, <1>2, <1>7, LifetimeAssumption DEF Suspend, SurroundingsTyped
  <2>2. PICK k \in Connections : k = Key(Found) /\ Entry(k) # {}
    BY <1>7, FoundSays DEF Suspend
  <2>3. MarksOf(marks, marks', k)
    BY <1>1, <1>7, <2>2, HandlersMark DEF Suspend
  <2> QED BY <1>7, <2>1, <2>2, <2>3, MarkingKeeps DEF Suspend
<1>8. CASE Join(c)
  <2>1. SurroundingsTyped'
    BY <1>1, <1>2, <1>8 DEF Join, SurroundingsTyped, Open, Reattach
  <2>2. CASE UNCHANGED <<run, marks>>
    BY <1>8, <2>1, <2>2, UntouchedKeeps DEF Join
  <2>3. CASE Found # NULL /\ Reattach(Found, c)
    BY <1>8, <2>1, <2>3, ReattachKeeps DEF Join
  <2> QED BY <1>8, <2>2, <2>3 DEF Join
<1> QED BY <1>3, <1>4, <1>5, <1>6, <1>7, <1>8

LEMMA CloseKeeps ==
    ASSUME LInv, NEW c \in Connections, Close(c)
    PROVE  LInv'
<1>1. marks \in [MarkNames -> SUBSET Connections] /\ SurroundingsTyped
  BY DEF LInv, MarksOwned
<1>2. PICK k \in Connections : k = Key(Found) /\ Entry(k) # {}
  BY FoundSays DEF Close
<1>3. SurroundingsTyped'
  BY <1>1, <1>2, LifetimeAssumption DEF Close, SurroundingsTyped
<1>4. MarksOf(marks, marks', k)
  BY <1>1, <1>2, HandlersMark DEF Close
<1> QED BY <1>2, <1>3, <1>4, MarkingKeeps DEF Close

-----------------------------------------------------------------------------
(* Steps that abort runs or begin them.                                    *)

\* Controllers are taken from preparations and from what is removed.
LEMMA AbortingSays ==
    ASSUME LInv, NEW victims \in SUBSET Runs, NEW d, d = Aborting(victims)
    PROVE  /\ d \in [Runs -> Run]
           /\ \A r \in Runs : /\ d[r].phase = run[r].phase /\ d[r].key = run[r].key
                              /\ r \notin victims => d[r] = run[r]
BY DEF LInv, Aborting, Run

LEMMA VictimsSay ==
    ASSUME LInv, NEW k
    PROVE  /\ Victims(k) \in SUBSET Runs /\ Startups \in SUBSET Runs
           /\ \A r \in ToSet(sessions) : r \notin Startups
           /\ \A r \in ToSet(sessions) : Key(r) # k => r \notin Victims(k)
<1>1. \A r \in ToSet(sessions) : r \in Runs /\ r \notin Startups
  BY EntrySays DEF Startups, In, Standing, Entered
<1>2. Startups \in SUBSET Runs
  BY DEF Startups, In
<1> QED BY <1>1, <1>2 DEF Victims, Entry

LEMMA AbortKeeps ==
    ASSUME LInv, NEW k, Abort(k), SurroundingsTyped'
    PROVE  LInv'
<1>1. run' = Aborting(Victims(k)) /\ Forget(k)
  BY DEF Abort
<1>2. /\ Victims(k) \in SUBSET Runs
      /\ \A r \in ToSet(sessions) : Key(r) # k => r \notin Victims(k)
  BY VictimsSay
<1>3. /\ run' \in [Runs -> Run]
      /\ \A r \in Runs : /\ run'[r].phase = run[r].phase /\ run'[r].key = run[r].key
                         /\ r \notin Victims(k) => run'[r] = run[r]
  BY <1>1, <1>2, AbortingSays
<1>4. Keyed'
  BY <1>3 DEF LInv, Keyed
<1>5. \A r \in ToSet(sessions) : Key(r) # k => run'[r].key = run[r].key /\ Standing(r)'
  BY <1>2, <1>3, EntrySays DEF Standing
<1> QED BY <1>1, <1>3, <1>4, <1>5, ForgetKeeps

LEMMA StopKeeps ==
    ASSUME LInv, NEW c \in Connections, Stop(c)
    PROVE  LInv'
<1>1. SurroundingsTyped'
  BY DEF Stop, LInv, SurroundingsTyped
<1>2. CASE Found = NULL
  <2>1. run' = Aborting(Startups) /\ UNCHANGED registry
    BY <1>2 DEF Stop
  <2>2. /\ run' \in [Runs -> Run]
        /\ \A r \in Runs : /\ run'[r].phase = run[r].phase /\ run'[r].key = run[r].key
                           /\ r \notin Startups => run'[r] = run[r]
    BY <2>1, VictimsSay, AbortingSays
  <2>3. Keyed'
    BY <2>2 DEF LInv, Keyed
  <2>4. \A r \in ToSet(sessions) : run'[r].key = run[r].key /\ Standing(r)'
    BY <2>2, EntrySays, VictimsSay DEF Standing
  <2>5. /\ marks' \in [MarkNames -> SUBSET Connections]
        /\ \A n \in MarkNames : \A k \in marks'[n] : Entry(k) # {}
    BY <2>1 DEF registry, LInv, MarksOwned, Entry
  <2> QED BY <1>1, <2>1, <2>2, <2>3, <2>4, <2>5, MapKept DEF registry
<1>3. CASE Found # NULL
  <2>1. PICK k \in Connections : k = Key(Found)
    BY <1>3, FoundSays
  <2> DEFINE victims == Startups \cup Entry(k)
  <2>2. run' = Aborting(victims) /\ Forget(k)
    BY <1>3, <2>1 DEF Stop
  <2>3. /\ victims \in SUBSET Runs
        /\ \A r \in ToSet(sessions) : Key(r) # k => r \notin victims
    BY VictimsSay DEF Victims, Entry
  <2> HIDE DEF victims
  <2>4. /\ run' \in [Runs -> Run]
        /\ \A r \in Runs : /\ run'[r].phase = run[r].phase /\ run'[r].key = run[r].key
                           /\ r \notin victims => run'[r] = run[r]
    BY <2>2, <2>3, AbortingSays
  <2>5. Keyed'
    BY <2>4 DEF LInv, Keyed
  <2>6. \A r \in ToSet(sessions) : Key(r) # k => run'[r].key = run[r].key /\ Standing(r)'
    BY <2>3, <2>4, EntrySays DEF Standing
  <2> QED BY <1>1, <2>2, <2>4, <2>5, <2>6, ForgetKeeps
<1> QED BY <1>2, <1>3

\* A prompt begins a run that is no entry yet.
LEMMA StartKeeps ==
    ASSUME LInv, NEW c \in Connections, Start(c)
    PROVE  LInv'
<1>1. SurroundingsTyped'
  BY DEF Start, LInv, SurroundingsTyped, Open
<1>2. PICK k : k = Key(Found)
  OBVIOUS
<1>3. PICK b \in [Runs -> Run] :
          /\ b = IF Found = NULL THEN run ELSE Aborting(Victims(k))
          /\ \A r \in Runs : b[r].phase = run[r].phase /\ b[r].key = run[r].key
          /\ \A r \in ToSet(sessions) : (Found = NULL \/ Key(r) # k) => b[r] = run[r]
  <2>1. CASE Found = NULL
    BY <2>1 DEF LInv
  <2>2. CASE Found # NULL
    <3>1. PICK d : d = Aborting(Victims(k))
      OBVIOUS
    <3>2. /\ Victims(k) \in SUBSET Runs
          /\ \A r \in ToSet(sessions) : r \in Runs /\ (Key(r) # k => r \notin Victims(k))
      BY VictimsSay, EntrySays
    <3>3. /\ d \in [Runs -> Run]
          /\ \A r \in Runs : /\ d[r].phase = run[r].phase /\ d[r].key = run[r].key
                             /\ r \notin Victims(k) => d[r] = run[r]
      BY <3>1, <3>2, AbortingSays
    <3> QED BY <2>2, <3>1, <3>2, <3>3
  <2> QED BY <2>1, <2>2
<1>4. PICK r \in Runs :
          /\ run[r].phase = "idle"
          /\ run' = [b EXCEPT ![r].phase = "routed", ![r].key = c, ![r].owner = c]
  BY <1>2, <1>3 DEF Start, In
<1>5. /\ run' \in [Runs -> Run]
      /\ run'[r].phase = "routed" /\ run'[r].key = c
      /\ \A t \in Runs : t # r => run'[t] = b[t]
  <2> DEFINE row == [b[r] EXCEPT !.phase = "routed", !.key = c, !.owner = c]
  <2>1. PICK old \in Run : old = b[r]
    BY <1>3
  <2>2. row = [old EXCEPT !.phase = "routed", !.key = c, !.owner = c]
    BY <2>1
  <2>3. row \in Run /\ row.phase = "routed" /\ row.key = c
    BY <2>2 DEF Run, Phases
  <2>4. run' = [b EXCEPT ![r] = row]
    BY <1>3, <1>4
  <2> HIDE DEF row
  <2> QED BY <1>3, <2>3, <2>4
<1>6. Keyed'
  BY <1>3, <1>5 DEF LInv, Keyed
<1>7. \A t \in ToSet(sessions) :
          (Found = NULL \/ Key(t) # k) => run'[t].key = run[t].key /\ Standing(t)'
  <2> SUFFICES ASSUME NEW t \in ToSet(sessions), Found = NULL \/ Key(t) # k
               PROVE  run'[t].key = run[t].key /\ Standing(t)'
    OBVIOUS
  <2>1. t \in Runs /\ Standing(t)
    BY EntrySays
  <2>2. t # r
    BY <1>4, <2>1 DEF Standing, Entered
  <2>3. run'[t] = run[t]
    BY <1>3, <1>5, <2>1, <2>2
  <2> QED BY <2>1, <2>3 DEF Standing
<1>8. CASE Found = NULL
  <2>1. UNCHANGED registry
    BY <1>8 DEF Start
  <2>2. /\ marks' \in [MarkNames -> SUBSET Connections]
        /\ \A n \in MarkNames : \A l \in marks'[n] : Entry(l) # {}
    BY <2>1 DEF registry, LInv, MarksOwned, Entry
  <2> QED BY <1>1, <1>5, <1>6, <1>7, <1>8, <2>1, <2>2, MapKept DEF registry
<1>9. CASE Found # NULL
  <2>1. Forget(k)
    BY <1>2, <1>9 DEF Start
  <2> QED BY <1>1, <1>5, <1>6, <1>7, <1>9, <2>1, ForgetKeeps
<1> QED BY <1>8, <1>9

-----------------------------------------------------------------------------
(* Runs.                                                                   *)

\* One run moves on; an entry keeps its key and its standing.
LEMMA RunKeeps ==
    ASSUME LInv, SurroundingsTyped', UNCHANGED <<sessions, marks>>,
           NEW r \in Runs, NEW row \in Run, run' = [run EXCEPT ![r] = row],
           row.phase \in {"idle", "over"} \/ row.key \in Connections,
           r \in ToSet(sessions) => row.key = run[r].key /\ Standing(r)'
    PROVE  LInv'
<1>1. /\ run' \in [Runs -> Run] /\ run'[r] = row
      /\ \A t \in Runs : t # r => run'[t] = run[t]
  BY DEF LInv
<1>2. Keyed'
  BY <1>1 DEF LInv, Keyed
<1>3. \A t \in ToSet(sessions) : run'[t].key = run[t].key /\ Standing(t)'
  <2> SUFFICES ASSUME NEW t \in ToSet(sessions), t # r
               PROVE  run'[t].key = run[t].key /\ Standing(t)'
    BY <1>1
  <2>1. run'[t] = run[t] /\ Standing(t)
    BY <1>1, EntrySays
  <2> QED BY <2>1 DEF Standing
<1>4. /\ marks' \in [MarkNames -> SUBSET Connections]
      /\ \A n \in MarkNames : \A l \in marks'[n] : Entry(l) # {}
  BY DEF LInv, MarksOwned, Entry
<1> QED BY <1>1, <1>2, <1>3, <1>4, MapKept

LEMMA OverSays ==
    Over \in Run /\ Over.phase = "over"
BY DEF Over, NotBegun, Run, Phases

LEMMA PreparationsKeep ==
    ASSUME LInv, NEW r \in Runs, RegisterStartup(r) \/ PrepareFails(r)
    PROVE  LInv'
<1>1. SurroundingsTyped' /\ UNCHANGED <<sessions, marks>>
  BY DEF RegisterStartup, PrepareFails, registry, LInv, SurroundingsTyped
<1>2. run[r] \in Run /\ run[r].phase \in {"routed", "preparing"} /\ run[r].key \in Connections
  BY DEF RegisterStartup, PrepareFails, LInv, Keyed
<1>3. r \notin ToSet(sessions)
  BY <1>2, EntrySays DEF Standing, Entered
<1>4. CASE RegisterStartup(r)
  <2> DEFINE row == [run[r] EXCEPT !.phase = "preparing"]
  <2>1. row \in Run /\ row.key = run[r].key
    BY <1>2 DEF Run, Phases
  <2>2. run' = [run EXCEPT ![r] = row]
    BY <1>4 DEF RegisterStartup
  <2> HIDE DEF row
  <2> QED BY <1>1, <1>2, <1>3, <2>1, <2>2, RunKeeps
<1>5. CASE PrepareFails(r)
  BY <1>1, <1>3, <1>5, OverSays, RunKeeps DEF PrepareFails
<1> QED BY <1>4, <1>5

\* A preparation that was not stopped becomes the entry of its key.
LEMMA RegisterKeeps ==
    ASSUME LInv, NEW r \in Runs, Register(r)
    PROVE  LInv'
<1>1. SurroundingsTyped'
  BY DEF Register, LInv, SurroundingsTyped, States
<1>2. /\ run[r] \in Run /\ run[r].phase = "preparing" /\ run[r].key \in Connections
      /\ ~run[r].aborted
  BY DEF Register, LInv, Keyed
<1>3. r \notin ToSet(sessions)
  BY <1>2, EntrySays DEF Standing, Entered
<1>4. /\ sessions' \in Seq(Runs) /\ Distinct(sessions')
      /\ ToSet(sessions') = {t \in ToSet(sessions) : Key(t) # Key(r)} \cup {r}
  BY <1>3, RegisteredSays DEF Register, LInv
<1>5. /\ run' \in [Runs -> Run] /\ run'[r].phase = "created"
      /\ run'[r].key = run[r].key /\ run'[r].aborted = run[r].aborted
      /\ \A t \in Runs : t # r => run'[t] = run[t]
  BY <1>2 DEF Register, LInv, Run, Phases
<1>6. Keyed'
  BY <1>2, <1>5 DEF LInv, Keyed
<1>7. \A t \in ToSet(sessions) : t \in Runs /\ t # r /\ run'[t] = run[t] /\ Standing(t)
  BY <1>3, <1>5, EntrySays
<1>8. \A t \in ToSet(sessions') : Standing(t)'
  <2>1. Standing(r)'
    BY <1>2, <1>5 DEF Standing, Entered
  <2>2. \A t \in ToSet(sessions) : Standing(t)'
    BY <1>7 DEF Standing
  <2> QED BY <1>4, <2>1, <2>2
<1>9. \A s, t \in ToSet(sessions') : run'[s].key = run'[t].key => s = t
  BY <1>4, <1>5, <1>7 DEF LInv, EntriesUnique, Key
<1>10. EntriesUnique'
  BY <1>4, <1>9 DEF EntriesUnique, Key, Distinct
<1>11. MarksOwned'
  <2>1. PICK k \in Connections : k = Key(r)
    BY <1>2 DEF Key
  <2>2. marks \in [MarkNames -> SUBSET Connections]
    BY DEF LInv, MarksOwned
  <2>3. MarksOf(marks, marks', k)
    BY <2>1, <2>2, HandlersMark DEF Register
  <2>4. ASSUME NEW n \in MarkNames, NEW l \in marks'[n]
        PROVE  \E t \in ToSet(sessions') : run'[t].key = l
    <3>1. CASE l = k
      BY <1>4, <1>5, <2>1, <3>1 DEF Key
    <3>2. CASE l # k
      <4>1. l \in marks[n]
        BY <2>3, <3>2 DEF MarksOf
      <4>2. PICK t \in ToSet(sessions) : Key(t) = l
        BY <4>1 DEF LInv, MarksOwned
      <4> QED BY <1>4, <1>7, <2>1, <3>2, <4>2 DEF Key
    <3> QED BY <3>1, <3>2
  <2> QED BY <2>3, <2>4 DEF MarksOwned, MarksOf, Key
<1> QED BY <1>1, <1>5, <1>6, <1>8, <1>10, <1>11 DEF LInv

\* A step of the loop of one run, other than its last: the entry it may be stays.
LEMMA LoopsKeep ==
    ASSUME LInv, NEW r \in Runs, StartQuery(r) \/ Receive(r) \/ StreamEnds(r)
    PROVE  LInv'
<1>1. SurroundingsTyped' /\ UNCHANGED <<sessions, marks>>
  BY DEF StartQuery, Receive, StreamEnds, registry, LInv, SurroundingsTyped, States
<1>2. PICK old \in Run : old = run[r] /\ old.phase \in Entered /\ old.key \in Connections
  BY DEF StartQuery, Receive, StreamEnds, LInv, Keyed, Entered
<1>3. r \in ToSet(sessions) =>
          /\ old.aborted => old.phase = "unwinding"
          /\ old.phase # "created" => old.owned = r
  BY <1>2, EntrySays DEF Standing
<1>4. ASSUME NEW row \in Run, run' = [run EXCEPT ![r] = row], row.key = old.key,
             r \in ToSet(sessions) => /\ row.phase \in Entered \ {"created"}
                                      /\ row.aborted => row.phase = "unwinding"
                                      /\ row.owned = r
      PROVE  LInv'
  <2>1. run'[r] = row
    BY <1>4 DEF LInv
  <2>2. r \in ToSet(sessions) => row.key = run[r].key /\ Standing(r)'
    BY <1>2, <1>4, <2>1 DEF Standing
  <2> QED BY <1>1, <1>2, <1>4, <2>2, RunKeeps
<1>5. CASE StartQuery(r)
  <2> DEFINE owner == IF Entry(Key(r)) = {} THEN NULL ELSE CHOOSE s \in Entry(Key(r)) : TRUE
             row == [old EXCEPT !.phase = "starting", !.owned = owner]
  <2>1. owner \in Runs \cup {NULL}
    BY EntrySays DEF Entry
  <2>2. r \in ToSet(sessions) => owner = r
    <3> SUFFICES ASSUME r \in ToSet(sessions) PROVE owner = r
      OBVIOUS
    <3>1. r \in Entry(Key(r))
      BY EntrySays
    <3>2. \A s \in Entry(Key(r)) : s = r
      BY <3>1 DEF Entry, LInv, EntriesUnique
    <3> QED BY <3>1, <3>2
  <2>3. run' = [run EXCEPT ![r] = row]
    BY <1>2, <1>5 DEF StartQuery
  <2> HIDE DEF owner
  <2>4. /\ row \in Run /\ row.phase = "starting" /\ row.key = old.key
        /\ row.aborted = old.aborted /\ row.owned = owner
    BY <2>1 DEF Run, Phases
  <2>5. old.phase = "created"
    BY <1>2, <1>5 DEF StartQuery
  <2> HIDE DEF row
  <2> QED BY <1>3, <1>4, <2>2, <2>3, <2>4, <2>5 DEF Entered
<1>6. CASE Receive(r)
  <2>1. old.phase \in {"starting", "active"}
    BY <1>2, <1>6 DEF Receive
  <2>2. CASE run' = [run EXCEPT ![r].phase = "active", ![r].resolved = TRUE]
    <3> DEFINE row == [old EXCEPT !.phase = "active", !.resolved = TRUE]
    <3>1. run' = [run EXCEPT ![r] = row]
      BY <1>2, <2>2
    <3>2. /\ row \in Run /\ row.phase = "active" /\ row.key = old.key
          /\ row.aborted = old.aborted /\ row.owned = old.owned
      BY DEF Run, Phases
    <3> HIDE DEF row
    <3> QED BY <1>3, <1>4, <2>1, <3>1, <3>2 DEF Entered
  <2>3. CASE run' = [run EXCEPT ![r].phase = "unwinding"]
    <3> DEFINE row == [old EXCEPT !.phase = "unwinding"]
    <3>1. run' = [run EXCEPT ![r] = row]
      BY <1>2, <2>3
    <3>2. /\ row \in Run /\ row.phase = "unwinding" /\ row.key = old.key
          /\ row.owned = old.owned
      BY DEF Run, Phases
    <3> HIDE DEF row
    <3> QED BY <1>3, <1>4, <2>1, <3>1, <3>2 DEF Entered
  <2> QED BY <1>6, <2>2, <2>3 DEF Receive
<1>7. CASE StreamEnds(r)
  <2>1. old.phase \in {"starting", "active"}
    BY <1>2, <1>7 DEF StreamEnds
  <2>2. PICK late \in BOOLEAN :
            run' = [run EXCEPT ![r].phase = "unwinding", ![r].aborted = @ \/ late]
    BY <1>7 DEF StreamEnds
  <2>3. PICK aborted \in BOOLEAN : aborted = (old.aborted \/ late)
    OBVIOUS
  <2> DEFINE row == [old EXCEPT !.phase = "unwinding", !.aborted = aborted]
  <2>4. run' = [run EXCEPT ![r] = row]
    BY <1>2, <2>2, <2>3
  <2>5. /\ row \in Run /\ row.phase = "unwinding" /\ row.key = old.key
        /\ row.owned = old.owned
    BY DEF Run, Phases
  <2> HIDE DEF row
  <2> QED BY <1>3, <1>4, <2>1, <2>4, <2>5 DEF Entered
<1> QED BY <1>5, <1>6, <1>7

\* A run is over, and with it what is registered under its key, or it is no entry.
LEMMA EndsKeep ==
    ASSUME LInv, NEW r \in Runs, StartFails(r) \/ Unwind(r)
    PROVE  LInv'
<1>1. SurroundingsTyped'
  BY DEF StartFails, Unwind, LInv, SurroundingsTyped, States
<1>2. PICK k : k = Key(r)
  OBVIOUS
<1>3. ASSUME NEW b \in [Runs -> Run], run' = [b EXCEPT ![r] = Over], Forget(k),
             \A t \in Runs : b[t].phase = run[t].phase /\ b[t].key = run[t].key,
             \A t \in ToSet(sessions) : Key(t) # k => b[t] = run[t]
      PROVE  LInv'
  <2>1. /\ run' \in [Runs -> Run] /\ run'[r].phase = "over"
        /\ \A t \in Runs : t # r => run'[t] = b[t]
    BY <1>3, OverSays
  <2>2. Keyed'
    BY <1>3, <2>1 DEF LInv, Keyed
  <2>3. \A t \in ToSet(sessions) : Key(t) # k => run'[t].key = run[t].key /\ Standing(t)'
    <3> SUFFICES ASSUME NEW t \in ToSet(sessions), Key(t) # k
                 PROVE  run'[t].key = run[t].key /\ Standing(t)'
      OBVIOUS
    <3>1. t \in Runs /\ Standing(t) /\ t # r
      BY <1>2, EntrySays
    <3>2. run'[t] = run[t]
      BY <1>3, <2>1, <3>1
    <3> QED BY <3>1, <3>2 DEF Standing
  <2> QED BY <1>1, <1>3, <2>1, <2>2, <2>3, ForgetKeeps
<1>4. ASSUME r \notin ToSet(sessions), run' = [run EXCEPT ![r] = Over], UNCHANGED registry
      PROVE  LInv'
  <2>1. UNCHANGED <<sessions, marks>>
    BY <1>4 DEF registry
  <2> QED BY <1>1, <1>4, <2>1, OverSays, RunKeeps
<1>5. CASE StartFails(r)
  <2>1. CASE run' = [Aborting(Victims(k)) EXCEPT ![r] = Over] /\ Forget(k)
    <3>1. PICK b : b = Aborting(Victims(k))
      OBVIOUS
    <3>2. run' = [b EXCEPT ![r] = Over] /\ Forget(k)
      BY <2>1, <3>1
    <3>3. /\ Victims(k) \in SUBSET Runs
          /\ \A t \in ToSet(sessions) : t \in Runs /\ (Key(t) # k => t \notin Victims(k))
      BY VictimsSay, EntrySays
    <3>4. /\ b \in [Runs -> Run]
          /\ \A t \in Runs : /\ b[t].phase = run[t].phase /\ b[t].key = run[t].key
                             /\ t \notin Victims(k) => b[t] = run[t]
      BY <3>1, <3>3, AbortingSays
    <3>5. \A t \in ToSet(sessions) : Key(t) # k => b[t] = run[t]
      BY <3>3, <3>4
    <3> QED BY <1>3, <3>2, <3>4, <3>5
  <2>2. CASE /\ r \notin Entry(Key(r))
             /\ run' = [run EXCEPT ![r] = Over] /\ UNCHANGED registry
    <3>1. r \notin ToSet(sessions)
      BY <2>2, EntrySays
    <3> QED BY <1>4, <2>2, <3>1
  <2> QED BY <1>2, <1>5, <2>1, <2>2 DEF StartFails
<1>6. CASE Unwind(r)
  <2>1. run[r].phase = "unwinding" /\ run' = [run EXCEPT ![r] = Over]
    BY <1>6 DEF Unwind
  <2>2. CASE Forget(Key(r))
    <3>1. run \in [Runs -> Run]
      BY DEF LInv
    <3> QED BY <1>2, <1>3, <2>1, <2>2, <3>1
  <2>3. CASE ~IsCurrent(r) /\ UNCHANGED registry
    <3>1. r \notin ToSet(sessions)
      BY <2>1, <2>3, EntrySays DEF Standing, IsCurrent
    <3> QED BY <1>4, <2>1, <2>3, <3>1
  <2> QED BY <1>6, <2>2, <2>3 DEF Unwind
<1> QED BY <1>5, <1>6

-----------------------------------------------------------------------------
(* Timers.                                                                 *)

LEMMA TimersKeep ==
    ASSUME LInv, NEW k \in Connections, Fires(k)
    PROVE  LInv'
<1>1. marks \in [MarkNames -> SUBSET Connections] /\ SurroundingsTyped
  BY DEF LInv, MarksOwned
<1>2. SurroundingsTyped'
  BY <1>1 DEF Fires, DetachFires, CloseoutFires, SuspendFires, CloseFires, SurroundingsTyped,
              States
<1>3. \A n \in MarkNames : k \in marks[n] => Entry(k) # {}
  BY DEF LInv, MarksOwned, Entry
<1>4. /\ "detachTimers" \in MarkNames /\ "closeoutTimers" \in MarkNames
      /\ "suspendTimers" \in MarkNames
  BY DEF MarkNames, Timers
<1>5. CASE DetachFires(k)
  <2>1. Entry(k) # {} /\ UNCHANGED <<run, sessions>>
    BY <1>3, <1>4, <1>5 DEF DetachFires
  <2>2. \/ marks' = With(Without(marks, {"detachTimers"}, k), {"closeoutTimers"}, k)
        \/ marks' = Without(marks, {"detachTimers"}, k)
    BY <1>5 DEF DetachFires
  <2>3. MarksOf(marks, marks', k)
    BY <1>1, <2>2, HandlersMark
  <2> QED BY <1>2, <2>1, <2>3, MarkingKeeps
<1>6. CASE CloseoutFires(k)
  <2>1. CASE Abort(k)
    BY <1>2, <2>1, AbortKeeps
  <2>2. CASE marks' = Without(marks, {"closeoutTimers"}, k) /\ UNCHANGED <<run, sessions>>
    <3>1. Entry(k) # {}
      BY <1>3, <1>4, <1>6 DEF CloseoutFires
    <3>2. MarksOf(marks, marks', k)
      BY <1>1, <2>2, HandlersMark
    <3> QED BY <1>2, <2>2, <3>1, <3>2, MarkingKeeps
  <2> QED BY <1>6, <2>1, <2>2 DEF CloseoutFires
<1>7. CASE SuspendFires(k)
  <2>1. Entry(k) # {} /\ UNCHANGED <<run, sessions>>
    BY <1>3, <1>4, <1>7 DEF SuspendFires
  <2>2. MarksOf(marks, marks', k)
    BY <1>1, <1>7, HandlersMark DEF SuspendFires
  <2> QED BY <1>2, <2>1, <2>2, MarkingKeeps
<1>8. CASE CloseFires(k)
  <2>1. CASE Abort(k)
    BY <1>2, <2>1, AbortKeeps
  <2>2. CASE UNCHANGED <<run, registry>>
    BY <1>2, <2>2, UntouchedKeeps DEF registry
  <2> QED BY <1>8, <2>1, <2>2 DEF CloseFires
<1> QED BY <1>5, <1>6, <1>7, <1>8 DEF Fires

-----------------------------------------------------------------------------
(* The theorems.                                                           *)

LEMMA LifetimeStarts ==
    Init => LInv
<1> SUFFICES ASSUME Init PROVE LInv
  OBVIOUS
<1>1. SurroundingsTyped
  BY LifetimeAssumption DEF Init, SurroundingsTyped, States
<1>2. run \in [Runs -> Run] /\ Keyed
  BY DEF Init, NotBegun, Run, Phases, Keyed
<1>3. sessions = <<>> /\ ToSet(sessions) = {}
  BY DEF Init, ToSet
<1>4. EntriesUnique
  BY <1>3 DEF EntriesUnique, Distinct
<1>5. MarksOwned
  BY DEF Init, MarksOwned
<1> QED BY <1>1, <1>2, <1>3, <1>4, <1>5 DEF LInv

LEMMA LifetimeStep ==
    LInv /\ [Next]_vars => LInv'
<1> SUFFICES ASSUME LInv, [Next]_vars PROVE LInv'
  OBVIOUS
<1>1. CASE UNCHANGED vars
  <2>1. UNCHANGED <<run, sessions, marks>> /\ SurroundingsTyped'
    BY <1>1 DEF vars, registry, LInv, SurroundingsTyped
  <2> QED BY <2>1, UntouchedKeeps
<1>2. ASSUME NEW c \in Connections,
             \/ Disconnect(c) \/ Unwatch(c)
             \/ Switch(c) \/ Reconnect(c) \/ Suspend(c)
             \/ Join(c) \/ Start(c) \/ Stop(c) \/ Close(c)
             \/ Fires(c)
      PROVE  LInv'
  BY <1>2, ConnectionsKeep, StartKeeps, StopKeeps, CloseKeeps, TimersKeep
<1>3. ASSUME NEW r \in Runs,
             \/ RegisterStartup(r) \/ Register(r) \/ PrepareFails(r)
             \/ StartQuery(r) \/ StartFails(r)
             \/ Receive(r) \/ StreamEnds(r) \/ Unwind(r)
      PROVE  LInv'
  BY <1>3, PreparationsKeep, RegisterKeeps, LoopsKeep, EndsKeep
<1> QED BY <1>1, <1>2, <1>3 DEF Next

\* The inductive invariant holds in every state of every behaviour.
THEOREM LifetimeInvariance == LifetimeSpec => []LInv
<1> QED BY LifetimeStarts, LifetimeStep, PTL DEF LifetimeSpec

\* Whatever is routed, started, detached or closed, in any order, a registered run is
\* one that has begun and is not over.
THEOREM LifetimeTypes == LifetimeSpec => []SessionTypeOK
<1>1. LInv => SessionTypeOK
  BY InvariantImplies
<1> QED BY <1>1, LifetimeInvariance, PTL

\* For any number of connections and runs: marks and timers of a key are those of
\* the entry it has now, a key has one entry, and a registered run can be stopped
\* until its loop unwinds.
THEOREM KeysStayOwned == LifetimeSpec => []KeysOwned
<1>1. LInv => KeysOwned
  BY InvariantImplies
<1> QED BY <1>1, LifetimeInvariance, PTL
=============================================================================
