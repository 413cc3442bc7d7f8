-------------------------- MODULE ScanFunnelProofs --------------------------
(***************************************************************************)
(* What holds of the event log, the reports, the clusters and the verdicts *)
(* of replays for any number of files, scans, replays, processes, edits,   *)
(* lost rows and kills.                                                    *)
(***************************************************************************)
EXTENDS ScanFunnel, SequenceTheorems, WellFoundedInduction, TLAPS

(* A sequence, of whatever it is made.                                     *)
IsList(s) == s \in Seq({s[i] : i \in DOMAIN s})

(* No row says that the scan has ended.                                    *)
Open(rows) == Indices(rows, {"ScanCompleted"}) = {}

(* The invariant.  A command line scan has an id no other scan at work     *)
(* has, and neither its history nor that of a scan that is still to come   *)
(* says it has ended.                                                      *)
JobOK(j) ==
    /\ DOMAIN j = DOMAIN Idle
    /\ j.kind \in {"none", "cli", "watch", "replay"}
    /\ j.kind = "none" => j.pc = "idle"
    /\ j.kind = "cli" => j.id \in 1..jobs

Typed ==
    /\ jobs \in 0..MaxJobs
    /\ DOMAIN job = Process /\ \A s \in Process : JobOK(job[s])
    /\ DOMAIN log = ScanId /\ \A id \in ScanId : IsList(log[id])

OwnHistory ==
    /\ \A s \in Process : job[s].kind = "cli" => Open(log[job[s].id])
    /\ \A s, t \in Process :
          job[s].kind = "cli" /\ job[t].kind = "cli" /\ job[s].id = job[t].id => s = t
    /\ \A id \in ScanId : id > jobs => Open(log[id])

(* The lists of clusters that are loaded, classified and saved.            *)
StoreOK(store) ==
    /\ IsList(store)
    /\ \A i \in DOMAIN store :
          /\ DOMAIN store[i] = {"canonical", "sig", "members"}
          /\ IsList(store[i].members) /\ store[i].members # <<>>
    /\ IsPartition(store)

Stores == StoreOK(clusters) /\ \A s \in Process : StoreOK(job[s].store)

SInv == Typed /\ OwnHistory /\ Stores
-----------------------------------------------------------------------------
LEMMA ListOf ==
    ASSUME NEW S, NEW s \in Seq(S)
    PROVE  IsList(s)
<1>1. DOMAIN s = 1..Len(s) /\ Len(s) \in Nat
  BY LenProperties
<1>2. s \in [1..Len(s) -> {s[i] : i \in DOMAIN s}]
  BY <1>1, LenProperties
<1> QED BY <1>1, <1>2 DEF IsList

LEMMA ListFacts ==
    ASSUME NEW s, IsList(s)
    PROVE  Len(s) \in Nat /\ DOMAIN s = 1..Len(s)
  BY LenProperties DEF IsList

LEMMA Joined ==
    ASSUME NEW s, NEW t, IsList(s), IsList(t)
    PROVE  /\ IsList(s \o t)
           /\ Open(s) /\ Open(t) => Open(s \o t)
<1> DEFINE S == {s[i] : i \in DOMAIN s}  T == {t[i] : i \in DOMAIN t}
<1>1. s \in Seq(S \cup T) /\ t \in Seq(S \cup T)
  BY SeqMonotonic DEF IsList
<1> HIDE DEF S, T
<1>2. s \o t \in Seq(S \cup T)
  BY <1>1
<1>3. /\ DOMAIN (s \o t) = 1..(Len(s) + Len(t))
      /\ DOMAIN s = 1..Len(s) /\ DOMAIN t = 1..Len(t)
      /\ Len(s) \in Nat /\ Len(t) \in Nat
      /\ \A i \in 1..(Len(s) + Len(t)) :
            (s \o t)[i] = IF i <= Len(s) THEN s[i] ELSE t[i - Len(s)]
  BY <1>1, <1>2, ConcatProperties, LenProperties
<1>4. ASSUME Open(s), Open(t) PROVE Open(s \o t)
  BY <1>3, <1>4 DEF Open, Indices
<1> QED BY <1>2, <1>4, ListOf

(* What is left of rows is a sequence of some of them.                     *)
LEMMA Surviving ==
    ASSUME NEW rows, IsList(rows), NEW lost \in 0..Len(rows), NEW cut \in BOOLEAN
    PROVE  /\ IsList(Survivors(rows, lost, cut))
           /\ Open(rows) => Open(Survivors(rows, lost, cut))
<1> DEFINE first == IF torn THEN 1 ELSE lost
           last == IF cut THEN first + 1 ELSE first
           before == SubSeq(rows, 1, first - 1)
           after == SubSeq(rows, last + 1, Len(rows))
<1>1. /\ Len(rows) \in Nat /\ DOMAIN rows = 1..Len(rows)
      /\ first \in Nat /\ last \in Nat /\ last >= first
      /\ first <= Len(rows) + 1
  BY ListFacts
<1>2. Survivors(rows, lost, cut) = IF first = 0 THEN rows ELSE before \o after
  BY DEF Survivors
<1>3. CASE first = 0
  BY <1>2, <1>3
<1>4. CASE first # 0
  <2> HIDE DEF first, last
  <2>1. \A i \in 1..(first - 1) : i \in DOMAIN rows
    BY <1>1
  <2>2. \A i \in (last + 1)..Len(rows) : i \in DOMAIN rows
    BY <1>1, <1>4
  <2>3. /\ before \in Seq({rows[i] : i \in DOMAIN rows})
        /\ after \in Seq({rows[i] : i \in DOMAIN rows})
    BY <2>1, <2>2, <1>1, SubSeqProperties
  <2>4. IsList(before) /\ IsList(after)
    BY <2>3, ListOf
  <2>5. ASSUME Open(rows) PROVE Open(before) /\ Open(after)
    <3> SUFFICES ASSUME NEW s \in {before, after} PROVE Open(s)
      OBVIOUS
    <3>1. \A i \in DOMAIN s : s[i] \in {rows[j] : j \in DOMAIN rows}
      BY <2>3, LenProperties, ElementOfSeq
    <3> QED BY <3>1, <2>5 DEF Open, Indices
  <2> QED BY <1>2, <1>4, <2>4, <2>5, Joined
<1> QED BY <1>3, <1>4
-----------------------------------------------------------------------------
LEMMA NoClusters == StoreOK(EmptyStore)
<1>1. EmptyStore \in Seq({}) /\ Len(EmptyStore) = 0
  BY EmptySeq DEF EmptyStore
<1>2. DOMAIN EmptyStore = {}
  BY <1>1, LenProperties
<1>3. IsList(EmptyStore)
  BY <1>1, ListOf
<1> QED BY <1>2, <1>3 DEF StoreOK, IsPartition

LEMMA AppendFacts ==
    ASSUME NEW s, NEW e, IsList(s)
    PROVE  /\ IsList(Append(s, e)) /\ Append(s, e) # <<>>
           /\ Len(s) \in Nat /\ DOMAIN s = 1..Len(s)
           /\ DOMAIN Append(s, e) = 1..(Len(s) + 1)
           /\ \A i \in 1..Len(s) : Append(s, e)[i] = s[i]
           /\ Append(s, e)[Len(s) + 1] = e
<1> DEFINE S == {s[i] : i \in DOMAIN s} \cup {e}
<1>1. s \in Seq(S) /\ e \in S
  BY SeqMonotonic DEF IsList
<1> HIDE DEF S
<1>2. /\ Append(s, e) \in Seq(S) /\ Append(s, e) # <<>>
      /\ Len(Append(s, e)) = Len(s) + 1
      /\ \A i \in 1..Len(s) : Append(s, e)[i] = s[i]
      /\ Append(s, e)[Len(s) + 1] = e
  BY <1>1, AppendProperties
<1> QED BY <1>1, <1>2, ListOf, LenProperties

Holds(store, id) ==
    \E i \in DOMAIN store : \E k \in DOMAIN store[i].members : store[i].members[k] = id

(* The index finds a finding some cluster holds: no other cluster does.    *)
LEMMA NotHeld ==
    ASSUME NEW store, NEW id, FindByFingerprint(store, id) = {}, StoreOK(store)
    PROVE  ~Holds(store, id)
<1>1. SUFFICES ASSUME Holds(store, id) PROVE FALSE
  OBVIOUS
<1>2. PICK i \in DOMAIN store : \E k \in DOMAIN store[i].members : store[i].members[k] = id
  BY <1>1 DEF Holds
<1>3. \A j \in DOMAIN store :
         (\E k \in DOMAIN store[j].members : store[j].members[k] = id) => j = i
  BY <1>2 DEF StoreOK, IsPartition
<1>4. i <= i
  BY <1>2, ListFacts DEF StoreOK
<1> QED BY <1>2, <1>3, <1>4 DEF FindByFingerprint

LEMMA RegisterKeeps ==
    ASSUME NEW store, NEW f, StoreOK(store), ~Holds(store, f.id)
    PROVE  StoreOK(RegisterNewCluster(store, f))
<1> DEFINE new == [canonical |-> f.id, sig |-> f.sig, members |-> <<f.id>>]
           out == Append(store, new)
<1>1. /\ new.canonical = f.id /\ new.members = <<f.id>>
      /\ DOMAIN new = {"canonical", "sig", "members"}
      /\ new.members # <<>> /\ DOMAIN new.members = {1} /\ new.members[1] = f.id
  OBVIOUS
<1>2. IsList(new.members)
  <2>1. <<f.id>> \in Seq({f.id})
    OBVIOUS
  <2> QED BY <2>1, <1>1, ListOf
<1> HIDE DEF new
<1>3. /\ IsList(out) /\ Len(store) \in Nat /\ DOMAIN store = 1..Len(store)
      /\ DOMAIN out = 1..(Len(store) + 1)
      /\ \A i \in 1..Len(store) : out[i] = store[i]
      /\ out[Len(store) + 1] = new
  BY AppendFacts DEF StoreOK
<1> HIDE DEF out
<1>4. \A i \in DOMAIN out : \/ i \in DOMAIN store /\ out[i] = store[i]
                            \/ i = Len(store) + 1 /\ i \notin DOMAIN store /\ out[i] = new
  BY <1>3
<1>5. ASSUME NEW i \in DOMAIN out
      PROVE  /\ DOMAIN out[i] = {"canonical", "sig", "members"}
             /\ IsList(out[i].members) /\ out[i].members # <<>>
             /\ out[i].canonical = out[i].members[1]
  BY <1>1, <1>2, <1>4 DEF StoreOK, IsPartition
<1>6. ASSUME NEW i \in DOMAIN out, NEW j \in DOMAIN out,
             NEW k \in DOMAIN out[i].members, NEW l \in DOMAIN out[j].members,
             out[i].members[k] = out[j].members[l]
      PROVE  i = j /\ k = l
  <2>1. CASE i \in DOMAIN store /\ j \in DOMAIN store
    BY <1>4, <1>6, <2>1 DEF StoreOK, IsPartition
  <2>2. CASE i \notin DOMAIN store /\ j \notin DOMAIN store
    BY <1>1, <1>4, <2>2
  <2>3. CASE i \in DOMAIN store /\ j \notin DOMAIN store
    BY <1>1, <1>4, <1>6, <2>3 DEF Holds
  <2>4. CASE i \notin DOMAIN store /\ j \in DOMAIN store
    BY <1>1, <1>4, <1>6, <2>4 DEF Holds
  <2> QED BY <2>1, <2>2, <2>3, <2>4
<1>7. StoreOK(out)
  BY <1>3, <1>5, <1>6 DEF StoreOK, IsPartition
<1> QED BY <1>7 DEF RegisterNewCluster, out, new

LEMMA JoinKeeps ==
    ASSUME NEW store, NEW f, NEW c \in DOMAIN store, StoreOK(store), ~Holds(store, f.id)
    PROVE  StoreOK(UpdateOnMatch(store, c, f))
<1> DEFINE old == store[c].members
           new == [store[c] EXCEPT !.members = Append(@, f.id)]
           out == [store EXCEPT ![c] = new]
<1>1. IsList(old) /\ old # <<>> /\ DOMAIN store[c] = {"canonical", "sig", "members"}
  BY DEF StoreOK
<1>2. /\ new.canonical = store[c].canonical /\ new.members = Append(old, f.id)
      /\ DOMAIN new = {"canonical", "sig", "members"}
  BY <1>1
<1>3. /\ IsList(new.members) /\ new.members # <<>>
      /\ Len(old) \in Nat /\ DOMAIN old = 1..Len(old)
      /\ DOMAIN new.members = 1..(Len(old) + 1)
      /\ \A k \in 1..Len(old) : new.members[k] = old[k]
      /\ new.members[Len(old) + 1] = f.id
  BY <1>1, <1>2, AppendFacts
<1>4. 1 \in DOMAIN old
  BY <1>1, <1>3, EmptySeq DEF IsList
<1> HIDE DEF new
<1>5. DOMAIN out = DOMAIN store /\ out[c] = new /\ \A i \in DOMAIN store : i # c => out[i] = store[i]
  OBVIOUS
<1>6. IsList(out)
  <2> DEFINE S == {store[i] : i \in DOMAIN store} \cup {new}
  <2>1. store \in Seq(S) /\ new \in S
    BY SeqMonotonic DEF StoreOK, IsList
  <2> HIDE DEF S
  <2>2. out \in Seq(S)
    BY <2>1, ExceptSeq, LenProperties
  <2> QED BY <2>2, ListOf
<1> HIDE DEF out
<1>7. ASSUME NEW i \in DOMAIN out
      PROVE  /\ DOMAIN out[i] = {"canonical", "sig", "members"}
             /\ IsList(out[i].members) /\ out[i].members # <<>>
             /\ out[i].canonical = out[i].members[1]
  <2>1. CASE i = c
    <3>1. new.members[1] = old[1] /\ store[c].canonical = old[1]
      BY <1>3, <1>4 DEF StoreOK, IsPartition
    <3> QED BY <1>2, <1>3, <1>5, <2>1, <3>1
  <2>2. CASE i # c
    BY <1>5, <2>2 DEF StoreOK, IsPartition
  <2> QED BY <2>1, <2>2
<1>8. \A i \in DOMAIN out : \A k \in DOMAIN out[i].members :
         \/ k \in DOMAIN store[i].members /\ out[i].members[k] = store[i].members[k]
         \/ i = c /\ k = Len(old) + 1 /\ out[i].members[k] = f.id
  BY <1>3, <1>5 DEF old
<1>9. ASSUME NEW i \in DOMAIN out, NEW j \in DOMAIN out,
             NEW k \in DOMAIN out[i].members, NEW l \in DOMAIN out[j].members,
             out[i].members[k] = out[j].members[l]
      PROVE  i = j /\ k = l
  BY <1>5, <1>8, <1>9 DEF StoreOK, IsPartition, Holds
<1>10. StoreOK(out)
  BY <1>6, <1>7, <1>9 DEF StoreOK, IsPartition
<1> QED BY <1>10 DEF UpdateOnMatch, out, new

(* A finding that no cluster holds opens one or joins one, at its end.     *)
LEMMA ClassifyKeeps ==
    ASSUME NEW store, NEW f, StoreOK(store)
    PROVE  StoreOK(Classify(store, f))
<1> DEFINE similar == FindBySimhash(store, f.sig)
<1>1. CASE FindByFingerprint(store, f.id) # {}
  BY <1>1 DEF Classify
<1>2. CASE FindByFingerprint(store, f.id) = {}
  <2>1. ~Holds(store, f.id)
    BY <1>2, NotHeld
  <2>2. CASE similar = {}
    BY <1>2, <2>1, <2>2, RegisterKeeps DEF Classify
  <2>3. CASE similar # {}
    <3>1. similar \subseteq DOMAIN store
      BY DEF FindBySimhash
    <3>2. (CHOOSE i \in similar : TRUE) \in DOMAIN store
      BY <2>3, <3>1
    <3> QED BY <1>2, <2>1, <2>3, <3>2, JoinKeeps DEF Classify
  <2> QED BY <2>2, <2>3
<1> QED BY <1>1, <1>2
-----------------------------------------------------------------------------
(* What a step makes of the job of s: nothing is left of it, or it goes on *)
(* with a store that is its own, the saved one, or one finding richer.     *)
StoreFrom(store, own) ==
    store \in {own, clusters, EmptyStore} \/ \E f : store = Classify(own, f)

GoesOn(s, n) ==
    /\ DOMAIN n = DOMAIN Idle /\ StoreFrom(n.store, job[s].store)
    /\ n.kind = job[s].kind /\ n.id = job[s].id
    /\ n.kind = "none" => n.pc = "idle"

(* Only a command line scan adds to the log, and to its own history; the   *)
(* row that ends it is its last.                                           *)
Writes(s, n) ==
    \/ log' = log
    \/ /\ job[s].kind = "cli"
       /\ \E rows : /\ IsList(rows) /\ (Open(rows) \/ n = Idle)
                    /\ log' = [log EXCEPT ![job[s].id] = @ \o rows]

Moves(s, n) ==
    /\ Go(s, n) /\ (n = Idle \/ GoesOn(s, n)) /\ Writes(s, n)
    /\ clusters' \in {clusters, job[s].store} /\ jobs' = jobs

Begins(s, n) ==
    /\ Go(s, n) /\ JobOK(n)' /\ StoreFrom(n.store, job[s].store)
    /\ n.kind = "cli" => n.id = jobs'
    /\ jobs' = jobs + 1 /\ jobs < MaxJobs
    /\ UNCHANGED <<log, clusters>>

LEMMA IdleFacts ==
    /\ JobOK(Idle) /\ Idle.kind = "none" /\ Idle.store = EmptyStore /\ Idle.pc = "idle"
  BY DEF Idle, JobOK

LEMMA CliJob ==
    ASSUME SInv, NEW s \in Process, job[s].kind = "cli"
    PROVE  /\ job[s].id \in 1..jobs /\ job[s].id \in ScanId
           /\ IsList(log[job[s].id]) /\ Open(log[job[s].id])
<1>1. job[s].id \in 1..jobs /\ jobs \in 0..MaxJobs /\ MaxJobs \in Nat
  BY ScanFunnelAssumption DEF SInv, Typed, JobOK
<1>2. job[s].id \in ScanId
  BY <1>1 DEF ScanId
<1> QED BY <1>1, <1>2 DEF SInv, Typed, OwnHistory

LEMMA StoresKept ==
    ASSUME SInv, NEW store, NEW s \in Process, StoreFrom(store, job[s].store)
    PROVE  StoreOK(store)
  BY NoClusters, ClassifyKeeps DEF SInv, Stores, StoreFrom

(* The inductive step, once for all steps of one kind.                     *)
LEMMA MovesKeep ==
    ASSUME SInv, NEW s \in Process, NEW n, Moves(s, n)
    PROVE  SInv'
<1>1. /\ DOMAIN job' = Process /\ job'[s] = n
      /\ \A t \in Process : t # s => job'[t] = job[t]
  BY DEF SInv, Typed, Moves, Go
<1>2. JobOK(n)' /\ jobs' = jobs /\ jobs \in 0..MaxJobs
  BY IdleFacts DEF SInv, Typed, Moves, GoesOn, JobOK
<1>3. n.kind = "cli" => job[s].kind = "cli" /\ n.id = job[s].id
  BY IdleFacts DEF Moves, GoesOn
<1>4. Stores'
  <2>1. StoreOK(n.store)
    BY StoresKept, NoClusters, IdleFacts DEF Moves, GoesOn
  <2>2. StoreOK(clusters')
    BY DEF SInv, Stores, Moves
  <2> QED BY <1>1, <2>1, <2>2 DEF SInv, Stores
<1>5. /\ DOMAIN log' = ScanId /\ \A id \in ScanId : IsList(log'[id])
      /\ \A id \in ScanId : \/ log'[id] = log[id]
                            \/ /\ job[s].kind = "cli" /\ id = job[s].id
                               /\ Open(log'[id]) \/ n = Idle
  <2>1. CASE log' = log
    BY <2>1 DEF SInv, Typed
  <2>2. CASE job[s].kind = "cli" /\ log' # log
    <3>1. PICK rows : /\ IsList(rows) /\ (Open(rows) \/ n = Idle)
                      /\ log' = [log EXCEPT ![job[s].id] = @ \o rows]
      BY <2>2 DEF Moves, Writes
    <3>2. job[s].id \in ScanId /\ IsList(log[job[s].id]) /\ Open(log[job[s].id])
      BY <2>2, CliJob
    <3>3. /\ IsList(log[job[s].id] \o rows)
          /\ Open(log[job[s].id] \o rows) \/ n = Idle
      BY <3>1, <3>2, Joined
    <3> QED BY <2>2, <3>1, <3>2, <3>3 DEF SInv, Typed
  <2> QED BY <2>1, <2>2 DEF Moves, Writes
<1>6. Typed'
  BY <1>1, <1>2, <1>5 DEF SInv, Typed, JobOK
<1>7. OwnHistory'
  <2>1. \A t \in Process : job'[t].kind = "cli" => Open(log'[job'[t].id])
    <3> SUFFICES ASSUME NEW t \in Process, job'[t].kind = "cli" PROVE Open(log'[job'[t].id])
      OBVIOUS
    <3>1. job[t].kind = "cli" /\ job'[t].id = job[t].id /\ (t = s => n # Idle)
      BY <1>1, <1>3, IdleFacts
    <3>2. job[t].id \in ScanId /\ Open(log[job[t].id])
      BY <3>1, CliJob
    <3>3. t # s /\ job[s].kind = "cli" => job[t].id # job[s].id
      BY <3>1 DEF SInv, OwnHistory
    <3> QED BY <1>5, <3>1, <3>2, <3>3
  <2>2. \A t, u \in Process :
           job'[t].kind = "cli" /\ job'[u].kind = "cli" /\ job'[t].id = job'[u].id => t = u
    BY <1>1, <1>3 DEF SInv, OwnHistory
  <2>3. \A id \in ScanId : id > jobs' => Open(log'[id])
    <3> SUFFICES ASSUME NEW id \in ScanId, id > jobs' PROVE Open(log'[id])
      OBVIOUS
    <3>1. job[s].kind = "cli" => job[s].id # id
      BY <1>2 DEF SInv, Typed, JobOK, ScanId
    <3> QED BY <1>2, <1>5, <3>1 DEF SInv, OwnHistory
  <2> QED BY <2>1, <2>2, <2>3 DEF OwnHistory
<1> QED BY <1>4, <1>6, <1>7 DEF SInv

LEMMA BeginsKeep ==
    ASSUME SInv, NEW s \in Process, NEW n, Begins(s, n)
    PROVE  SInv'
<1>1. /\ DOMAIN job' = Process /\ job'[s] = n
      /\ \A t \in Process : t # s => job'[t] = job[t]
  BY DEF SInv, Typed, Begins, Go
<1>2. jobs \in Nat /\ jobs' = jobs + 1 /\ jobs' \in 0..MaxJobs /\ jobs' \in ScanId
  BY ScanFunnelAssumption DEF SInv, Typed, Begins, ScanId
<1>3. Typed'
  BY <1>1, <1>2 DEF SInv, Typed, Begins, JobOK
<1>4. Stores'
  BY <1>1, StoresKept DEF SInv, Stores, Begins
<1>5. OwnHistory'
  <2>1. \A t \in Process : t # s /\ job'[t].kind = "cli" => job'[t].id \in 1..jobs
    BY <1>1 DEF SInv, Typed, JobOK
  <2>2. log' = log /\ (n.kind = "cli" => n.id = jobs + 1)
    BY DEF Begins
  <2>3. Open(log[jobs + 1])
    BY <1>2 DEF SInv, OwnHistory
  <2>4. \A t \in Process : job'[t].kind = "cli" => Open(log'[job'[t].id])
    BY <1>1, <2>2, <2>3 DEF SInv, OwnHistory
  <2>5. \A t, u \in Process :
           job'[t].kind = "cli" /\ job'[u].kind = "cli" /\ job'[t].id = job'[u].id => t = u
    BY <1>1, <1>2, <2>1, <2>2 DEF SInv, OwnHistory
  <2>6. \A id \in ScanId : id > jobs' => Open(log'[id])
    BY <1>2, <2>2 DEF SInv, OwnHistory, ScanId
  <2> QED BY <2>4, <2>5, <2>6 DEF OwnHistory
<1> QED BY <1>3, <1>4, <1>5 DEF SInv
-----------------------------------------------------------------------------
(* A job whose fields are changed by EXCEPT keeps its kind and its id.     *)
LEMMA StepFacts ==
    ASSUME SInv, NEW s \in Process
    PROVE  /\ DOMAIN job[s] = DOMAIN Idle
           /\ job[s].kind \in {"none", "cli", "watch", "replay"}
           /\ job[s].kind = "none" => job[s].pc = "idle"
           /\ DOMAIN Idle = {"pc", "kind", "id", "fresh", "cheap", "paths", "todo", "left",
                             "store", "found", "rows", "verdict", "at", "raised"}
  BY DEF SInv, Typed, JobOK, Idle

LEMMA EmitWrites ==
    ASSUME SInv, NEW s \in Process, NEW n, job[s].kind # "none",
           NEW rows, IsList(rows), Open(rows) \/ n = Idle,
           NEW lost \in 0..Len(rows), NEW cut \in BOOLEAN, Emit(s, rows, lost, cut)
    PROVE  Writes(s, n)
<1>1. CASE job[s].kind = "cli"
  <2>1. log' = [log EXCEPT ![job[s].id] = @ \o Survivors(rows, lost, cut)]
    BY <1>1 DEF Emit, Appended
  <2> QED BY <1>1, <2>1, Surviving DEF Writes
<1>2. CASE job[s].kind \in {"watch", "replay"}
  BY <1>2 DEF Emit, Appended, Writes
<1> QED BY <1>1, <1>2, StepFacts

(* An exception: a dispatch of the watch loop is over, the others go on.   *)
LEMMA RaisedMoves ==
    ASSUME SInv, NEW s \in Process, job[s].kind # "none"
    PROVE  Raised(job[s]) = Idle \/ GoesOn(s, Raised(job[s]))
<1>1. CASE job[s].kind = "cli"
  <2>1. /\ DOMAIN Raised(job[s]) = DOMAIN job[s]
        /\ Raised(job[s]).kind = job[s].kind /\ Raised(job[s]).id = job[s].id
        /\ Raised(job[s]).store = job[s].store
    BY <1>1, StepFacts DEF Raised
  <2> QED BY <1>1, <2>1, StepFacts DEF GoesOn, StoreFrom
<1>2. CASE job[s].kind = "watch"
  BY <1>2 DEF Raised
<1>3. CASE job[s].kind = "replay"
  <2>1. /\ DOMAIN Raised(job[s]) = DOMAIN job[s]
        /\ Raised(job[s]).kind = job[s].kind /\ Raised(job[s]).id = job[s].id
        /\ Raised(job[s]).store = job[s].store
    BY <1>3, StepFacts DEF Raised
  <2> QED BY <1>3, <2>1, StepFacts DEF GoesOn, StoreFrom
<1> QED BY <1>1, <1>2, <1>3, StepFacts

LEMMA Rows ==
    ASSUME NEW f, NEW paths, NEW pol
    PROVE  /\ IsList(<<PacketBuilt(f), Scored(f), Deduped(f)>>)
           /\ Open(<<PacketBuilt(f), Scored(f), Deduped(f)>>)
           /\ Len(<<PacketBuilt(f), Scored(f), Deduped(f)>>) = 3
           /\ IsList(<<Started(paths, pol)>>) /\ Open(<<Started(paths, pol)>>)
           /\ Len(<<Started(paths, pol)>>) = 1
           /\ IsList(<<Reported, Completed("ok")>>) /\ IsList(<<Completed("error")>>)
<1> DEFINE three == <<PacketBuilt(f), Scored(f), Deduped(f)>>
           one == <<Started(paths, pol)>>
<1>1. three \in Seq({PacketBuilt(f), Scored(f), Deduped(f)}) /\ one \in Seq({Started(paths, pol)})
  OBVIOUS
<1>2. /\ <<Reported, Completed("ok")>> \in Seq({Reported, Completed("ok")})
      /\ <<Completed("error")>> \in Seq({Completed("error")})
  OBVIOUS
<1>3. /\ DOMAIN three = 1..3 /\ DOMAIN one = 1..1
      /\ three[1].event = "EvidencePacketBuilt" /\ three[2].event = "PriorityScored"
      /\ three[3].event = "FindingDeduped" /\ one[1].event = "ScanStarted"
  BY DEF PacketBuilt, Scored, Deduped, Started
<1>4. Open(three) /\ Open(one)
  <2> HIDE DEF three, one
  <2> QED BY <1>3 DEF Open, Indices
<1> QED BY <1>1, <1>2, <1>4, ListOf

(* A step that writes no row a replay reads, and goes on to n.             *)
LEMMA QuietMoves ==
    ASSUME SInv, NEW s \in Process, job[s].kind # "none", NEW n, Go(s, n),
           DOMAIN n = DOMAIN job[s], n.kind = job[s].kind, n.id = job[s].id,
           StoreFrom(n.store, job[s].store),
           clusters' \in {clusters, job[s].store}, UNCHANGED <<log, jobs>>
    PROVE  Moves(s, n)
  BY StepFacts DEF Moves, GoesOn, Writes

LEMMA FaultMoves ==
    ASSUME SInv, NEW s \in Process, job[s].kind # "none", Fault(s),
           UNCHANGED <<log, clusters, jobs>>
    PROVE  Moves(s, Raised(job[s]))
  BY RaisedMoves DEF Fault, Moves, Writes

(* A finding of the file is recorded: the one at place i.                  *)
Recorded(s, i) ==
    [job[s] EXCEPT !.left = Rest(@, i), !.found = Append(@, job[s].left[i]),
                   !.store = Classify(@, job[s].left[i])]

RecordOf(s, i) ==
    LET f == job[s].left[i] IN
    /\ i \in DOMAIN job[s].left /\ Go(s, Recorded(s, i))
    /\ \E lost \in 0..3, cut \in BOOLEAN :
          Emit(s, <<PacketBuilt(f), Scored(f), Deduped(f)>>, lost, cut)

LEMMA RecordIsOne ==
    ASSUME NEW s \in Process, Record(s)
    PROVE  \E i : RecordOf(s, i)
  BY DEF Record, RecordOf, Recorded

LEMMA StepMoves ==
    ASSUME SInv, NEW s \in Process, Step(s)
    PROVE  \E n : Moves(s, n)
<1>0. ASSUME ~At(s, "idle") PROVE job[s].kind # "none"
  BY <1>0, StepFacts DEF At
<1>1. CASE Announce(s)
  <2> DEFINE n == [job[s] EXCEPT !.pc = "plan"]
             rows == <<Started(job[s].paths, policy)>>
  <2>1. PICK lost \in 0..1, cut \in BOOLEAN : Emit(s, rows, lost, cut)
    BY <1>1 DEF Announce
  <2>2. job[s].kind # "none"
    BY <1>0, <1>1 DEF Announce, At
  <2>3. Writes(s, n)
    BY <2>1, <2>2, EmitWrites, Rows
  <2>4. GoesOn(s, n)
    BY <2>2, StepFacts DEF GoesOn, StoreFrom
  <2>5. Go(s, n) /\ clusters' = clusters /\ jobs' = jobs
    BY <1>1 DEF Announce
  <2> QED BY <2>3, <2>4, <2>5 DEF Moves
<1>2. CASE InvalidationComputed(s)
  <2>1. job[s].kind # "none" /\ clusters' = clusters /\ jobs' = jobs
    BY <1>0, <1>2 DEF InvalidationComputed, At
  <2>2. CASE Fault(s) /\ UNCHANGED <<log, torn>>
    BY <2>1, <2>2, FaultMoves
  <2>3. CASE ~(Fault(s) /\ UNCHANGED <<log, torn>>)
    <3> DEFINE todo == Affected(job[s].paths, job[s].fresh)
               n == [job[s] EXCEPT !.pc = "load", !.todo = todo]
    <3>1. Go(s, n) /\ log' = log
      BY <1>2, <2>3 DEF InvalidationComputed, EmitUnread
    <3> HIDE DEF todo
    <3>2. /\ DOMAIN n = DOMAIN job[s] /\ n.kind = job[s].kind /\ n.id = job[s].id
          /\ n.store = job[s].store
      BY StepFacts
    <3> HIDE DEF n
    <3> QED BY <2>1, <3>1, <3>2, QuietMoves DEF StoreFrom
  <2> QED BY <2>2, <2>3
<1>3. CASE LoadClusters(s)
  <2>1. PICK todo : Go(s, [job[s] EXCEPT !.pc = "analyze", !.store = clusters, !.todo = todo])
    BY <1>3 DEF LoadClusters
  <2> DEFINE n == [job[s] EXCEPT !.pc = "analyze", !.store = clusters, !.todo = todo]
  <2>2. job[s].kind # "none" /\ UNCHANGED <<log, clusters, jobs>>
    BY <1>0, <1>3 DEF LoadClusters, At, disk, counts
  <2>3. /\ DOMAIN n = DOMAIN job[s] /\ n.kind = job[s].kind /\ n.id = job[s].id
        /\ n.store = clusters
    BY StepFacts
  <2> HIDE DEF n
  <2> QED BY <2>1, <2>2, <2>3, QuietMoves DEF StoreFrom, n
<1>4. CASE Analyze(s)
  <2>0. PICK file : Go(s, [job[s] EXCEPT !.todo = @ \ {file}, !.left = FindingsOf(s, file)])
    BY <1>4 DEF Analyze
  <2> DEFINE n == [job[s] EXCEPT !.todo = @ \ {file}, !.left = FindingsOf(s, file)]
  <2>1. job[s].kind # "none" /\ Go(s, n) /\ UNCHANGED <<log, clusters, jobs>>
    BY <1>0, <1>4, <2>0 DEF Analyze, At, disk, counts
  <2>2. /\ DOMAIN n = DOMAIN job[s] /\ n.kind = job[s].kind /\ n.id = job[s].id
        /\ n.store = job[s].store
    BY StepFacts
  <2> HIDE DEF n
  <2> QED BY <2>1, <2>2, QuietMoves DEF StoreFrom
<1>5. CASE Record(s)
  <2>0. PICK i : RecordOf(s, i)
    BY <1>5, RecordIsOne
  <2> DEFINE f == job[s].left[i]
             n == Recorded(s, i)
             rows == <<PacketBuilt(f), Scored(f), Deduped(f)>>
  <2>1. PICK lost \in 0..3, cut \in BOOLEAN : Emit(s, rows, lost, cut)
    BY <2>0 DEF RecordOf
  <2>2. job[s].kind # "none"
    BY <1>0, <1>5 DEF Record, At
  <2>3. Go(s, n) /\ clusters' = clusters /\ jobs' = jobs
    BY <1>5, <2>0 DEF Record, RecordOf
  <2>4. /\ DOMAIN n = DOMAIN job[s] /\ n.kind = job[s].kind /\ n.id = job[s].id
        /\ n.store = Classify(job[s].store, f)
    BY StepFacts DEF Recorded
  <2> HIDE DEF n, f
  <2>5. Writes(s, n)
    BY <2>1, <2>2, EmitWrites, Rows
  <2> QED BY <2>2, <2>3, <2>4, <2>5, StepFacts DEF Moves, GoesOn, StoreFrom
<1>6. CASE NoPacket(s)
  <2>1. job[s].kind # "none" /\ Go(s, Raised(job[s])) /\ UNCHANGED <<log, clusters, jobs>>
    BY <1>0, <1>6 DEF NoPacket, At, disk, counts
  <2> QED BY <2>1, RaisedMoves DEF Moves, Writes
<1>7. CASE SaveClusters(s) \/ SaveGivesUp(s)
  <2> DEFINE n == [job[s] EXCEPT !.pc = "dispatch"]
  <2>1. /\ job[s].kind # "none" /\ Go(s, n) /\ UNCHANGED <<log, jobs>>
        /\ clusters' \in {clusters, job[s].store}
    BY <1>0, <1>7 DEF SaveClusters, SaveGivesUp, Finished, At, EmitUnread, counts
  <2>2. /\ DOMAIN n = DOMAIN job[s] /\ n.kind = job[s].kind /\ n.id = job[s].id
        /\ n.store = job[s].store
    BY StepFacts
  <2> HIDE DEF n
  <2> QED BY <2>1, <2>2, QuietMoves DEF StoreFrom
<1>8. CASE SaveFails(s) \/ SarifFails(s)
  <2>1. job[s].kind # "none" /\ Fault(s) /\ UNCHANGED <<log, clusters, jobs>>
    BY <1>0, <1>8 DEF SaveFails, SarifFails, Finished, At, disk
  <2> QED BY <2>1, FaultMoves
<1>9. CASE Dispatch(s)
  <2>1. job[s].kind # "none" /\ clusters' = clusters /\ jobs' = jobs
    BY <1>0, <1>9 DEF Dispatch, At
  <2>2. CASE Fault(s) /\ UNCHANGED <<log, torn>>
    BY <2>1, <2>2, FaultMoves
  <2>3. CASE ~(Fault(s) /\ UNCHANGED <<log, torn>>)
    <3>1. log' = log
      BY <1>9, <2>3 DEF Dispatch, EmitUnread
    <3>2. CASE job[s].kind = "watch"
      <4>1. Go(s, Idle)
        BY <1>9, <2>3, <3>2 DEF Dispatch
      <4> QED BY <2>1, <3>1, <4>1 DEF Moves, Writes
    <3>3. CASE job[s].kind = "cli"
      <4> DEFINE n == [job[s] EXCEPT !.pc = "report"]
      <4>1. Go(s, n)
        BY <1>9, <2>3, <3>3 DEF Dispatch
      <4>2. /\ DOMAIN n = DOMAIN job[s] /\ n.kind = job[s].kind /\ n.id = job[s].id
            /\ n.store = job[s].store
        BY StepFacts
      <4> HIDE DEF n
      <4> QED BY <2>1, <3>1, <4>1, <4>2, QuietMoves DEF StoreFrom
    <3>4. CASE job[s].kind = "replay"
      <4> DEFINE v == Verdict(job[s].rows, job[s].found)
                 n == [job[s] EXCEPT !.pc = "done", !.verdict = v]
      <4>1. Go(s, n)
        BY <1>9, <2>3, <3>4 DEF Dispatch
      <4> HIDE DEF v
      <4>2. /\ DOMAIN n = DOMAIN job[s] /\ n.kind = job[s].kind /\ n.id = job[s].id
            /\ n.store = job[s].store
        BY StepFacts
      <4> HIDE DEF n
      <4> QED BY <2>1, <3>1, <4>1, <4>2, QuietMoves DEF StoreFrom
    <3> QED BY <2>1, <3>2, <3>3, <3>4, StepFacts
  <2> QED BY <2>2, <2>3
<1>10. CASE EmitSarif(s)
  <2> DEFINE n == [job[s] EXCEPT !.pc = "complete"]
  <2>1. job[s].kind # "none" /\ Go(s, n) /\ UNCHANGED <<log, clusters, jobs>>
    BY <1>0, <1>10 DEF EmitSarif, At, counts
  <2>2. /\ DOMAIN n = DOMAIN job[s] /\ n.kind = job[s].kind /\ n.id = job[s].id
        /\ n.store = job[s].store
    BY StepFacts
  <2> HIDE DEF n
  <2> QED BY <2>1, <2>2, QuietMoves DEF StoreFrom
<1>11. CASE Complete(s)
  <2> DEFINE rows == IF At(s, "complete") THEN <<Reported, Completed("ok")>>
                                          ELSE <<Completed("error")>>
  <2>1. PICK lost \in 0..Len(rows), cut \in BOOLEAN : Emit(s, rows, lost, cut)
    BY <1>11 DEF Complete
  <2>2. job[s].kind # "none" /\ Go(s, Idle) /\ clusters' = clusters /\ jobs' = jobs
    BY <1>0, <1>11 DEF Complete, Return, At
  <2>3. IsList(rows)
    BY Rows
  <2> HIDE DEF rows
  <2>4. Writes(s, Idle)
    BY <2>1, <2>2, <2>3, EmitWrites
  <2> QED BY <2>2, <2>4 DEF Moves
<1> QED BY <1>1, <1>2, <1>3, <1>4, <1>5, <1>6, <1>7, <1>8, <1>9, <1>10, <1>11 DEF Step

LEMMA ScanBegins ==
    ASSUME SInv, NEW s \in Process, NEW req, Scan(s, req) \/ Watch(s, req)
    PROVE  \E n : Begins(s, n)
<1>0. /\ jobs' = jobs + 1 /\ jobs < MaxJobs /\ jobs \in Nat
      /\ UNCHANGED <<log, clusters>>
  BY DEF Scan, Watch, NextJob, disk, SInv, Typed
<1>1. CASE Scan(s, req)
  <2> DEFINE seen == Detect(req.full)
             n == [Idle EXCEPT !.pc = "detected", !.kind = "cli", !.id = jobs',
                               !.cheap = req.cheap, !.paths = seen.paths,
                               !.fresh = seen.fresh \/ req.fresh, !.at = edits]
  <2>1. Go(s, n)
    BY <1>1 DEF Scan
  <2> HIDE DEF seen
  <2>2. DOMAIN n = DOMAIN Idle /\ n.kind = "cli" /\ n.id = jobs' /\ n.store = EmptyStore
    BY DEF Idle
  <2> HIDE DEF n
  <2> QED BY <1>0, <2>1, <2>2 DEF Begins, JobOK, StoreFrom, Idle
<1>2. CASE Watch(s, req)
  <2> DEFINE n == [Idle EXCEPT !.pc = "plan", !.kind = "watch", !.id = jobs',
                               !.paths = req.batch, !.fresh = req.fresh, !.at = edits]
  <2>1. Go(s, n)
    BY <1>2 DEF Watch
  <2>2. DOMAIN n = DOMAIN Idle /\ n.kind = "watch" /\ n.store = EmptyStore
    BY DEF Idle
  <2> HIDE DEF n
  <2> QED BY <1>0, <2>1, <2>2 DEF Begins, JobOK, StoreFrom, Idle
<1> QED BY <1>1, <1>2

LEMMA ReplayBegins ==
    ASSUME SInv, NEW s \in Process, NEW id, Replay(s, id)
    PROVE  \E n : Begins(s, n)
<1> DEFINE seen == [Idle EXCEPT !.kind = "replay", !.id = id, !.rows = log[id], !.at = edits]
           ended(v) == [seen EXCEPT !.pc = "done", !.verdict = v]
           n == IF ~HasAnchor(log[id]) THEN ended("missing_anchor")
                ELSE IF Anchor(log[id]).policy # policy THEN ended("version_drift")
                ELSE [seen EXCEPT !.pc = "plan", !.paths = Anchor(log[id]).paths]
<1>1. /\ jobs' = jobs + 1 /\ jobs < MaxJobs /\ UNCHANGED <<log, clusters>> /\ Go(s, n)
  BY DEF Replay, NextJob, disk
<1>2. /\ DOMAIN seen = DOMAIN Idle /\ seen.kind = "replay" /\ seen.store = EmptyStore
      /\ "pc" \in DOMAIN Idle /\ "verdict" \in DOMAIN Idle /\ "paths" \in DOMAIN Idle
  BY DEF Idle
<1> HIDE DEF seen
<1>3. \A v : DOMAIN ended(v) = DOMAIN Idle /\ ended(v).kind = "replay"
             /\ ended(v).store = EmptyStore
  BY <1>2
<1>4. \A P : LET m == [seen EXCEPT !.pc = "plan", !.paths = P]
             IN DOMAIN m = DOMAIN Idle /\ m.kind = "replay" /\ m.store = EmptyStore
  BY <1>2
<1>5. DOMAIN n = DOMAIN Idle /\ n.kind = "replay" /\ n.store = EmptyStore
  BY <1>3, <1>4
<1> HIDE DEF n
<1> QED BY <1>1, <1>5 DEF Begins, JobOK, StoreFrom

LEMMA OtherKeeps ==
    ASSUME SInv, UNCHANGED <<log, clusters, job>>, jobs' \in {jobs, jobs + 1},
           jobs' <= MaxJobs
    PROVE  SInv'
<1>1. jobs \in Nat /\ jobs' \in 0..MaxJobs /\ jobs' >= jobs
  BY ScanFunnelAssumption DEF SInv, Typed
<1> QED BY <1>1 DEF SInv, Typed, OwnHistory, Stores, JobOK, ScanId

LEMMA NextKinds ==
    ASSUME SInv, [Next]_vars
    PROVE  \/ \E s \in Process : \E n : Moves(s, n) \/ Begins(s, n)
           \/ UNCHANGED <<log, clusters, job>> /\ jobs' \in {jobs, jobs + 1} /\ jobs' <= MaxJobs
<1>0. jobs \in 0..MaxJobs /\ MaxJobs \in Nat
  BY ScanFunnelAssumption DEF SInv, Typed
<1>1. CASE UNCHANGED vars \/ Change
  BY <1>0, <1>1 DEF vars, Change, disk, counts
<1>2. ASSUME NEW s \in Process, NEW req, ScanRefused(s, req)
      PROVE  UNCHANGED <<log, clusters, job>> /\ jobs' \in {jobs, jobs + 1} /\ jobs' <= MaxJobs
  BY <1>0, <1>2 DEF ScanRefused, NextJob, disk
<1>3. ASSUME NEW s \in Process, Kill(s) PROVE Moves(s, Idle)
  BY <1>3 DEF Kill, Moves, Writes, disk
<1> QED BY <1>1, <1>2, <1>3, StepMoves, ScanBegins, ReplayBegins DEF Next

LEMMA SInvHolds == Spec => []SInv
<1>1. Init => SInv
  <2> SUFFICES ASSUME Init PROVE SInv
    OBVIOUS
  <2>1. Typed
    <3>1. \A id \in ScanId : log[id] = <<>>
      BY DEF Init
    <3>2. IsList(<<>>)
      BY EmptySeq, ListOf
    <3> QED BY <3>1, <3>2, IdleFacts, ScanFunnelAssumption DEF Init, Typed
  <2>2. OwnHistory
    <3>1. Open(<<>>)
      BY DEF Open, Indices
    <3> QED BY <3>1, IdleFacts DEF Init, OwnHistory
  <2>3. Stores
    BY NoClusters, IdleFacts DEF Init, Stores
  <2> QED BY <2>1, <2>2, <2>3 DEF SInv
<1>2. SInv /\ [Next]_vars => SInv'
  BY NextKinds, MovesKeep, BeginsKeep, OtherKeeps
<1> QED BY <1>1, <1>2, PTL DEF Spec

(* Whoever loads, classifies and saves at the same time, and whatever is   *)
(* lost between, no finding is ever in two saved clusters or twice in one, *)
(* and a cluster goes by the finding that opened it.                       *)
THEOREM OneClusterEach == Spec => []ClustersArePartition
<1>1. SInv => ClustersArePartition
  BY DEF SInv, Stores, StoreOK, ClustersArePartition
<1> QED BY <1>1, SInvHolds, PTL

(* Once the history of a scan says that it has ended, no later step of any *)
(* process, replays of that scan included, adds a row to it.               *)
THEOREM HistoryIsFinal == Spec => ClosedStaysClosed
<1> DEFINE Final == \A id \in ScanId : ~Open(log[id]) => log'[id] = log[id]
<1>1. SInv /\ [Next]_vars => Final
  <2> SUFFICES ASSUME SInv, [Next]_vars, NEW id \in ScanId, ~Open(log[id])
               PROVE  log'[id] = log[id]
    OBVIOUS
  <2>1. ASSUME NEW s \in Process, NEW n, Moves(s, n) PROVE log'[id] = log[id]
    <3>1. job[s].kind = "cli" => job[s].id # id
      BY CliJob
    <3> QED BY <2>1, <3>1 DEF Moves, Writes, SInv, Typed
  <2>2. ASSUME NEW s \in Process, NEW n, Begins(s, n) PROVE log'[id] = log[id]
    BY <2>2 DEF Begins
  <2> QED BY <2>1, <2>2, NextKinds
<1>2. Final => \A id \in ScanId :
                   Indices(log[id], {"ScanCompleted"}) # {} => log'[id] = log[id]
  BY DEF Open
<1> QED BY <1>1, <1>2, SInvHolds, PTL DEF Spec, ClosedStaysClosed
-----------------------------------------------------------------------------
(* That the log of a scan agrees with its report.                          *)
RowsOf(rows) == {rows[i] : i \in DOMAIN rows}
Ids(fs) == {fs[i].id : i \in DOMAIN fs}
WentWell(rows) == Completed("ok") \in RowsOf(rows)

(* The constant for no report is none.                                     *)
NoReportIsNoList == \A fs : IsList(fs) => fs # NoReport

(* The invariant.  What the history of a scan at work tells of findings is *)
(* among those it has found, and those are in its report before it         *)
(* completes; only a command line scan gets so far.                        *)
ReportJob(j, history, report) ==
    /\ IsList(j.found)
    /\ j.pc \in {"detected", "report", "complete", "failing"} => j.kind = "cli"
    /\ j.kind = "cli" =>
          /\ j.pc # "failing" => HistoricalIds(history[j.id]) \subseteq Ids(j.found)
          /\ j.pc = "complete" => report[j.id] = j.found

Told(rows, report, exit) ==
    /\ WentWell(rows) => report # NoReport /\ HistoricalIds(rows) \subseteq Ids(report)
    /\ exit = 1 => ~WentWell(rows)

Reports ==
    /\ DOMAIN sarif = ScanId /\ DOMAIN result = ScanId
    /\ \A s \in Process : ReportJob(job[s], log, sarif)
    /\ \A id \in ScanId : Told(log[id], sarif[id], result[id].exit)
    /\ \A id \in ScanId : id > jobs => HistoricalIds(log[id]) = {}

RInv == SInv /\ Reports
-----------------------------------------------------------------------------
LEMMA JoinedRows ==
    ASSUME NEW s, NEW t, IsList(s), IsList(t)
    PROVE  RowsOf(s \o t) = RowsOf(s) \cup RowsOf(t)
<1> DEFINE S == RowsOf(s) \cup RowsOf(t)
<1>1. s \in Seq(S) /\ t \in Seq(S)
  BY SeqMonotonic DEF IsList, RowsOf
<1> HIDE DEF S
<1>2. /\ s \o t \in Seq(S) /\ Len(s) \in Nat /\ Len(t) \in Nat
      /\ Len(s \o t) = Len(s) + Len(t)
      /\ DOMAIN (s \o t) = 1..(Len(s) + Len(t))
      /\ DOMAIN s = 1..Len(s) /\ DOMAIN t = 1..Len(t)
      /\ \A i \in 1..(Len(s) + Len(t)) :
            (s \o t)[i] = IF i <= Len(s) THEN s[i] ELSE t[i - Len(s)]
  BY <1>1, ConcatProperties, LenProperties
<1>3. ASSUME NEW i \in DOMAIN s PROVE i \in DOMAIN (s \o t) /\ (s \o t)[i] = s[i]
  BY <1>2
<1>4. ASSUME NEW i \in DOMAIN t
      PROVE  Len(s) + i \in DOMAIN (s \o t) /\ (s \o t)[Len(s) + i] = t[i]
  BY <1>2
<1>5. ASSUME NEW i \in DOMAIN (s \o t)
      PROVE  \/ i \in DOMAIN s /\ (s \o t)[i] = s[i]
             \/ i - Len(s) \in DOMAIN t /\ (s \o t)[i] = t[i - Len(s)]
  BY <1>2
<1> QED BY <1>3, <1>4, <1>5 DEF RowsOf

LEMMA SurvivingRows ==
    ASSUME NEW rows, IsList(rows), NEW lost \in 0..Len(rows), NEW cut \in BOOLEAN
    PROVE  RowsOf(Survivors(rows, lost, cut)) \subseteq RowsOf(rows)
<1> DEFINE first == IF torn THEN 1 ELSE lost
           last == IF cut THEN first + 1 ELSE first
           before == SubSeq(rows, 1, first - 1)
           after == SubSeq(rows, last + 1, Len(rows))
<1>1. /\ Len(rows) \in Nat /\ DOMAIN rows = 1..Len(rows)
      /\ first \in Nat /\ last \in Nat /\ last >= first
      /\ first <= Len(rows) + 1
  BY ListFacts
<1>2. Survivors(rows, lost, cut) = IF first = 0 THEN rows ELSE before \o after
  BY DEF Survivors
<1>3. CASE first = 0
  BY <1>2, <1>3
<1>4. CASE first # 0
  <2> HIDE DEF first, last
  <2>1. \A i \in 1..(first - 1) : rows[i] \in RowsOf(rows)
    BY <1>1 DEF RowsOf
  <2>2. \A i \in (last + 1)..Len(rows) : rows[i] \in RowsOf(rows)
    BY <1>1, <1>4 DEF RowsOf
  <2>3. before \in Seq(RowsOf(rows)) /\ after \in Seq(RowsOf(rows))
    BY <2>1, <2>2, <1>1, SubSeqProperties
  <2> HIDE DEF before, after
  <2>4. RowsOf(before \o after) = RowsOf(before) \cup RowsOf(after)
    BY <2>3, ListOf, JoinedRows
  <2>5. RowsOf(before) \subseteq RowsOf(rows) /\ RowsOf(after) \subseteq RowsOf(rows)
    BY <2>3, LenProperties, ElementOfSeq DEF RowsOf
  <2> QED BY <1>2, <1>4, <2>4, <2>5
<1> QED BY <1>3, <1>4

(* The findings a history tells of are those of its rows.                  *)
LEMMA IdsOfRows ==
    ASSUME NEW rows
    PROVE  HistoricalIds(rows) =
              {r.id : r \in {q \in RowsOf(rows) :
                  q.event \in {"EvidencePacketBuilt", "PriorityScored", "FindingDeduped"}}}
  BY DEF HistoricalIds, Indices, RowsOf

LEMMA OpenIsNotWell ==
    ASSUME NEW rows, Open(rows)
    PROVE  ~WentWell(rows)
  BY DEF Open, Indices, WentWell, RowsOf, Completed

LEMMA ThreeRows ==
    ASSUME NEW f
    PROVE  RowsOf(<<PacketBuilt(f), Scored(f), Deduped(f)>>) = {PacketBuilt(f), Scored(f), Deduped(f)}
<1> DEFINE three == <<PacketBuilt(f), Scored(f), Deduped(f)>>
<1>1. /\ DOMAIN three = {1, 2, 3}
      /\ three[1] = PacketBuilt(f) /\ three[2] = Scored(f) /\ three[3] = Deduped(f)
  OBVIOUS
<1> HIDE DEF three
<1>2. RowsOf(three) = {PacketBuilt(f), Scored(f), Deduped(f)}
  BY <1>1 DEF RowsOf
<1> QED BY <1>2 DEF three

LEMMA ShortRows ==
    ASSUME NEW a, NEW b
    PROVE  RowsOf(<<a>>) = {a} /\ RowsOf(<<a, b>>) = {a, b} /\ Ids(<<>>) = {}
  BY DEF RowsOf, Ids

LEMMA FoundGrows ==
    ASSUME NEW found, NEW f, IsList(found)
    PROVE  IsList(Append(found, f)) /\ Ids(Append(found, f)) = Ids(found) \cup {f.id}
<1>1. /\ IsList(Append(found, f))
      /\ Len(found) \in Nat /\ DOMAIN found = 1..Len(found)
      /\ DOMAIN Append(found, f) = 1..(Len(found) + 1)
      /\ \A i \in 1..Len(found) : Append(found, f)[i] = found[i]
      /\ Append(found, f)[Len(found) + 1] = f
  BY AppendFacts
<1>2. ASSUME NEW i \in DOMAIN found
      PROVE  i \in DOMAIN Append(found, f) /\ Append(found, f)[i] = found[i]
  BY <1>1
<1>3. ASSUME NEW i \in DOMAIN Append(found, f)
      PROVE  \/ i \in DOMAIN found /\ Append(found, f)[i] = found[i]
             \/ Append(found, f)[i] = f
  BY <1>1
<1>4. Len(found) + 1 \in DOMAIN Append(found, f)
  BY <1>1
<1> QED BY <1>1, <1>2, <1>3, <1>4 DEF Ids
-----------------------------------------------------------------------------
(* A step of a scan or replay touches the log, the report and the result   *)
(* of its own scan only, and leaves them in agreement.                     *)
Own(s, id) == job[s].kind = "cli" /\ job[s].id = id

ReportMoves(s, n) ==
    /\ Go(s, n) /\ ReportJob(n, log', sarif')
    /\ DOMAIN sarif' = ScanId /\ DOMAIN result' = ScanId
    /\ \A id \in ScanId :
          \/ Own(s, id) /\ Told(log'[id], sarif'[id], result'[id].exit)
          \/ log'[id] = log[id] /\ sarif'[id] = sarif[id] /\ result'[id] = result[id]

LEMMA ReportKeeps ==
    ASSUME RInv, NEW s \in Process, NEW n, ReportMoves(s, n), jobs' \in {jobs, jobs + 1}
    PROVE  Reports'
<1>1. job'[s] = n /\ \A t \in Process : t # s => job'[t] = job[t]
  BY DEF RInv, SInv, Typed, ReportMoves, Go
<1>2. ASSUME NEW t \in Process, t # s PROVE ReportJob(job'[t], log', sarif')
  <2>1. ReportJob(job[t], log, sarif) /\ job'[t] = job[t]
    BY <1>1, <1>2 DEF RInv, Reports
  <2>2. CASE job[t].kind = "cli"
    <3>1. job[t].id \in ScanId /\ ~Own(s, job[t].id)
      BY <1>2, <2>2, CliJob DEF RInv, SInv, OwnHistory, Own
    <3>2. log'[job[t].id] = log[job[t].id] /\ sarif'[job[t].id] = sarif[job[t].id]
      BY <3>1 DEF ReportMoves
    <3> QED BY <2>1, <3>2 DEF ReportJob
  <2>3. CASE job[t].kind # "cli"
    BY <2>1, <2>3 DEF ReportJob
  <2> QED BY <2>2, <2>3
<1>3. ReportJob(job'[s], log', sarif')
  BY <1>1 DEF ReportMoves
<1>4. \A id \in ScanId : Told(log'[id], sarif'[id], result'[id].exit)
  BY DEF ReportMoves, RInv, Reports, Told
<1>5. ASSUME NEW id \in ScanId, id > jobs' PROVE HistoricalIds(log'[id]) = {}
  <2>1. jobs \in Nat /\ id \in Nat /\ id > jobs
    BY <1>5 DEF RInv, SInv, Typed, ScanId
  <2>2. ~Own(s, id)
    BY <2>1, CliJob DEF RInv, Own
  <2> QED BY <2>1, <2>2 DEF ReportMoves, RInv, Reports
<1> QED BY <1>2, <1>3, <1>4, <1>5 DEF Reports, ReportMoves

(* No later field of a job depends on the rows of a step that writes none. *)
LEMMA QuietReport ==
    ASSUME RInv, NEW s \in Process, NEW n, Go(s, n), ReportJob(n, log, sarif),
           n.kind = "cli" => job[s].kind = "cli" /\ n.id = job[s].id,
           UNCHANGED <<log, sarif, result>>
    PROVE  ReportMoves(s, n)
<1>1. ReportJob(n, log', sarif')
  BY DEF ReportJob
<1> QED BY <1>1 DEF ReportMoves, RInv, Reports

LEMMA IdleReport == ReportJob(Idle, log, sarif) /\ Idle.kind = "none"
<1>1. IsList(<<>>)
  BY EmptySeq, ListOf
<1> QED BY <1>1 DEF Idle, ReportJob

(* What a job emits: rows of its own scan, or nothing that counts.         *)
LEMMA EmitReport ==
    ASSUME RInv, NEW s \in Process, job[s].kind # "none",
           NEW rows, IsList(rows),
           NEW lost \in 0..Len(rows), NEW cut \in BOOLEAN, Emit(s, rows, lost, cut)
    PROVE  /\ \A id \in ScanId : Own(s, id) \/ log'[id] = log[id]
           /\ job[s].kind = "cli" =>
                 RowsOf(log'[job[s].id]) \subseteq RowsOf(log[job[s].id]) \cup RowsOf(rows)
<1>1. CASE job[s].kind = "cli"
  <2> DEFINE left == Survivors(rows, lost, cut)
  <2>1. log' = [log EXCEPT ![job[s].id] = @ \o left]
    BY <1>1 DEF Emit, Appended
  <2>2. IsList(left) /\ RowsOf(left) \subseteq RowsOf(rows)
    BY Surviving, SurvivingRows
  <2> HIDE DEF left
  <2>3. job[s].id \in ScanId /\ IsList(log[job[s].id]) /\ DOMAIN log = ScanId
    BY <1>1, CliJob DEF RInv, SInv, Typed
  <2>4. log'[job[s].id] = log[job[s].id] \o left
        /\ \A id \in ScanId : id # job[s].id => log'[id] = log[id]
    BY <2>1, <2>3
  <2>5. RowsOf(log[job[s].id] \o left) = RowsOf(log[job[s].id]) \cup RowsOf(left)
    BY <2>2, <2>3, JoinedRows
  <2> QED BY <1>1, <2>2, <2>4, <2>5 DEF Own
<1>2. CASE job[s].kind \in {"watch", "replay"}
  BY <1>2 DEF Emit, Appended
<1> QED BY <1>1, <1>2, StepFacts DEF RInv

(* The result of an exception is a job that agrees with its report.        *)
LEMMA RaisedReport ==
    ASSUME RInv, NEW s \in Process, job[s].kind # "none"
    PROVE  /\ ReportJob(Raised(job[s]), log, sarif)
           /\ Raised(job[s]).kind = "cli" =>
                 job[s].kind = "cli" /\ Raised(job[s]).id = job[s].id
<1> DEFINE n == Raised(job[s])
<1>0. ReportJob(job[s], log, sarif) /\ IsList(<<>>)
  BY EmptySeq, ListOf DEF RInv, Reports
<1>1. CASE job[s].kind = "cli"
  <2>1. /\ n.kind = "cli" /\ n.id = job[s].id /\ n.pc = "failing"
        /\ n.found \in {job[s].found, <<>>}
    BY <1>1, StepFacts DEF Raised, RInv
  <2> HIDE DEF n
  <2>2. ReportJob(n, log, sarif)
    BY <1>0, <2>1 DEF ReportJob
  <2> QED BY <1>1, <2>1, <2>2 DEF n
<1>2. CASE job[s].kind = "watch"
  <2>1. n = Idle
    BY <1>2 DEF Raised
  <2> QED BY <2>1, IdleReport
<1>3. CASE job[s].kind = "replay"
  <2>1. n.kind = "replay" /\ n.pc = "done" /\ n.found = job[s].found
    BY <1>3, StepFacts DEF Raised, RInv
  <2> HIDE DEF n
  <2>2. ReportJob(n, log, sarif)
    BY <1>0, <2>1 DEF ReportJob
  <2> QED BY <2>1, <2>2 DEF n
<1> QED BY <1>1, <1>2, <1>3, StepFacts DEF RInv

LEMMA FaultReport ==
    ASSUME RInv, NEW s \in Process, job[s].kind # "none", Fault(s),
           UNCHANGED <<log, sarif, result>>
    PROVE  ReportMoves(s, Raised(job[s]))
  BY RaisedReport, QuietReport DEF Fault

(* A job whose found, kind and id stay, and that does not complete, agrees *)
(* with its report as it did.                                              *)
LEMMA SameReport ==
    ASSUME RInv, NEW s \in Process, job[s].kind # "none", job[s].pc # "failing", NEW n,
           n.found = job[s].found, n.kind = job[s].kind, n.id = job[s].id, n.pc # "complete",
           n.pc \in {"detected", "report"} => job[s].kind = "cli", n.pc # "failing"
    PROVE  ReportJob(n, log, sarif)
  BY DEF RInv, Reports, ReportJob

LEMMA StepReports ==
    ASSUME RInv, NEW s \in Process, Step(s), NoReportIsNoList
    PROVE  \E n : ReportMoves(s, n)
<1> USE DEF RInv
<1>0. /\ ~At(s, "idle") => job[s].kind # "none"
      /\ ReportJob(job[s], log, sarif)
  BY StepFacts DEF At, Reports
<1>1. CASE Announce(s)
  <2> DEFINE n == [job[s] EXCEPT !.pc = "plan"]
             rows == <<Started(job[s].paths, policy)>>
  <2>1. PICK lost \in 0..1, cut \in BOOLEAN : Emit(s, rows, lost, cut)
    BY <1>1 DEF Announce
  <2>2. job[s].kind # "none" /\ job[s].pc = "detected" /\ Go(s, n)
        /\ UNCHANGED <<sarif, result>>
    BY <1>0, <1>1 DEF Announce, At
  <2>3. /\ n.found = job[s].found /\ n.kind = job[s].kind /\ n.id = job[s].id
        /\ n.pc = "plan"
    BY StepFacts
  <2> HIDE DEF n
  <2>4. job[s].kind = "cli" /\ job[s].id \in ScanId /\ Open(log[job[s].id])
    BY <1>0, <2>2, CliJob DEF ReportJob
  <2>5. /\ \A id \in ScanId : Own(s, id) \/ log'[id] = log[id]
        /\ RowsOf(log'[job[s].id]) \subseteq
               RowsOf(log[job[s].id]) \cup {Started(job[s].paths, policy)}
    <3>1. IsList(rows) /\ Len(rows) = 1
      BY Rows
    <3>2. RowsOf(rows) = {Started(job[s].paths, policy)}
      BY ShortRows
    <3>3. lost \in 0..Len(rows) /\ Emit(s, rows, lost, cut)
      BY <2>1, <3>1
    <3>4. job[s].kind # "none"
      BY <2>2
    <3> HIDE DEF rows
    <3>5. /\ \A id \in ScanId : Own(s, id) \/ log'[id] = log[id]
          /\ job[s].kind = "cli" =>
                RowsOf(log'[job[s].id]) \subseteq RowsOf(log[job[s].id]) \cup RowsOf(rows)
      BY <3>1, <3>3, <3>4, EmitReport
    <3> QED BY <2>4, <3>2, <3>5
  <2>6. ~WentWell(log'[job[s].id])
    BY <2>4, <2>5, OpenIsNotWell DEF WentWell, Started, Completed
  <2>7. HistoricalIds(log'[job[s].id]) \subseteq HistoricalIds(log[job[s].id])
    <3>1. Started(job[s].paths, policy).event = "ScanStarted"
      BY DEF Started
    <3> QED BY <2>5, <3>1, IdsOfRows
  <2>8. ReportJob(n, log', sarif')
    BY <1>0, <2>2, <2>3, <2>4, <2>7 DEF ReportJob
  <2> QED BY <2>2, <2>5, <2>6, <2>8 DEF ReportMoves, Told, Own, Reports
<1>2. CASE InvalidationComputed(s)
  <2>1. /\ job[s].kind # "none" /\ job[s].pc = "plan" /\ UNCHANGED <<sarif, result>>
    BY <1>0, <1>2 DEF InvalidationComputed, At
  <2>2. CASE Fault(s) /\ UNCHANGED <<log, torn>>
    BY <2>1, <2>2, FaultReport
  <2>3. CASE ~(Fault(s) /\ UNCHANGED <<log, torn>>)
    <3> DEFINE todo == Affected(job[s].paths, job[s].fresh)
               n == [job[s] EXCEPT !.pc = "load", !.todo = todo]
    <3>1. Go(s, n) /\ log' = log
      BY <1>2, <2>3 DEF InvalidationComputed, EmitUnread
    <3> HIDE DEF todo
    <3>2. /\ n.found = job[s].found /\ n.kind = job[s].kind /\ n.id = job[s].id
          /\ n.pc = "load"
      BY StepFacts
    <3> HIDE DEF n
    <3> QED BY <2>1, <3>1, <3>2, SameReport, QuietReport
  <2> QED BY <2>2, <2>3
<1>3. CASE LoadClusters(s)
  <2>1. PICK todo : Go(s, [job[s] EXCEPT !.pc = "analyze", !.store = clusters, !.todo = todo])
    BY <1>3 DEF LoadClusters
  <2> DEFINE n == [job[s] EXCEPT !.pc = "analyze", !.store = clusters, !.todo = todo]
  <2>2. job[s].kind # "none" /\ job[s].pc = "load" /\ UNCHANGED <<log, sarif, result>>
    BY <1>0, <1>3 DEF LoadClusters, At, disk
  <2>3. /\ n.found = job[s].found /\ n.kind = job[s].kind /\ n.id = job[s].id
        /\ n.pc = "analyze"
    BY StepFacts
  <2>4. Go(s, n)
    BY <2>1
  <2> HIDE DEF n
  <2> QED BY <2>2, <2>3, <2>4, SameReport, QuietReport
<1>4. CASE Analyze(s)
  <2>0. PICK file : Go(s, [job[s] EXCEPT !.todo = @ \ {file}, !.left = FindingsOf(s, file)])
    BY <1>4 DEF Analyze
  <2> DEFINE n == [job[s] EXCEPT !.todo = @ \ {file}, !.left = FindingsOf(s, file)]
  <2>1. job[s].kind # "none" /\ job[s].pc = "analyze" /\ Go(s, n)
        /\ UNCHANGED <<log, sarif, result>>
    BY <1>0, <1>4, <2>0 DEF Analyze, At, disk
  <2>2. /\ n.found = job[s].found /\ n.kind = job[s].kind /\ n.id = job[s].id
        /\ n.pc = job[s].pc
    BY StepFacts
  <2> HIDE DEF n
  <2> QED BY <2>1, <2>2, SameReport, QuietReport
<1>5. CASE Record(s)
  <2>0. PICK i : RecordOf(s, i)
    BY <1>5, RecordIsOne
  <2> DEFINE f == job[s].left[i]
             n == Recorded(s, i)
             rows == <<PacketBuilt(f), Scored(f), Deduped(f)>>
  <2>1. PICK lost \in 0..3, cut \in BOOLEAN : Emit(s, rows, lost, cut)
    BY <2>0 DEF RecordOf
  <2>2. job[s].kind # "none" /\ job[s].pc = "analyze" /\ Go(s, n)
        /\ UNCHANGED <<sarif, result>>
    BY <1>0, <1>5, <2>0 DEF Record, RecordOf, At
  <2>3. /\ n.found = Append(job[s].found, f) /\ n.kind = job[s].kind /\ n.id = job[s].id
        /\ n.pc = "analyze"
    BY <2>2, StepFacts DEF Recorded
  <2> HIDE DEF n, f
  <2>4. IsList(n.found) /\ Ids(n.found) = Ids(job[s].found) \cup {f.id}
    BY <1>0, <2>3, FoundGrows DEF ReportJob
  <2>5. /\ \A id \in ScanId : Own(s, id) \/ log'[id] = log[id]
        /\ job[s].kind = "cli" =>
              RowsOf(log'[job[s].id]) \subseteq
                  RowsOf(log[job[s].id]) \cup {PacketBuilt(f), Scored(f), Deduped(f)}
    <3>1. IsList(rows) /\ Len(rows) = 3
      BY Rows
    <3>2. RowsOf(rows) = {PacketBuilt(f), Scored(f), Deduped(f)}
      BY ThreeRows
    <3>3. lost \in 0..Len(rows) /\ Emit(s, rows, lost, cut)
      BY <2>1, <3>1
    <3>4. job[s].kind # "none"
      BY <2>2
    <3> HIDE DEF rows
    <3>5. /\ \A id \in ScanId : Own(s, id) \/ log'[id] = log[id]
          /\ job[s].kind = "cli" =>
                RowsOf(log'[job[s].id]) \subseteq RowsOf(log[job[s].id]) \cup RowsOf(rows)
      BY <3>1, <3>3, <3>4, EmitReport
    <3> QED BY <3>2, <3>5
  <2>6. CASE job[s].kind = "cli"
    <3>1. job[s].id \in ScanId /\ Open(log[job[s].id])
      BY <2>6, CliJob
    <3>2. /\ PacketBuilt(f).event = "EvidencePacketBuilt" /\ PacketBuilt(f).id = f.id
          /\ Scored(f).event = "PriorityScored" /\ Scored(f).id = f.id
          /\ Deduped(f).event = "FindingDeduped" /\ Deduped(f).id = f.id
          /\ Completed("ok").event = "ScanCompleted"
      BY DEF PacketBuilt, Scored, Deduped, Completed
    <3>3. ~WentWell(log'[job[s].id])
      BY <2>5, <2>6, <3>1, <3>2, OpenIsNotWell DEF WentWell
    <3>4. HistoricalIds(log'[job[s].id]) \subseteq HistoricalIds(log[job[s].id]) \cup {f.id}
      BY <2>5, <2>6, <3>2, IdsOfRows
    <3>5. HistoricalIds(log'[job[s].id]) \subseteq Ids(n.found)
      BY <1>0, <2>2, <2>4, <2>6, <3>4 DEF ReportJob
    <3>6. ReportJob(n, log', sarif')
      BY <2>2, <2>3, <2>4, <2>6, <3>5 DEF ReportJob
    <3> QED BY <2>2, <2>5, <3>3, <3>6 DEF ReportMoves, Told, Own, Reports
  <2>7. CASE job[s].kind # "cli"
    <3>1. ReportJob(n, log', sarif')
      BY <2>2, <2>3, <2>4, <2>7 DEF ReportJob
    <3> QED BY <2>2, <2>5, <2>7, <3>1 DEF ReportMoves, Own, Reports
  <2> QED BY <2>6, <2>7
<1>6. CASE NoPacket(s)
  <2>1. job[s].kind # "none" /\ Go(s, Raised(job[s])) /\ UNCHANGED <<log, sarif, result>>
    BY <1>0, <1>6 DEF NoPacket, At, disk
  <2> QED BY <2>1, RaisedReport, QuietReport
<1>7. CASE SaveClusters(s) \/ SaveGivesUp(s)
  <2> DEFINE n == [job[s] EXCEPT !.pc = "dispatch"]
  <2>1. /\ job[s].kind # "none" /\ job[s].pc = "analyze" /\ Go(s, n)
        /\ UNCHANGED <<log, sarif, result>>
    BY <1>0, <1>7 DEF SaveClusters, SaveGivesUp, Finished, At, EmitUnread
  <2>2. /\ n.found = job[s].found /\ n.kind = job[s].kind /\ n.id = job[s].id
        /\ n.pc = "dispatch"
    BY StepFacts
  <2> HIDE DEF n
  <2> QED BY <2>1, <2>2, SameReport, QuietReport
<1>8. CASE SaveFails(s) \/ SarifFails(s)
  <2>1. job[s].kind # "none" /\ Fault(s) /\ UNCHANGED <<log, sarif, result>>
    BY <1>0, <1>8 DEF SaveFails, SarifFails, Finished, At, disk
  <2> QED BY <2>1, FaultReport
<1>9. CASE Dispatch(s)
  <2>1. job[s].kind # "none" /\ job[s].pc = "dispatch" /\ UNCHANGED <<sarif, result>>
    BY <1>0, <1>9 DEF Dispatch, At
  <2>2. CASE Fault(s) /\ UNCHANGED <<log, torn>>
    BY <2>1, <2>2, FaultReport
  <2>3. CASE ~(Fault(s) /\ UNCHANGED <<log, torn>>)
    <3>1. log' = log
      BY <1>9, <2>3 DEF Dispatch, EmitUnread
    <3>2. CASE job[s].kind = "watch"
      <4>1. Go(s, Idle)
        BY <1>9, <2>3, <3>2 DEF Dispatch
      <4> QED BY <2>1, <3>1, <4>1, IdleReport, QuietReport
    <3>3. CASE job[s].kind = "cli"
      <4> DEFINE n == [job[s] EXCEPT !.pc = "report"]
      <4>1. Go(s, n)
        BY <1>9, <2>3, <3>3 DEF Dispatch
      <4>2. /\ n.found = job[s].found /\ n.kind = job[s].kind /\ n.id = job[s].id
            /\ n.pc = "report"
        BY StepFacts
      <4> HIDE DEF n
      <4> QED BY <2>1, <3>1, <3>3, <4>1, <4>2, SameReport, QuietReport
    <3>4. CASE job[s].kind = "replay"
      <4> DEFINE v == Verdict(job[s].rows, job[s].found)
                 n == [job[s] EXCEPT !.pc = "done", !.verdict = v]
      <4>1. Go(s, n)
        BY <1>9, <2>3, <3>4 DEF Dispatch
      <4> HIDE DEF v
      <4>2. /\ n.found = job[s].found /\ n.kind = job[s].kind /\ n.id = job[s].id
            /\ n.pc = "done"
        BY StepFacts
      <4> HIDE DEF n
      <4> QED BY <2>1, <3>1, <4>1, <4>2, SameReport, QuietReport
    <3> QED BY <2>1, <3>2, <3>3, <3>4, StepFacts
  <2> QED BY <2>2, <2>3
<1>10. CASE EmitSarif(s)
  <2> DEFINE n == [job[s] EXCEPT !.pc = "complete"]
  <2>1. /\ job[s].kind # "none" /\ job[s].pc = "report" /\ Go(s, n) /\ UNCHANGED <<log, result>>
        /\ sarif' = [sarif EXCEPT ![job[s].id] = job[s].found]
    BY <1>0, <1>10 DEF EmitSarif, At
  <2>2. /\ n.found = job[s].found /\ n.kind = job[s].kind /\ n.id = job[s].id
        /\ n.pc = "complete"
    BY StepFacts
  <2> HIDE DEF n
  <2>3. job[s].kind = "cli" /\ job[s].id \in ScanId /\ Open(log[job[s].id])
    BY <1>0, <2>1, CliJob DEF ReportJob
  <2>4. /\ DOMAIN sarif' = ScanId /\ sarif'[job[s].id] = job[s].found
        /\ \A id \in ScanId : id # job[s].id => sarif'[id] = sarif[id]
    BY <2>1, <2>3 DEF Reports
  <2>5. ReportJob(n, log', sarif')
    BY <1>0, <2>1, <2>2, <2>3, <2>4 DEF ReportJob
  <2>6. Told(log'[job[s].id], sarif'[job[s].id], result'[job[s].id].exit)
    BY <2>1, <2>3, OpenIsNotWell DEF Told
  <2> QED BY <2>1, <2>3, <2>4, <2>5, <2>6 DEF ReportMoves, Own, Reports
<1>11. CASE Complete(s)
  <2> DEFINE rows == IF At(s, "complete") THEN <<Reported, Completed("ok")>>
                                          ELSE <<Completed("error")>>
  <2>1. PICK lost \in 0..Len(rows), cut \in BOOLEAN : Emit(s, rows, lost, cut)
    BY <1>11 DEF Complete
  <2>2. PICK exit \in {0, 1} : Return(s, exit) /\ (exit = 0 <=> At(s, "complete"))
    BY <1>11 DEF Complete, At
  <2>3. /\ job[s].kind = "cli" /\ job[s].pc \in {"complete", "failing"}
        /\ Go(s, Idle) /\ sarif' = sarif
    BY <1>0, <1>11 DEF Complete, Return, At, ReportJob
  <2>4. job[s].id \in ScanId /\ Open(log[job[s].id])
    BY <2>3, CliJob
  <2>5. /\ DOMAIN result' = ScanId /\ result'[job[s].id].exit = exit
        /\ \A id \in ScanId : id # job[s].id => result'[id] = result[id]
    BY <2>2, <2>4 DEF Return, Reports
  <2>6. IsList(rows)
    BY Rows
  <2>7. RowsOf(rows) = IF At(s, "complete") THEN {Reported, Completed("ok")} ELSE {Completed("error")}
    BY ShortRows
  <2> HIDE DEF rows
  <2>8. /\ \A id \in ScanId : Own(s, id) \/ log'[id] = log[id]
        /\ RowsOf(log'[job[s].id]) \subseteq RowsOf(log[job[s].id]) \cup RowsOf(rows)
    BY <2>1, <2>3, <2>6, EmitReport
  <2>9. /\ Reported.event = "SARIFEmitted" /\ Completed("ok") # Completed("error")
        /\ Completed("ok").event = "ScanCompleted" /\ Completed("error").event = "ScanCompleted"
    BY DEF Reported, Completed
  <2>10. Told(log'[job[s].id], sarif'[job[s].id], result'[job[s].id].exit)
    <3>1. CASE At(s, "complete")
      <4>1. HistoricalIds(log'[job[s].id]) \subseteq HistoricalIds(log[job[s].id])
        BY <2>7, <2>8, <2>9, <3>1, IdsOfRows
      <4>2. sarif[job[s].id] = job[s].found /\ job[s].found # NoReport
            /\ HistoricalIds(log[job[s].id]) \subseteq Ids(job[s].found)
        BY <1>0, <2>3, <3>1 DEF ReportJob, NoReportIsNoList, At
      <4> QED BY <2>2, <2>3, <2>5, <3>1, <4>1, <4>2 DEF Told
    <3>2. CASE ~At(s, "complete")
      <4>1. ~WentWell(log'[job[s].id])
        BY <2>4, <2>7, <2>8, <2>9, <3>2, OpenIsNotWell DEF WentWell
      <4> QED BY <4>1 DEF Told
    <3> QED BY <3>1, <3>2
  <2>11. ReportJob(Idle, log', sarif')
    BY IdleReport DEF ReportJob
  <2> QED BY <2>3, <2>5, <2>8, <2>10, <2>11 DEF ReportMoves, Own, Reports
<1> QED BY <1>1, <1>2, <1>3, <1>4, <1>5, <1>6, <1>7, <1>8, <1>9, <1>10, <1>11 DEF Step

LEMMA BeginReports ==
    ASSUME RInv, NEW s \in Process,
           NEW req, NEW id, Scan(s, req) \/ Watch(s, req) \/ Replay(s, id)
    PROVE  \E n : ReportMoves(s, n)
<1> USE DEF RInv
<1>0. UNCHANGED <<log, sarif, result>> /\ jobs' = jobs + 1 /\ jobs < MaxJobs
  BY DEF Scan, Watch, Replay, NextJob, disk
<1>1. HistoricalIds(log[jobs']) = {} /\ IsList(<<>>) /\ Idle.found = <<>>
  <2>1. jobs' \in ScanId /\ jobs' > jobs
    BY <1>0, ScanFunnelAssumption DEF SInv, Typed, ScanId
  <2>2. IsList(<<>>)
    BY EmptySeq, ListOf
  <2> QED BY <2>1, <2>2 DEF Reports, Idle
<1>2. CASE Scan(s, req)
  <2> DEFINE seen == Detect(req.full)
             n == [Idle EXCEPT !.pc = "detected", !.kind = "cli", !.id = jobs',
                               !.cheap = req.cheap, !.paths = seen.paths,
                               !.fresh = seen.fresh \/ req.fresh, !.at = edits]
  <2>1. Go(s, n)
    BY <1>2 DEF Scan
  <2> HIDE DEF seen
  <2>2. n.kind = "cli" /\ n.id = jobs' /\ n.pc = "detected" /\ n.found = <<>>
    BY DEF Idle
  <2> HIDE DEF n
  <2>3. ReportJob(n, log', sarif')
    BY <1>0, <1>1, <2>2 DEF ReportJob
  <2> QED BY <1>0, <2>1, <2>3 DEF ReportMoves, Reports
<1>3. CASE Watch(s, req)
  <2> DEFINE n == [Idle EXCEPT !.pc = "plan", !.kind = "watch", !.id = jobs',
                               !.paths = req.batch, !.fresh = req.fresh, !.at = edits]
  <2>1. Go(s, n)
    BY <1>3 DEF Watch
  <2>2. n.kind = "watch" /\ n.pc = "plan" /\ n.found = <<>>
    BY DEF Idle
  <2> HIDE DEF n
  <2>3. ReportJob(n, log', sarif')
    BY <1>1, <2>2 DEF ReportJob
  <2> QED BY <1>0, <2>1, <2>3 DEF ReportMoves, Reports
<1>4. CASE Replay(s, id)
  <2> DEFINE seen == [Idle EXCEPT !.kind = "replay", !.id = id, !.rows = log[id], !.at = edits]
             ended(v) == [seen EXCEPT !.pc = "done", !.verdict = v]
             goes(P) == [seen EXCEPT !.pc = "plan", !.paths = P]
             n == IF ~HasAnchor(log[id]) THEN ended("missing_anchor")
                  ELSE IF Anchor(log[id]).policy # policy THEN ended("version_drift")
                  ELSE goes(Anchor(log[id]).paths)
  <2>1. Go(s, n)
    BY <1>4 DEF Replay
  <2>2. /\ seen.kind = "replay" /\ seen.found = <<>>
        /\ "pc" \in DOMAIN seen /\ "verdict" \in DOMAIN seen /\ "paths" \in DOMAIN seen
    BY DEF Idle
  <2> HIDE DEF seen
  <2>3. /\ \A v : ended(v).kind = "replay" /\ ended(v).found = <<>> /\ ended(v).pc = "done"
        /\ \A P : goes(P).kind = "replay" /\ goes(P).found = <<>> /\ goes(P).pc = "plan"
    BY <2>2
  <2>4. n.kind = "replay" /\ n.found = <<>> /\ n.pc \in {"plan", "done"}
    BY <2>3
  <2> HIDE DEF n
  <2>5. ReportJob(n, log', sarif')
    BY <1>1, <2>4 DEF ReportJob
  <2> QED BY <1>0, <2>1, <2>5 DEF ReportMoves, Reports
<1> QED BY <1>2, <1>3, <1>4

(* git is missing: a result without a scan.                                *)
LEMMA RefusalReports ==
    ASSUME RInv, NEW s \in Process, NEW req, ScanRefused(s, req)
    PROVE  Reports'
<1> USE DEF RInv
<1>0. /\ UNCHANGED <<log, sarif, job>> /\ jobs' = jobs + 1 /\ jobs < MaxJobs
      /\ result' = [result EXCEPT ![jobs'] = [NoResult EXCEPT !.exit = 1]]
  BY DEF ScanRefused, NextJob, disk
<1>1. /\ jobs \in Nat /\ jobs' \in ScanId /\ jobs' > jobs
  BY <1>0, ScanFunnelAssumption DEF SInv, Typed, ScanId
<1>2. ~WentWell(log[jobs'])
  BY <1>1, OpenIsNotWell DEF SInv, OwnHistory
<1>3. /\ DOMAIN result' = ScanId
      /\ \A id \in ScanId : id # jobs' => result'[id] = result[id]
  BY <1>0 DEF Reports
<1>4. \A id \in ScanId : Told(log'[id], sarif'[id], result'[id].exit)
  BY <1>0, <1>2, <1>3 DEF Reports, Told
<1>5. \A id \in ScanId : id > jobs' => HistoricalIds(log'[id]) = {}
  BY <1>0, <1>1 DEF Reports, ScanId
<1> QED BY <1>0, <1>3, <1>4, <1>5 DEF Reports, ReportJob

LEMMA NextReports ==
    ASSUME RInv, [Next]_vars, NoReportIsNoList
    PROVE  Reports'
<1>1. CASE UNCHANGED vars \/ Change
  <2>1. UNCHANGED <<log, sarif, result, job, jobs>>
    BY <1>1 DEF vars, Change, disk, counts
  <2> QED BY <2>1 DEF RInv, Reports, ReportJob
<1>2. ASSUME NEW s \in Process, Kill(s) PROVE Reports'
  <2>1. Go(s, Idle) /\ UNCHANGED <<log, sarif, result, jobs>>
    BY <1>2 DEF Kill, disk
  <2>2. ReportMoves(s, Idle)
    BY <2>1, IdleReport, QuietReport
  <2> QED BY <2>1, <2>2, ReportKeeps
<1>3. ASSUME NEW s \in Process, Step(s) PROVE Reports'
  <2>1. jobs' = jobs
    BY <1>3, StepMoves DEF RInv, Moves
  <2> QED BY <1>3, <2>1, StepReports, ReportKeeps
<1>4. ASSUME NEW s \in Process, NEW req, ScanRefused(s, req) PROVE Reports'
  BY <1>4, RefusalReports
<1>5. ASSUME NEW s \in Process, NEW req, NEW id, Scan(s, req) \/ Watch(s, req) \/ Replay(s, id)
      PROVE  Reports'
  <2>1. jobs' = jobs + 1
    BY <1>5 DEF Scan, Watch, Replay, NextJob
  <2> QED BY <1>5, <2>1, BeginReports, ReportKeeps
<1> QED BY <1>1, <1>2, <1>3, <1>4, <1>5 DEF Next

LEMMA RInvHolds ==
    ASSUME NoReportIsNoList
    PROVE  Spec => []RInv
<1>1. Init => Reports
  <2> SUFFICES ASSUME Init PROVE Reports
    OBVIOUS
  <2>1. \A id \in ScanId : log[id] = <<>> /\ result[id].exit = 3
    BY DEF Init, NoResult
  <2>2. ~WentWell(<<>>) /\ HistoricalIds(<<>>) = {}
    BY DEF WentWell, RowsOf, HistoricalIds, Indices
  <2>3. \A id \in ScanId : Told(log[id], sarif[id], result[id].exit) /\ HistoricalIds(log[id]) = {}
    BY <2>1, <2>2 DEF Told
  <2> QED BY <2>3, IdleReport DEF Init, Reports
<1>2. SInv /\ Reports /\ [Next]_vars => Reports'
  BY NextReports DEF RInv
<1> QED BY <1>1, <1>2, SInvHolds, PTL DEF Spec, RInv

(* The log of a scan that went well has a report, and the report has every *)
(* finding the log tells of; a scan that failed is never logged as good.   *)
(* This holds for any number of scans, replays, lost rows and kills.       *)
THEOREM LogTellsTheReport ==
    ASSUME NoReportIsNoList
    PROVE  Spec => []LogMatchesReport
<1>1. Reports => LogMatchesReport
  <2>1. \A rows : WentWell(rows) <=> \E i \in DOMAIN rows : rows[i] = Completed("ok")
    BY DEF WentWell, RowsOf
  <2> QED BY <2>1 DEF Reports, Told, LogMatchesReport, Ids
<1> QED BY <1>1, RInvHolds, PTL DEF RInv
-----------------------------------------------------------------------------
(* That a replay tells the truth, and reproduces its scan.  The rows of a  *)
(* history are of findings its scan has found; a replay works on a history *)
(* that is closed, so it stays the one it has read; and while nothing has  *)
(* changed since a job began, what it has found and what is left to find   *)
(* are always all there is to find on its paths.                           *)
Verdicts == {"match", "mismatch"}

(* Every row of a finding is of one of the findings fs.                    *)
FindingRows == {"EvidencePacketBuilt", "PriorityScored", "FindingDeduped"}
FromFound(rows, fs) ==
    \A r \in RowsOf(rows) : r.event \in FindingRows =>
        \E f \in RowsOf(fs) : r \in {PacketBuilt(f), Scored(f), Deduped(f)}

StartedOn(rows, paths) ==
    \A r \in RowsOf(rows) : r.event = "ScanStarted" => r.paths = paths

(* What there is to find on the paths now, the legacy findings included.   *)
FindingsAt(file) == RowsOf(IF file = NoFile THEN LegacyFindings ELSE Analyzed(file))
Pending(todo) == UNION {FindingsAt(file) : file \in todo}
Total(paths) ==
    Pending(Affected(paths, FALSE) \cup (IF LegacyWanted THEN {NoFile} ELSE {}))

(* A verdict that came of a comparison.                                    *)
Judged(j) == j.pc = "done" /\ ~j.raised /\ j.verdict \in Verdicts

(* What a scan has found and what is left are all there is to find, as     *)
(* long as nothing has changed since it began.                             *)
OnItsWay(j) ==
    LET found == RowsOf(j.found)  left == RowsOf(j.left) IN
    /\ j.pc \in {"detected", "plan", "load"} => found = {} /\ left = {}
    /\ j.pc = "load" => j.todo = Affected(j.paths, FALSE)
    /\ j.pc = "analyze" => found \cup left \cup Pending(j.todo) = Total(j.paths)
    /\ j.pc \in {"dispatch", "report", "complete"} \/ Judged(j) => found = Total(j.paths)

ScanTells(j, rows) ==
    /\ j.at \in 0..edits
    /\ j.pc # "failing" =>
          /\ FromFound(rows, j.found) /\ StartedOn(rows, j.paths)
          /\ j.at = edits /\ j.cheap /\ ~j.fresh => OnItsWay(j)

ReplayTells(j, rows, res) ==
    /\ j.at \in 0..edits /\ j.cheap /\ ~j.fresh
    /\ Judged(j) => j.verdict = Verdict(j.rows, j.found)
    /\ j.pc # "done" \/ Judged(j) => j.paths = Anchor(j.rows).paths
    /\ WentWell(j.rows) => j.rows = rows /\ res.at <= j.at
    /\ j.at = edits => OnItsWay(j)

JobTells(j, history, outcome) ==
    /\ j.kind = "cli" => ScanTells(j, history[j.id])
    /\ j.kind = "replay" => j.id \in ScanId /\ ReplayTells(j, history[j.id], outcome[j.id])

ResultTells(rows, res) ==
    /\ IsList(res.found) /\ res.at \in 0..edits
    /\ WentWell(rows) =>
          /\ FromFound(rows, res.found)
          /\ res.plain /\ res.at = edits =>
                \A r \in RowsOf(rows) :
                    r.event = "ScanStarted" => RowsOf(res.found) = Total(r.paths)

Tales ==
    /\ edits \in Nat
    /\ \A s \in Process : JobTells(job[s], log, result)
    /\ \A id \in ScanId : ResultTells(log[id], result[id])
    /\ \A id \in ScanId : id > jobs => RowsOf(log[id]) = {}
-----------------------------------------------------------------------------
(* A set of positions has a first one.                                     *)
LEMMA EarliestIsFirst ==
    ASSUME NEW S, S \subseteq Nat, S # {}
    PROVE  Earliest(S) \in S /\ \A j \in S : Earliest(S) <= j
<1> DEFINE R == OpToRel(<, Nat)
<1>1. IsWellFoundedOn(R, Nat)
  BY NatLessThanWellFounded
<1>2. \A i, j \in S : j < i => <<j, i>> \in R
  BY DEF OpToRel
<1> HIDE DEF R
<1>3. PICK i \in S : \A j \in S : ~(<<j, i>> \in R)
  BY <1>1, WFMin
<1>4. \A j \in S : ~(j < i)
  BY <1>2, <1>3
<1>5. \A j \in S : i <= j
  BY <1>4
<1> QED BY <1>5 DEF Earliest

LEMMA PlacesAreNat ==
    ASSUME NEW rows, IsList(rows)
    PROVE  DOMAIN rows \subseteq Nat
  BY ListFacts

(* F says for the key of each finding which prompt it has.                 *)
IsGraph(F, fs) ==
    /\ F = [k \in DOMAIN F |-> F[k]]
    /\ DOMAIN F = {fs[i].key : i \in DOMAIN fs}
    /\ \A i \in DOMAIN fs : F[fs[i].key] = fs[i].hash

LEMMA GraphsAgree ==
    ASSUME NEW F, NEW G, NEW fs, NEW gs, IsGraph(F, fs), IsGraph(G, gs)
    PROVE  F = G <=> Asked(fs) = Asked(gs)
<1>1. ASSUME F = G PROVE Asked(fs) = Asked(gs)
  <2>1. ASSUME NEW i \in DOMAIN fs
        PROVE  \E j \in DOMAIN gs : gs[j].key = fs[i].key /\ gs[j].hash = fs[i].hash
    <3>1. fs[i].key \in {gs[j].key : j \in DOMAIN gs} /\ F[fs[i].key] = fs[i].hash
      BY <1>1 DEF IsGraph
    <3>2. PICK j \in DOMAIN gs : gs[j].key = fs[i].key
      BY <3>1
    <3> QED BY <1>1, <3>1, <3>2 DEF IsGraph
  <2>2. ASSUME NEW i \in DOMAIN gs
        PROVE  \E j \in DOMAIN fs : fs[j].key = gs[i].key /\ fs[j].hash = gs[i].hash
    <3>1. gs[i].key \in {fs[j].key : j \in DOMAIN fs} /\ G[gs[i].key] = gs[i].hash
      BY <1>1 DEF IsGraph
    <3>2. PICK j \in DOMAIN fs : fs[j].key = gs[i].key
      BY <3>1
    <3> QED BY <1>1, <3>1, <3>2 DEF IsGraph
  <2> QED BY <2>1, <2>2 DEF Asked
<1>2. ASSUME Asked(fs) = Asked(gs) PROVE F = G
  <2>1. ASSUME NEW i \in DOMAIN fs
        PROVE  \E j \in DOMAIN gs : gs[j].key = fs[i].key /\ gs[j].hash = fs[i].hash
    <3>1. <<fs[i].key, fs[i].hash>> \in Asked(gs)
      BY <1>2 DEF Asked
    <3> QED BY <3>1 DEF Asked
  <2>2. ASSUME NEW i \in DOMAIN gs
        PROVE  \E j \in DOMAIN fs : fs[j].key = gs[i].key /\ fs[j].hash = gs[i].hash
    <3>1. <<gs[i].key, gs[i].hash>> \in Asked(fs)
      BY <1>2 DEF Asked
    <3> QED BY <3>1 DEF Asked
  <2>3. DOMAIN F = DOMAIN G
    BY <2>1, <2>2 DEF IsGraph
  <2>4. \A k \in DOMAIN F : F[k] = G[k]
    BY <2>1 DEF IsGraph
  <2>5. F = [k \in DOMAIN F |-> F[k]] /\ G = [k \in DOMAIN G |-> G[k]]
    BY DEF IsGraph
  <2> QED BY <2>3, <2>4, <2>5
<1> QED BY <1>1, <1>2

LEMMA SameFinding ==
    ASSUME NEW fs, Named(fs), NEW i \in DOMAIN fs, NEW j \in DOMAIN fs
    PROVE  /\ fs[i].key = fs[j].key <=> fs[i].id = fs[j].id
           /\ fs[i].id = fs[j].id => fs[i].hash = fs[j].hash
  BY DEF Named

LEMMA ReprIsGraph ==
    ASSUME NEW found, IsList(found), Named(found)
    PROVE  IsGraph(ReprByKey(found), found)
<1> DEFINE of(k) == {i \in DOMAIN found : found[i].key = k}
           F == [k \in {found[i].key : i \in DOMAIN found} |-> found[Earliest(of(k))].hash]
<1>1. ASSUME NEW i \in DOMAIN found PROVE F[found[i].key] = found[i].hash
  <2>1. i \in of(found[i].key) /\ of(found[i].key) \subseteq Nat
    BY PlacesAreNat
  <2> DEFINE e == Earliest(of(found[i].key))
  <2>2. e \in of(found[i].key)
    BY <2>1, EarliestIsFirst
  <2>3. e \in DOMAIN found /\ found[e].key = found[i].key
    BY <2>2
  <2>4. F[found[i].key] = found[e].hash
    OBVIOUS
  <2> HIDE DEF e, F
  <2> QED BY <2>3, <2>4, SameFinding
<1>2. F = [k \in DOMAIN F |-> F[k]] /\ DOMAIN F = {found[i].key : i \in DOMAIN found}
  OBVIOUS
<1>3. ReprByKey(found) = F
  BY DEF ReprByKey
<1> HIDE DEF F
<1> QED BY <1>1, <1>2, <1>3 DEF IsGraph

(* What a history tells of a finding whose packet has a row.               *)
LEMMA HistoricalIsTrue ==
    ASSUME NEW rows, NEW fs, IsList(rows), FromFound(rows, fs), Intact(rows, fs), Named(fs),
           NEW i \in DOMAIN fs
    PROVE  /\ Historical(rows, fs[i].id).key = fs[i].key
           /\ Historical(rows, fs[i].id).hash = fs[i].hash
           /\ Historical(rows, fs[i].id).at \in Nat
           /\ fs[i].id \in HistoricalIds(rows)
<1> DEFINE id == fs[i].id
           built == OfFinding(rows, id) \cap Indices(rows, {"EvidencePacketBuilt"})
<1>1. PICK m \in Indices(rows, {"EvidencePacketBuilt"}) : rows[m].id = id
  BY DEF Intact, Builds
<1>2. m \in built /\ m \in OfFinding(rows, id)
  BY <1>1 DEF OfFinding, Indices
<1>3. built \subseteq Nat /\ OfFinding(rows, id) \subseteq Nat
  BY PlacesAreNat DEF OfFinding, Indices
<1>4. id \in HistoricalIds(rows)
  BY <1>1 DEF HistoricalIds, Indices
<1>5. Earliest(OfFinding(rows, id)) \in Nat /\ Earliest(built) \in built
  BY <1>2, <1>3, EarliestIsFirst
<1> DEFINE e == Earliest(built)
<1>6. /\ e \in DOMAIN rows /\ rows[e].event = "EvidencePacketBuilt" /\ rows[e].id = id
  BY <1>5 DEF OfFinding, Indices
<1>7. /\ Historical(rows, id).at = Earliest(OfFinding(rows, id))
      /\ Historical(rows, id).key = rows[e].key
      /\ Historical(rows, id).hash = rows[e].hash
  BY <1>2 DEF Historical
<1> HIDE DEF e, built
<1>8. PICK g \in RowsOf(fs) : rows[e] \in {PacketBuilt(g), Scored(g), Deduped(g)}
  BY <1>6 DEF FromFound, FindingRows, RowsOf
<1>9. rows[e] = PacketBuilt(g)
  BY <1>6, <1>8 DEF PacketBuilt, Scored, Deduped
<1>10. rows[e].id = g.id /\ rows[e].key = g.key /\ rows[e].hash = g.hash
  BY <1>9 DEF PacketBuilt
<1>11. PICK j \in DOMAIN fs : g = fs[j]
  BY DEF RowsOf
<1>12. fs[j].key = fs[i].key /\ fs[j].hash = fs[i].hash
  BY <1>6, <1>10, <1>11, SameFinding
<1> QED BY <1>4, <1>5, <1>7, <1>10, <1>11, <1>12

LEMMA HistIsGraph ==
    ASSUME NEW rows, NEW fs, IsList(rows), FromFound(rows, fs), Intact(rows, fs), Named(fs)
    PROVE  IsGraph(HistByKey(rows), fs)
<1> DEFINE hist == {Historical(rows, id) : id \in HistoricalIds(rows)}
           of(k) == {h \in hist : h.key = k}
           last(k) == CHOOSE h \in of(k) : \A g \in of(k) : g.at <= h.at
           F == [k \in {h.key : h \in hist} |-> last(k).hash]
<1>1. \A id \in HistoricalIds(rows) : \E i \in DOMAIN fs : fs[i].id = id
  <2> SUFFICES ASSUME NEW m \in Indices(rows, FindingRows)
               PROVE  \E i \in DOMAIN fs : fs[i].id = rows[m].id
    BY DEF HistoricalIds, FindingRows
  <2>1. rows[m] \in RowsOf(rows) /\ rows[m].event \in FindingRows
    BY DEF Indices, RowsOf
  <2>2. PICK g \in RowsOf(fs) : rows[m] \in {PacketBuilt(g), Scored(g), Deduped(g)}
    BY <2>1 DEF FromFound
  <2>3. rows[m].id = g.id
    BY <2>2 DEF PacketBuilt, Scored, Deduped
  <2> QED BY <2>3 DEF RowsOf
<1>2. ASSUME NEW h \in hist
      PROVE  \E i \in DOMAIN fs : h = Historical(rows, fs[i].id) /\ h.key = fs[i].key
  BY <1>1, HistoricalIsTrue
<1>3. ASSUME NEW i \in DOMAIN fs
      PROVE  LET h == Historical(rows, fs[i].id) IN
             /\ h \in hist /\ h.key = fs[i].key /\ h.hash = fs[i].hash /\ h.at \in Nat
  BY HistoricalIsTrue
<1> HIDE DEF hist
<1>4. ASSUME NEW i \in DOMAIN fs PROVE F[fs[i].key] = fs[i].hash
  <2> DEFINE k == fs[i].key
             h == Historical(rows, fs[i].id)
  <2>1. \A g \in of(k) : g = h
    <3> SUFFICES ASSUME NEW g \in of(k) PROVE g = h
      OBVIOUS
    <3>1. PICK j \in DOMAIN fs : g = Historical(rows, fs[j].id) /\ g.key = fs[j].key
      BY <1>2
    <3>2. fs[j].id = fs[i].id
      BY <3>1, <1>3, SameFinding
    <3> QED BY <3>1, <3>2
  <2>2. h \in of(k) /\ h.hash = fs[i].hash /\ h.at \in Nat /\ k \in {g.key : g \in hist}
    BY <1>3
  <2> HIDE DEF h, k
  <2>3. of(k) = {h} /\ h.at <= h.at
    BY <2>1, <2>2
  <2>4. last(k) = h
    BY <2>3
  <2>5. F[k] = last(k).hash
    BY <2>2
  <2> QED BY <2>2, <2>4, <2>5 DEF k
<1>5. {h.key : h \in hist} = {fs[i].key : i \in DOMAIN fs}
  BY <1>2, <1>3
<1>6. F = [k \in DOMAIN F |-> F[k]] /\ DOMAIN F = {h.key : h \in hist}
  OBVIOUS
<1>7. HistByKey(rows) = F
  BY DEF HistByKey, hist
<1> HIDE DEF F
<1> QED BY <1>4, <1>5, <1>6, <1>7 DEF IsGraph

(* What a verdict on intact rows says of the findings they are of.         *)
LEMMA VerdictIsTrue ==
    ASSUME NEW rows, NEW fs, NEW found, IsList(rows), IsList(found),
           FromFound(rows, fs), Intact(rows, fs), Named(fs), Named(found)
    PROVE  Verdict(rows, found) = "match" <=> Asked(fs) = Asked(found)
<1>1. IsGraph(HistByKey(rows), fs) /\ IsGraph(ReprByKey(found), found)
  BY HistIsGraph, ReprIsGraph
<1>2. HistByKey(rows) = ReprByKey(found) <=> Asked(fs) = Asked(found)
  BY <1>1, GraphsAgree
<1> QED BY <1>2 DEF Verdict

TInv == RInv /\ Tales
-----------------------------------------------------------------------------
LEMMA SameWorld ==
    ASSUME UNCHANGED world
    PROVE  /\ \A paths : Affected(paths, FALSE)' = Affected(paths, FALSE)
           /\ \A todo : Pending(todo)' = Pending(todo)
           /\ \A paths : Total(paths)' = Total(paths)
<1>1. UNCHANGED <<tree, git, policy, open>>
  BY DEF world
<1>2. \A paths : Affected(paths, FALSE)' = Affected(paths, FALSE)
  BY <1>1 DEF Affected, Graph, Tracked
<1>3. \A file : FindingsAt(file)' = FindingsAt(file)
  BY <1>1 DEF FindingsAt, LegacyFindings, Analyzed
<1>4. \A todo : Pending(todo)' = Pending(todo)
  BY <1>3 DEF Pending
<1>5. LegacyWanted' = LegacyWanted
  BY <1>1 DEF LegacyWanted
<1>6. \A paths : Total(paths)' = Total(paths)
  <2> SUFFICES ASSUME NEW paths PROVE Total(paths)' = Total(paths)
    OBVIOUS
  <2> DEFINE A == Affected(paths, FALSE)
             L == IF LegacyWanted THEN {NoFile} ELSE {}
  <2>1. A' = A /\ L' = L
    BY <1>2, <1>5
  <2>2. Total(paths) = Pending(A \cup L) /\ Total(paths)' = Pending(A \cup L)'
    BY DEF Total
  <2>3. Pending(A \cup L)' = UNION {FindingsAt(file)' : file \in (A \cup L)'}
    BY DEF Pending
  <2>4. Pending(A \cup L) = UNION {FindingsAt(file) : file \in A \cup L}
    BY DEF Pending
  <2>5. {FindingsAt(file)' : file \in (A \cup L)'} = {FindingsAt(file) : file \in A \cup L}
    BY <1>3, <2>1
  <2> HIDE DEF A, L
  <2> QED BY <2>2, <2>3, <2>4, <2>5
<1> QED BY <1>2, <1>4, <1>6

LEMMA PendingFacts ==
    /\ Pending({}) = {}
    /\ \A todo : \A file \in todo :
          Pending(todo) = FindingsAt(file) \cup Pending(todo \ {file})
  BY DEF Pending

LEMMA RowsAppended ==
    ASSUME NEW found, NEW f, IsList(found)
    PROVE  RowsOf(Append(found, f)) = RowsOf(found) \cup {f}
<1>1. /\ Len(found) \in Nat /\ DOMAIN found = 1..Len(found)
      /\ DOMAIN Append(found, f) = 1..(Len(found) + 1)
      /\ \A i \in 1..Len(found) : Append(found, f)[i] = found[i]
      /\ Append(found, f)[Len(found) + 1] = f
  BY AppendFacts
<1>2. ASSUME NEW i \in DOMAIN found
      PROVE  i \in DOMAIN Append(found, f) /\ Append(found, f)[i] = found[i]
  BY <1>1
<1>3. ASSUME NEW i \in DOMAIN Append(found, f)
      PROVE  \/ i \in DOMAIN found /\ Append(found, f)[i] = found[i]
             \/ Append(found, f)[i] = f
  BY <1>1
<1>4. Len(found) + 1 \in DOMAIN Append(found, f)
  BY <1>1
<1> QED BY <1>1, <1>2, <1>3, <1>4 DEF RowsOf

LEMMA RowsLeft ==
    ASSUME NEW left, NEW i \in DOMAIN left
    PROVE  RowsOf(left) = {left[i]} \cup RowsOf(Rest(left, i))
<1>1. /\ DOMAIN Rest(left, i) = DOMAIN left \ {i}
      /\ \A k \in DOMAIN left \ {i} : Rest(left, i)[k] = left[k]
  BY DEF Rest
<1> QED BY <1>1 DEF RowsOf

(* More findings, and rows of those.                                       *)
LEMMA FromMore ==
    ASSUME NEW rows, NEW more, NEW fs, NEW gs, FromFound(rows, fs), RowsOf(fs) \subseteq RowsOf(gs),
           \A r \in RowsOf(more) \ RowsOf(rows) : r.event \in FindingRows =>
               \E f \in RowsOf(gs) : r \in {PacketBuilt(f), Scored(f), Deduped(f)}
    PROVE  FromFound(more, gs)
  BY DEF FromFound

(* A replay that read a history that was closed still has it, and no step  *)
(* of another job touches the history of a scan at work.                   *)
LEMMA OthersTell ==
    ASSUME TInv, NEW s \in Process, NEW t \in Process, t # s,
           \A id \in ScanId : Own(s, id) \/ (log'[id] = log[id] /\ result'[id] = result[id])
    PROVE  JobTells(job[t], log', result')
<1> USE DEF TInv, RInv
<1>0. JobTells(job[t], log, result)
  BY DEF Tales
<1>1. CASE job[t].kind = "cli"
  <2>1. job[t].id \in ScanId /\ ~Own(s, job[t].id)
    BY <1>1, CliJob DEF SInv, OwnHistory, Own
  <2>2. log'[job[t].id] = log[job[t].id]
    BY <2>1
  <2> QED BY <1>0, <1>1, <2>2 DEF JobTells
<1>2. CASE job[t].kind = "replay"
  <2>1. job[t].id \in ScanId /\ ReplayTells(job[t], log[job[t].id], result[job[t].id])
    BY <1>0, <1>2 DEF JobTells
  <2>2. ASSUME WentWell(job[t].rows)
        PROVE  log'[job[t].id] = log[job[t].id] /\ result'[job[t].id] = result[job[t].id]
    <3>1. job[t].rows = log[job[t].id]
      BY <2>1, <2>2 DEF ReplayTells
    <3>2. ~Open(log[job[t].id])
      BY <2>2, <3>1, OpenIsNotWell
    <3>3. ~Own(s, job[t].id)
      BY <3>2, CliJob DEF Own
    <3> QED BY <2>1, <3>3
  <2>3. ReplayTells(job[t], log'[job[t].id], result'[job[t].id])
    BY <2>1, <2>2 DEF ReplayTells
  <2> QED BY <1>2, <2>1, <2>3 DEF JobTells
<1>3. CASE job[t].kind \notin {"cli", "replay"}
  BY <1>3 DEF JobTells
<1> QED BY <1>1, <1>2, <1>3

LEMMA TalesKept ==
    ASSUME TInv, UNCHANGED <<world, edits>>, NEW s \in Process,
           \A t \in Process : t # s => job'[t] = job[t],
           JobTells(job'[s], log', result'),
           \A id \in ScanId :
              \/ Own(s, id) /\ ResultTells(log'[id], result'[id])
              \/ log'[id] = log[id] /\ result'[id] = result[id],
           jobs' \in {jobs, jobs + 1}
    PROVE  Tales'
<1> USE DEF TInv, RInv
<1>1. /\ \A paths : Affected(paths, FALSE)' = Affected(paths, FALSE)
      /\ \A todo : Pending(todo)' = Pending(todo)
      /\ \A paths : Total(paths)' = Total(paths)
      /\ edits' = edits
  BY SameWorld
<1>2. ASSUME NEW t \in Process PROVE JobTells(job'[t], log', result')
  <2>1. \A id \in ScanId : Own(s, id) \/ (log'[id] = log[id] /\ result'[id] = result[id])
    OBVIOUS
  <2>2. CASE t # s
    <3>1. JobTells(job[t], log', result')
      BY <2>1, <2>2, OthersTell
    <3> QED BY <2>2, <3>1
  <2> QED BY <2>2
<1>3. \A t \in Process : JobTells(job[t], log, result)'
  <2> SUFFICES ASSUME NEW t \in Process PROVE JobTells(job[t], log, result)'
    OBVIOUS
  <2>1. JobTells(job'[t], log', result')
    BY <1>2
  <2>2. OnItsWay(job[t])' <=> OnItsWay(job'[t])
    BY <1>1 DEF OnItsWay, Judged
  <2> QED BY <1>1, <2>1, <2>2 DEF JobTells, ScanTells, ReplayTells, Judged, FromFound, StartedOn
<1>4. \A id \in ScanId : ResultTells(log'[id], result'[id])
  BY DEF Tales
<1>5. \A id \in ScanId : ResultTells(log[id], result[id])'
  <2> SUFFICES ASSUME NEW id \in ScanId PROVE ResultTells(log[id], result[id])'
    OBVIOUS
  <2> QED BY <1>1, <1>4 DEF ResultTells
<1>6. \A id \in ScanId : id > jobs' => RowsOf(log'[id]) = {}
  <2> SUFFICES ASSUME NEW id \in ScanId, id > jobs' PROVE RowsOf(log'[id]) = {}
    OBVIOUS
  <2>1. jobs \in Nat /\ id \in Nat /\ id > jobs
    BY DEF SInv, Typed, ScanId
  <2>2. ~Own(s, id)
    BY <2>1, CliJob DEF Own
  <2> QED BY <2>1, <2>2 DEF Tales
<1> QED BY <1>1, <1>3, <1>5, <1>6 DEF Tales
-----------------------------------------------------------------------------
(* A step of a job that goes on, with what it has found as it was.         *)
SameTale(j, n) ==
    /\ n.kind = j.kind /\ n.id = j.id /\ n.at = j.at /\ n.cheap = j.cheap
    /\ n.fresh = j.fresh /\ n.paths = j.paths /\ n.rows = j.rows

LEMMA GoesOnTelling ==
    ASSUME TInv, NEW s \in Process, NEW n, SameTale(job[s], n), n.found = job[s].found,
           job[s].pc \notin {"failing", "done"}, n.pc \notin {"failing", "done"},
           job[s].cheap /\ ~job[s].fresh /\ OnItsWay(job[s]) => OnItsWay(n)
    PROVE  JobTells(n, log, result)
<1>1. JobTells(job[s], log, result)
  BY DEF TInv, Tales
<1>2. ~Judged(n)
  BY DEF Judged
<1> QED BY <1>1, <1>2 DEF SameTale, JobTells, ScanTells, ReplayTells

LEMMA IdleTells == \A history, outcome : JobTells(Idle, history, outcome)
  BY DEF Idle, JobTells

LEMMA RaisedTells ==
    ASSUME TInv, NEW s \in Process, job[s].kind # "none"
    PROVE  JobTells(Raised(job[s]), log, result)
<1> USE DEF TInv, RInv
<1>0. JobTells(job[s], log, result)
  BY DEF Tales
<1>1. CASE job[s].kind = "cli"
  <2> DEFINE n == Raised(job[s])
  <2>1. n.kind = "cli" /\ n.pc = "failing" /\ n.at = job[s].at
    BY <1>1, StepFacts DEF Raised
  <2> HIDE DEF n
  <2>2. JobTells(n, log, result)
    BY <1>0, <1>1, <2>1 DEF JobTells, ScanTells
  <2> QED BY <2>2 DEF n
<1>2. CASE job[s].kind = "watch"
  BY <1>2, IdleTells DEF Raised
<1>3. CASE job[s].kind = "replay"
  <2> DEFINE n == Raised(job[s])
  <2>1. SameTale(job[s], n) /\ n.pc = "done" /\ n.raised
    BY <1>3, StepFacts DEF Raised, SameTale
  <2> HIDE DEF n
  <2>2. ~Judged(n) /\ (n.at = edits => OnItsWay(n))
    BY <2>1 DEF Judged, OnItsWay
  <2>3. JobTells(n, log, result)
    BY <1>0, <1>3, <2>1, <2>2 DEF JobTells, ReplayTells, SameTale
  <2> QED BY <2>3 DEF n
<1> QED BY <1>1, <1>2, <1>3, StepFacts

(* What a step of s may do to the tales.                                   *)
TaleOf(s) ==
    /\ JobTells(job'[s], log', result')
    /\ \A id \in ScanId : Own(s, id) => ResultTells(log'[id], result'[id])

LEMMA QuietTale ==
    ASSUME TInv, NEW s \in Process, NEW n, Go(s, n), JobTells(n, log, result),
           UNCHANGED <<log, result>>
    PROVE  TaleOf(s)
<1>1. job'[s] = n
  BY DEF TInv, RInv, SInv, Typed, Go
<1> QED BY <1>1 DEF TaleOf, TInv, Tales

LEMMA FaultTale ==
    ASSUME TInv, NEW s \in Process, job[s].kind # "none", Fault(s), UNCHANGED <<log, result>>
    PROVE  TaleOf(s)
  BY RaisedTells, QuietTale DEF Fault

(* A result stays true when a scan that is still open adds a row.          *)
LEMMA OpenTale ==
    ASSUME TInv, NEW id \in ScanId, ~WentWell(log'[id]), result' = result
    PROVE  ResultTells(log'[id], result'[id])
  BY DEF TInv, Tales, ResultTells

LEMMA FoundFrom ==
    ASSUME TInv, NEW s \in Process, NEW file, job[s].cheap
    PROVE  RowsOf(FindingsOf(s, file)) = FindingsAt(file)
  BY DEF FindingsOf, FindingsAt

LEMMA RowsWritten ==
    ASSUME TInv, NEW s \in Process, job[s].kind # "none",
           NEW rows, IsList(rows), Open(rows),
           NEW lost \in 0..Len(rows), NEW cut \in BOOLEAN, Emit(s, rows, lost, cut)
    PROVE  /\ job[s].kind # "cli" => log' = log
           /\ job[s].kind = "cli" =>
                 /\ job[s].id \in ScanId /\ Open(log[job[s].id])
                 /\ RowsOf(log'[job[s].id]) \subseteq RowsOf(log[job[s].id]) \cup RowsOf(rows)
                 /\ ~WentWell(log'[job[s].id])
<1> USE DEF TInv, RInv
<1>1. CASE job[s].kind # "cli"
  BY <1>1, StepFacts DEF Emit, Appended
<1>2. CASE job[s].kind = "cli"
  <2>1. job[s].id \in ScanId /\ Open(log[job[s].id])
    BY <1>2, CliJob
  <2>2. RowsOf(log'[job[s].id]) \subseteq RowsOf(log[job[s].id]) \cup RowsOf(rows)
    BY <1>2, EmitReport
  <2>3. ~WentWell(log'[job[s].id])
    BY <2>1, <2>2, OpenIsNotWell DEF WentWell
  <2> QED BY <1>2, <2>1, <2>2, <2>3
<1> QED BY <1>1, <1>2

LEMMA AnnounceTells ==
    ASSUME TInv, NEW s \in Process, Announce(s)
    PROVE  TaleOf(s)
<1> USE DEF TInv, RInv
<1> DEFINE n == [job[s] EXCEPT !.pc = "plan"]
           start == Started(job[s].paths, policy)
           rows == <<start>>
<1>1. PICK lost \in 0..1, cut \in BOOLEAN : Emit(s, rows, lost, cut)
  BY DEF Announce
<1>2. job[s].kind = "cli" /\ job[s].pc = "detected" /\ Go(s, n) /\ result' = result
  BY DEF Announce, At, Reports, ReportJob, Tales
<1>3. SameTale(job[s], n) /\ n.pc = "plan" /\ n.found = job[s].found /\ n.left = job[s].left
  BY StepFacts DEF SameTale
<1>4. job'[s] = n
  BY <1>2 DEF SInv, Typed, Go
<1>5. IsList(rows) /\ Open(rows) /\ Len(rows) = 1 /\ RowsOf(rows) = {start}
  BY Rows, ShortRows
<1>6. start.event = "ScanStarted" /\ start.paths = job[s].paths
  BY DEF Started
<1> HIDE DEF n, rows, start
<1>7. /\ job[s].id \in ScanId /\ ~WentWell(log'[job[s].id])
      /\ RowsOf(log'[job[s].id]) \subseteq RowsOf(log[job[s].id]) \cup {start}
  <2>1. lost \in 0..Len(rows) /\ job[s].kind # "none"
    BY <1>2, <1>5
  <2>2. Emit(s, rows, lost, cut) /\ IsList(rows) /\ Open(rows)
    BY <1>1, <1>5
  <2> QED BY <1>2, <1>5, <2>1, <2>2, RowsWritten
<1>8. ScanTells(job[s], log[job[s].id])
  BY <1>2 DEF Tales, JobTells
<1>9. FromFound(log'[job[s].id], n.found) /\ StartedOn(log'[job[s].id], n.paths)
  BY <1>2, <1>3, <1>6, <1>7, <1>8 DEF ScanTells, FromFound, FindingRows, StartedOn, SameTale
<1>10. OnItsWay(job[s]) => OnItsWay(n)
  BY <1>2, <1>3 DEF OnItsWay, Judged
<1>11. ScanTells(n, log'[n.id])
  BY <1>2, <1>3, <1>8, <1>9, <1>10 DEF ScanTells, SameTale
<1>12. JobTells(n, log', result')
  BY <1>2, <1>3, <1>11 DEF JobTells, SameTale
<1> QED BY <1>2, <1>4, <1>7, <1>12, OpenTale DEF TaleOf, Own

LEMMA RecordTells ==
    ASSUME TInv, NEW s \in Process, Record(s)
    PROVE  TaleOf(s)
<1> USE DEF TInv, RInv
<1>0. PICK i : RecordOf(s, i)
  BY RecordIsOne
<1> DEFINE f == job[s].left[i]
           n == Recorded(s, i)
           rows == <<PacketBuilt(f), Scored(f), Deduped(f)>>
<1>1. PICK lost \in 0..3, cut \in BOOLEAN : Emit(s, rows, lost, cut)
  BY <1>0 DEF RecordOf
<1>2. /\ job[s].pc = "analyze" /\ Go(s, n) /\ result' = result
      /\ job[s].kind \in {"cli", "watch", "replay"} /\ i \in DOMAIN job[s].left
  BY <1>0, StepFacts DEF Record, RecordOf, At
<1>3. /\ SameTale(job[s], n) /\ n.pc = "analyze" /\ n.found = Append(job[s].found, f)
      /\ n.left = Rest(job[s].left, i) /\ n.todo = job[s].todo
  BY <1>2, StepFacts DEF SameTale, Recorded
<1>4. job'[s] = n
  BY <1>2 DEF SInv, Typed, Go
<1>5. /\ IsList(rows) /\ Open(rows) /\ Len(rows) = 3
      /\ RowsOf(rows) = {PacketBuilt(f), Scored(f), Deduped(f)}
  BY Rows, ThreeRows
<1>6. RowsOf(n.found) = RowsOf(job[s].found) \cup {f}
  BY <1>3, RowsAppended DEF Reports, ReportJob
<1>7. RowsOf(job[s].left) = {f} \cup RowsOf(n.left)
  BY <1>2, <1>3, RowsLeft
<1>8. /\ PacketBuilt(f).event # "ScanStarted" /\ Scored(f).event # "ScanStarted"
      /\ Deduped(f).event # "ScanStarted"
  BY DEF PacketBuilt, Scored, Deduped
<1> HIDE DEF n, rows, f
<1>9. /\ job[s].kind # "cli" => log' = log
      /\ job[s].kind = "cli" =>
            /\ job[s].id \in ScanId /\ ~WentWell(log'[job[s].id])
            /\ RowsOf(log'[job[s].id]) \subseteq RowsOf(log[job[s].id]) \cup RowsOf(rows)
  <2>1. lost \in 0..Len(rows) /\ job[s].kind # "none"
    BY <1>2, <1>5
  <2>2. Emit(s, rows, lost, cut) /\ IsList(rows) /\ Open(rows)
    BY <1>1, <1>5
  <2> QED BY <2>1, <2>2, RowsWritten
<1>10. OnItsWay(job[s]) => OnItsWay(n)
  <2>1. RowsOf(n.found) \cup RowsOf(n.left) = RowsOf(job[s].found) \cup RowsOf(job[s].left)
    BY <1>6, <1>7
  <2>2. n.paths = job[s].paths /\ n.todo = job[s].todo
    BY <1>3 DEF SameTale
  <2> QED BY <1>2, <1>3, <2>1, <2>2 DEF OnItsWay, Judged
<1>11. JobTells(job[s], log, result)
  BY DEF Tales
<1>12. JobTells(n, log', result')
  <2>1. CASE job[s].kind = "cli"
    <3>1. ScanTells(job[s], log[job[s].id])
      BY <1>11, <2>1 DEF JobTells
    <3>2. FromFound(log'[job[s].id], n.found)
      <4>1. f \in RowsOf(n.found)
        BY <1>6
      <4> QED BY <1>2, <1>5, <1>6, <1>9, <2>1, <3>1, <4>1, FromMore DEF ScanTells
    <3>3. StartedOn(log'[job[s].id], n.paths)
      BY <1>2, <1>3, <1>5, <1>8, <1>9, <2>1, <3>1 DEF ScanTells, StartedOn, SameTale
    <3>4. ScanTells(n, log'[n.id])
      BY <1>2, <1>3, <1>10, <3>1, <3>2, <3>3 DEF ScanTells, SameTale
    <3> QED BY <1>3, <2>1, <3>4 DEF JobTells, SameTale
  <2>2. CASE job[s].kind = "replay"
    <3>1. log' = log /\ ~Judged(n)
      BY <1>3, <1>9, <2>2 DEF Judged
    <3>2. JobTells(n, log, result)
      BY <1>2, <1>3, <1>10, <1>11, <2>2, <3>1 DEF JobTells, ReplayTells, SameTale
    <3> QED BY <1>2, <3>1, <3>2
  <2>3. CASE job[s].kind = "watch"
    BY <1>3, <2>3 DEF JobTells, SameTale
  <2> QED BY <1>2, <2>1, <2>2, <2>3
<1> QED BY <1>2, <1>4, <1>9, <1>12, OpenTale DEF TaleOf, Own

LEMMA AnalyzeTells ==
    ASSUME TInv, NEW s \in Process, Analyze(s)
    PROVE  TaleOf(s)
<1> USE DEF TInv, RInv
<1>1. PICK file \in job[s].todo :
         Go(s, [job[s] EXCEPT !.todo = @ \ {file}, !.left = FindingsOf(s, file)])
  BY DEF Analyze
<1> DEFINE n == [job[s] EXCEPT !.todo = @ \ {file}, !.left = FindingsOf(s, file)]
<1>2. job[s].pc = "analyze" /\ DOMAIN job[s].left = {} /\ Go(s, n) /\ UNCHANGED <<log, result>>
  BY <1>1 DEF Analyze, At, disk
<1>3. /\ SameTale(job[s], n) /\ n.pc = "analyze" /\ n.found = job[s].found
      /\ n.left = FindingsOf(s, file) /\ n.todo = job[s].todo \ {file}
  BY <1>2, StepFacts DEF SameTale
<1> HIDE DEF n
<1>4. RowsOf(job[s].left) = {}
  BY <1>2 DEF RowsOf
<1>5. Pending(job[s].todo) = FindingsAt(file) \cup Pending(n.todo)
  BY <1>3, PendingFacts
<1>6. job[s].cheap => RowsOf(n.left) = FindingsAt(file)
  BY <1>3, FoundFrom
<1>7. job[s].cheap /\ OnItsWay(job[s]) => OnItsWay(n)
  BY <1>2, <1>3, <1>4, <1>5, <1>6 DEF OnItsWay, Judged, SameTale
<1>8. JobTells(n, log, result)
  BY <1>2, <1>3, <1>7, GoesOnTelling
<1> QED BY <1>2, <1>8, QuietTale

LEMMA DispatchTells ==
    ASSUME TInv, NEW s \in Process, Dispatch(s)
    PROVE  TaleOf(s)
<1> USE DEF TInv, RInv
<1>1. job[s].kind # "none" /\ job[s].pc = "dispatch" /\ UNCHANGED <<log, result>>
  BY StepFacts DEF Dispatch, At, EmitUnread
<1>2. CASE Fault(s)
  BY <1>1, <1>2, FaultTale
<1>3. CASE ~Fault(s) /\ job[s].kind = "watch"
  <2>1. Go(s, Idle)
    BY <1>3 DEF Dispatch
  <2> QED BY <1>1, <2>1, IdleTells, QuietTale
<1>4. CASE ~Fault(s) /\ job[s].kind = "cli"
  <2> DEFINE n == [job[s] EXCEPT !.pc = "report"]
  <2>1. Go(s, n)
    BY <1>4 DEF Dispatch
  <2>2. SameTale(job[s], n) /\ n.pc = "report" /\ n.found = job[s].found
    BY StepFacts DEF SameTale
  <2> HIDE DEF n
  <2>3. OnItsWay(job[s]) => OnItsWay(n)
    BY <1>1, <2>2 DEF OnItsWay, Judged, SameTale
  <2> QED BY <1>1, <2>1, <2>2, <2>3, GoesOnTelling, QuietTale
<1>5. CASE ~Fault(s) /\ job[s].kind = "replay"
  <2> DEFINE v == Verdict(job[s].rows, job[s].found)
             n == [job[s] EXCEPT !.pc = "done", !.verdict = v]
  <2>1. Go(s, n)
    BY <1>5 DEF Dispatch
  <2> HIDE DEF v
  <2>2. SameTale(job[s], n) /\ n.pc = "done" /\ n.found = job[s].found /\ n.verdict = v
    BY StepFacts DEF SameTale
  <2> HIDE DEF n
  <2>3. OnItsWay(job[s]) => OnItsWay(n)
    BY <1>1, <2>2 DEF OnItsWay, SameTale
  <2>4. JobTells(job[s], log, result)
    BY DEF Tales
  <2>5. JobTells(n, log, result)
    BY <1>1, <1>5, <2>2, <2>3, <2>4 DEF JobTells, ReplayTells, SameTale, v
  <2> QED BY <1>1, <2>1, <2>5, QuietTale
<1> QED BY <1>1, <1>2, <1>3, <1>4, <1>5, StepFacts

LEMMA CompleteTells ==
    ASSUME TInv, NEW s \in Process, Complete(s)
    PROVE  TaleOf(s)
<1> USE DEF TInv, RInv
<1> DEFINE rows == IF At(s, "complete") THEN <<Reported, Completed("ok")>>
                                        ELSE <<Completed("error")>>
<1>1. PICK lost \in 0..Len(rows), cut \in BOOLEAN : Emit(s, rows, lost, cut)
  BY DEF Complete
<1>2. PICK exit : Return(s, exit)
  BY DEF Complete
<1>3. job[s].kind = "cli" /\ job[s].pc \in {"complete", "failing"} /\ Go(s, Idle)
  BY <1>2 DEF Complete, Return, At, Reports, ReportJob
<1>4. job[s].id \in ScanId /\ Open(log[job[s].id])
  BY <1>3, CliJob
<1>5. IsList(rows)
  BY Rows
<1>6. RowsOf(rows) = IF At(s, "complete") THEN {Reported, Completed("ok")}
                                          ELSE {Completed("error")}
  BY ShortRows
<1> HIDE DEF rows
<1>7. RowsOf(log'[job[s].id]) \subseteq RowsOf(log[job[s].id]) \cup RowsOf(rows)
  BY <1>1, <1>3, <1>5, EmitReport
<1>8. /\ Reported.event \notin FindingRows \cup {"ScanStarted"}
      /\ \A status : Completed(status).event \notin FindingRows \cup {"ScanStarted"}
      /\ Completed("ok") # Completed("error")
  BY DEF Reported, Completed, FindingRows
<1>9. /\ result'[job[s].id].found = job[s].found
      /\ result'[job[s].id].plain = (job[s].cheap /\ ~job[s].fresh)
      /\ result'[job[s].id].at = job[s].at
  BY <1>2, <1>4 DEF Return, Reports
<1>10. ScanTells(job[s], log[job[s].id]) /\ IsList(job[s].found)
  BY <1>3 DEF Tales, JobTells, Reports, ReportJob
<1>11. ASSUME WentWell(log'[job[s].id])
       PROVE  /\ FromFound(log'[job[s].id], job[s].found)
              /\ job[s].cheap /\ ~job[s].fresh /\ job[s].at = edits =>
                    \A r \in RowsOf(log'[job[s].id]) :
                       r.event = "ScanStarted" => RowsOf(job[s].found) = Total(r.paths)
  <2>1. job[s].pc = "complete"
    BY <1>3, <1>4, <1>6, <1>7, <1>8, <1>11, OpenIsNotWell DEF WentWell, At
  <2>2. FromFound(log'[job[s].id], job[s].found) /\ StartedOn(log'[job[s].id], job[s].paths)
    BY <1>6, <1>7, <1>8, <1>10, <2>1 DEF ScanTells, FromFound, StartedOn, At
  <2>3. job[s].cheap /\ ~job[s].fresh /\ job[s].at = edits =>
            RowsOf(job[s].found) = Total(job[s].paths)
    BY <1>10, <2>1 DEF ScanTells, OnItsWay
  <2> QED BY <2>2, <2>3 DEF StartedOn
<1>12. ResultTells(log'[job[s].id], result'[job[s].id])
  BY <1>9, <1>10, <1>11 DEF ResultTells, ScanTells
<1>13. job'[s] = Idle
  BY <1>3 DEF SInv, Typed, Go
<1> QED BY <1>3, <1>12, <1>13, IdleTells DEF TaleOf, Own

LEMMA StepTells ==
    ASSUME TInv, NEW s \in Process, Step(s)
    PROVE  TaleOf(s)
<1> USE DEF TInv, RInv
<1>0. ~At(s, "idle") => job[s].kind # "none"
  BY StepFacts DEF At
<1>1. CASE InvalidationComputed(s)
  <2>1. job[s].kind # "none" /\ job[s].pc = "plan" /\ UNCHANGED <<log, result>>
    BY <1>0, <1>1 DEF InvalidationComputed, At, EmitUnread
  <2>2. CASE Fault(s)
    BY <2>1, <2>2, FaultTale
  <2>3. CASE ~Fault(s)
    <3> DEFINE todo == Affected(job[s].paths, job[s].fresh)
               n == [job[s] EXCEPT !.pc = "load", !.todo = todo]
    <3>1. Go(s, n)
      BY <1>1, <2>3 DEF InvalidationComputed
    <3> HIDE DEF todo
    <3>2. /\ SameTale(job[s], n) /\ n.pc = "load" /\ n.found = job[s].found
          /\ n.left = job[s].left /\ n.todo = todo
      BY StepFacts DEF SameTale
    <3>3. ~job[s].fresh => todo = Affected(job[s].paths, FALSE)
      BY DEF todo, Affected
    <3> HIDE DEF n
    <3>4. ~job[s].fresh /\ OnItsWay(job[s]) => OnItsWay(n)
      BY <2>1, <3>2, <3>3 DEF OnItsWay, Judged, SameTale
    <3> QED BY <2>1, <3>1, <3>2, <3>4, GoesOnTelling, QuietTale
  <2> QED BY <2>2, <2>3
<1>2. CASE LoadClusters(s)
  <2> DEFINE todo == IF LegacyWanted THEN job[s].todo \cup {NoFile} ELSE job[s].todo
             n == [job[s] EXCEPT !.pc = "analyze", !.store = clusters,
                                 !.todo = IF LegacyWanted THEN @ \cup {NoFile} ELSE @]
  <2>1. job[s].pc = "load" /\ Go(s, n) /\ UNCHANGED <<log, result>>
    BY <1>2 DEF LoadClusters, At, disk
  <2>2. /\ SameTale(job[s], n) /\ n.pc = "analyze" /\ n.found = job[s].found
        /\ n.left = job[s].left /\ n.todo = todo
    BY StepFacts DEF SameTale
  <2> HIDE DEF n
  <2>3. todo = job[s].todo \cup (IF LegacyWanted THEN {NoFile} ELSE {})
    OBVIOUS
  <2> HIDE DEF todo
  <2>4. OnItsWay(job[s]) => OnItsWay(n)
    BY <2>1, <2>2, <2>3 DEF OnItsWay, Judged, SameTale, Total
  <2> QED BY <2>1, <2>2, <2>4, GoesOnTelling, QuietTale
<1>3. CASE NoPacket(s)
  <2>1. job[s].kind # "none" /\ Go(s, Raised(job[s])) /\ UNCHANGED <<log, result>>
    BY <1>0, <1>3 DEF NoPacket, At, disk
  <2> QED BY <2>1, RaisedTells, QuietTale
<1>4. CASE SaveClusters(s) \/ SaveGivesUp(s)
  <2> DEFINE n == [job[s] EXCEPT !.pc = "dispatch"]
  <2>1. /\ job[s].pc = "analyze" /\ Go(s, n) /\ UNCHANGED <<log, result>>
        /\ DOMAIN job[s].left = {} /\ job[s].todo = {}
    BY <1>4 DEF SaveClusters, SaveGivesUp, Finished, At, EmitUnread
  <2>2. SameTale(job[s], n) /\ n.pc = "dispatch" /\ n.found = job[s].found
    BY StepFacts DEF SameTale
  <2> HIDE DEF n
  <2>3. RowsOf(job[s].left) = {} /\ Pending(job[s].todo) = {}
    BY <2>1, PendingFacts DEF RowsOf
  <2>4. OnItsWay(job[s]) => OnItsWay(n)
    BY <2>1, <2>2, <2>3 DEF OnItsWay, Judged, SameTale
  <2> QED BY <2>1, <2>2, <2>4, GoesOnTelling, QuietTale
<1>5. CASE SaveFails(s) \/ SarifFails(s)
  <2>1. job[s].kind # "none" /\ Fault(s) /\ UNCHANGED <<log, result>>
    BY <1>0, <1>5 DEF SaveFails, SarifFails, Finished, At, disk
  <2> QED BY <2>1, FaultTale
<1>6. CASE EmitSarif(s)
  <2> DEFINE n == [job[s] EXCEPT !.pc = "complete"]
  <2>1. job[s].pc = "report" /\ Go(s, n) /\ UNCHANGED <<log, result>>
    BY <1>6 DEF EmitSarif, At
  <2>2. SameTale(job[s], n) /\ n.pc = "complete" /\ n.found = job[s].found
    BY StepFacts DEF SameTale
  <2> HIDE DEF n
  <2>3. OnItsWay(job[s]) => OnItsWay(n)
    BY <2>1, <2>2 DEF OnItsWay, Judged, SameTale
  <2> QED BY <2>1, <2>2, <2>3, GoesOnTelling, QuietTale
<1> QED BY <1>1, <1>2, <1>3, <1>4, <1>5, <1>6, AnnounceTells, AnalyzeTells, RecordTells,
           DispatchTells, CompleteTells DEF Step

LEMMA BeginTells ==
    ASSUME TInv, NEW s \in Process, NEW req, NEW id,
           Scan(s, req) \/ Watch(s, req) \/ (id \in 1..jobs /\ Replay(s, id))
    PROVE  JobTells(job'[s], log', result')
<1> USE DEF TInv, RInv
<1>0. /\ UNCHANGED <<log, result>> /\ jobs' = jobs + 1 /\ jobs < MaxJobs
      /\ edits \in 0..edits
  BY DEF Scan, Watch, Replay, NextJob, disk, Tales
<1>1. \A n : Go(s, n) => job'[s] = n
  BY DEF SInv, Typed, Go
<1>2. RowsOf(<<>>) = {}
  BY DEF RowsOf
<1>3. CASE Scan(s, req)
  <2> DEFINE seen == Detect(req.full)
             n == [Idle EXCEPT !.pc = "detected", !.kind = "cli", !.id = jobs',
                               !.cheap = req.cheap, !.paths = seen.paths,
                               !.fresh = seen.fresh \/ req.fresh, !.at = edits]
  <2>1. Go(s, n)
    BY <1>3 DEF Scan
  <2> HIDE DEF seen
  <2>2. /\ n.kind = "cli" /\ n.id = jobs' /\ n.pc = "detected" /\ n.found = <<>>
        /\ n.left = <<>> /\ n.at = edits
    BY DEF Idle
  <2>3. job'[s] = n
    BY <1>1, <2>1
  <2> HIDE DEF n
  <2>4. RowsOf(log[jobs']) = {}
    BY <1>0, ScanFunnelAssumption DEF SInv, Typed, ScanId, Tales
  <2>5. FromFound(log[jobs'], n.found) /\ StartedOn(log[jobs'], n.paths) /\ OnItsWay(n)
    BY <1>2, <2>2, <2>4 DEF FromFound, StartedOn, OnItsWay, Judged
  <2> QED BY <1>0, <2>2, <2>3, <2>5 DEF JobTells, ScanTells
<1>4. CASE Watch(s, req)
  <2> DEFINE n == [Idle EXCEPT !.pc = "plan", !.kind = "watch", !.id = jobs',
                               !.paths = req.batch, !.fresh = req.fresh, !.at = edits]
  <2>1. Go(s, n)
    BY <1>4 DEF Watch
  <2>2. n.kind = "watch"
    BY DEF Idle
  <2>3. job'[s] = n
    BY <1>1, <2>1
  <2> QED BY <2>2, <2>3 DEF JobTells
<1>5. CASE id \in 1..jobs /\ Replay(s, id)
  <2> DEFINE seen == [Idle EXCEPT !.kind = "replay", !.id = id, !.rows = log[id], !.at = edits]
             ended(v) == [seen EXCEPT !.pc = "done", !.verdict = v]
             goes(P) == [seen EXCEPT !.pc = "plan", !.paths = P]
             n == IF ~HasAnchor(log[id]) THEN ended("missing_anchor")
                  ELSE IF Anchor(log[id]).policy # policy THEN ended("version_drift")
                  ELSE goes(Anchor(log[id]).paths)
             Read(m) == /\ m.kind = "replay" /\ m.id = id /\ m.rows = log[id] /\ m.at = edits
                        /\ m.found = <<>> /\ m.left = <<>> /\ m.cheap /\ ~m.fresh
  <2>1. Go(s, n)
    BY <1>5 DEF Replay
  <2>2. job'[s] = n
    BY <1>1, <2>1
  <2>3. Read(seen) /\ {"pc", "verdict", "paths"} \subseteq DOMAIN seen
    BY DEF Idle
  <2> HIDE DEF seen
  <2>4. /\ \A v : Read(ended(v)) /\ ended(v).pc = "done" /\ ended(v).verdict = v
        /\ \A P : Read(goes(P)) /\ goes(P).pc = "plan" /\ goes(P).paths = P
    BY <2>3
  <2>5. /\ Read(n)
        /\ \/ n.pc = "done" /\ n.verdict \in {"missing_anchor", "version_drift"}
           \/ n.pc = "plan" /\ n.paths = Anchor(log[id]).paths
    BY <2>4
  <2> HIDE DEF n
  <2>6. ~Judged(n) /\ OnItsWay(n)
    BY <1>2, <2>5 DEF Judged, Verdicts, OnItsWay
  <2>7. id \in ScanId
    BY <1>5, ScanFunnelAssumption DEF SInv, Typed, ScanId
  <2>8. result[id].at \in 0..edits /\ edits \in Nat
    BY <2>7 DEF Tales, ResultTells
  <2>9. ReplayTells(n, log[id], result[id])
    BY <1>0, <2>5, <2>6, <2>8 DEF ReplayTells
  <2> QED BY <1>0, <2>2, <2>5, <2>7, <2>9 DEF JobTells
<1> QED BY <1>3, <1>4, <1>5

LEMMA RefusalTells ==
    ASSUME TInv, NEW s \in Process, NEW req, ScanRefused(s, req)
    PROVE  Tales'
<1> USE DEF TInv, RInv
<1>0. /\ UNCHANGED <<log, job, world, edits>> /\ jobs' = jobs + 1 /\ jobs < MaxJobs
      /\ result' = [result EXCEPT ![jobs'] = [NoResult EXCEPT !.exit = 1]]
  BY DEF ScanRefused, NextJob, disk
<1>1. jobs \in Nat /\ jobs' \in ScanId /\ jobs' > jobs
  BY <1>0, ScanFunnelAssumption DEF SInv, Typed, ScanId
<1>2. RowsOf(log[jobs']) = {} /\ ~WentWell(log[jobs'])
  BY <1>1 DEF Tales, WentWell
<1>3. /\ DOMAIN result = ScanId
      /\ \A id \in ScanId : id # jobs' => result'[id] = result[id]
      /\ result'[jobs'] = [NoResult EXCEPT !.exit = 1]
  BY <1>0, <1>1 DEF Reports
<1>4. ResultTells(log[jobs'], result'[jobs'])
  <2>1. IsList(<<>>)
    BY EmptySeq, ListOf
  <2> QED BY <1>2, <1>3, <2>1 DEF ResultTells, NoResult, Tales
<1>5. ASSUME NEW t \in Process PROVE JobTells(job[t], log, result')
  <2>1. JobTells(job[t], log, result)
    BY DEF Tales
  <2>2. CASE job[t].kind = "replay"
    <3>1. job[t].id \in ScanId /\ ReplayTells(job[t], log[job[t].id], result[job[t].id])
      BY <2>1, <2>2 DEF JobTells
    <3>2. WentWell(job[t].rows) => result'[job[t].id] = result[job[t].id]
      BY <1>2, <1>3, <3>1 DEF ReplayTells
    <3> QED BY <2>2, <3>1, <3>2 DEF JobTells, ReplayTells
  <2>3. CASE job[t].kind # "replay"
    BY <2>1, <2>3 DEF JobTells
  <2> QED BY <2>2, <2>3
<1>6. /\ \A paths : Affected(paths, FALSE)' = Affected(paths, FALSE)
      /\ \A todo : Pending(todo)' = Pending(todo)
      /\ \A paths : Total(paths)' = Total(paths)
      /\ edits' = edits
  BY <1>0, SameWorld
<1>7. ASSUME NEW t \in Process PROVE JobTells(job[t], log, result)'
  <2>1. JobTells(job'[t], log', result')
    BY <1>0, <1>5
  <2>2. OnItsWay(job[t])' <=> OnItsWay(job'[t])
    BY <1>6 DEF OnItsWay, Judged
  <2> QED BY <1>6, <2>1, <2>2 DEF JobTells, ScanTells, ReplayTells, Judged, FromFound, StartedOn
<1>8. ASSUME NEW id \in ScanId PROVE ResultTells(log[id], result[id])'
  <2>1. ResultTells(log[id], result'[id])
    BY <1>3, <1>4 DEF Tales
  <2> QED BY <1>0, <1>6, <2>1 DEF ResultTells
<1>9. \A id \in ScanId : id > jobs' => RowsOf(log[id])' = {}
  BY <1>0, <1>1 DEF Tales, ScanId
<1> QED BY <1>6, <1>7, <1>8, <1>9 DEF Tales

(* A change of the sources makes every tale an old one.                    *)
LEMMA ChangeTells ==
    ASSUME TInv, Change
    PROVE  Tales'
<1>0. UNCHANGED <<log, job, result, jobs>> /\ edits' = edits + 1 /\ edits \in Nat
  BY DEF TInv, Tales, Change, disk
<1>1. ASSUME NEW at \in 0..edits PROVE at \in 0..edits' /\ at # edits'
  BY <1>0
<1>2. ASSUME NEW t \in Process PROVE JobTells(job[t], log, result)'
  <2>1. JobTells(job[t], log, result)
    BY DEF TInv, Tales
  <2>2. job'[t] = job[t] /\ log' = log /\ result' = result
    BY <1>0
  <2>3. CASE job[t].kind = "cli"
    <3>1. ScanTells(job[t], log[job[t].id])
      BY <2>1, <2>3 DEF JobTells
    <3>2. job[t].at \in 0..edits' /\ job[t].at # edits'
      BY <1>1, <3>1 DEF ScanTells
    <3> QED BY <2>2, <2>3, <3>1, <3>2 DEF JobTells, ScanTells, FromFound, StartedOn
  <2>4. CASE job[t].kind = "replay"
    <3>1. job[t].id \in ScanId /\ ReplayTells(job[t], log[job[t].id], result[job[t].id])
      BY <2>1, <2>4 DEF JobTells
    <3>2. job[t].at \in 0..edits' /\ job[t].at # edits'
      BY <1>1, <3>1 DEF ReplayTells
    <3> QED BY <2>2, <2>4, <3>1, <3>2 DEF JobTells, ReplayTells, Judged
  <2>5. CASE job[t].kind \notin {"cli", "replay"}
    BY <2>2, <2>5 DEF JobTells
  <2> QED BY <2>3, <2>4, <2>5
<1>3. ASSUME NEW id \in ScanId PROVE ResultTells(log[id], result[id])'
  <2>1. ResultTells(log[id], result[id])
    BY DEF TInv, Tales
  <2>2. result[id].at \in 0..edits' /\ result[id].at # edits'
    BY <1>1, <2>1 DEF ResultTells
  <2> QED BY <1>0, <2>1, <2>2 DEF ResultTells
<1>4. \A id \in ScanId : id > jobs' => RowsOf(log[id])' = {}
  BY <1>0 DEF TInv, Tales
<1> QED BY <1>0, <1>2, <1>3, <1>4 DEF Tales

LEMMA StepLeaves ==
    ASSUME NEW s \in Process, Step(s)
    PROVE  UNCHANGED <<world, edits>>
  BY DEF Step, Announce, InvalidationComputed, LoadClusters, Analyze, Record, NoPacket,
         SaveClusters, SaveGivesUp, SaveFails, Dispatch, EmitSarif, SarifFails, Complete, counts

LEMMA NextTells ==
    ASSUME TInv, [Next]_vars, NoReportIsNoList
    PROVE  Tales'
<1> USE DEF TInv, RInv
<1>0. \A s \in Process : \A n :
         Go(s, n) => job'[s] = n /\ \A t \in Process : t # s => job'[t] = job[t]
  BY DEF SInv, Typed, Go
<1>1. CASE UNCHANGED vars
  <2>1. UNCHANGED <<world, log, job, result, jobs, edits>>
    BY <1>1 DEF vars, disk, counts
  <2>2. /\ \A paths : Affected(paths, FALSE)' = Affected(paths, FALSE)
        /\ \A todo : Pending(todo)' = Pending(todo)
        /\ \A paths : Total(paths)' = Total(paths)
    BY <2>1, SameWorld
  <2>3. ASSUME NEW t \in Process PROVE JobTells(job[t], log, result)'
    <3>1. JobTells(job'[t], log', result')
      BY <2>1 DEF Tales
    <3>2. OnItsWay(job[t])' <=> OnItsWay(job'[t])
      BY <2>2 DEF OnItsWay, Judged
    <3> QED BY <2>1, <2>2, <3>1, <3>2 DEF JobTells, ScanTells, ReplayTells, Judged, FromFound, StartedOn
  <2>4. ASSUME NEW id \in ScanId PROVE ResultTells(log[id], result[id])'
    BY <2>1, <2>2 DEF ResultTells, Tales
  <2> QED BY <2>1, <2>3, <2>4 DEF Tales
<1>2. ASSUME NEW s \in Process, Kill(s) PROVE Tales'
  <2>1. Go(s, Idle) /\ UNCHANGED <<world, log, result, jobs, edits>>
    BY <1>2 DEF Kill, disk
  <2>2. JobTells(job'[s], log', result')
    BY <1>0, <2>1, IdleTells
  <2> QED BY <1>0, <2>1, <2>2, TalesKept
<1>3. ASSUME NEW s \in Process, Step(s) PROVE Tales'
  <2>1. PICK n : Moves(s, n)
    BY <1>3, StepMoves
  <2>2. PICK m : ReportMoves(s, m)
    BY <1>3, StepReports
  <2>3. UNCHANGED <<world, edits>>
    BY <1>3, StepLeaves
  <2>4. TaleOf(s)
    BY <1>3, StepTells
  <2>5. \A id \in ScanId :
           \/ Own(s, id) /\ ResultTells(log'[id], result'[id])
           \/ log'[id] = log[id] /\ result'[id] = result[id]
    BY <2>2, <2>4 DEF ReportMoves, TaleOf
  <2>6. \A t \in Process : t # s => job'[t] = job[t]
    BY <1>0, <2>1 DEF Moves
  <2> QED BY <2>1, <2>3, <2>4, <2>5, <2>6, TalesKept DEF Moves, TaleOf
<1>4. ASSUME NEW s \in Process, NEW req, NEW id,
             Scan(s, req) \/ Watch(s, req) \/ (id \in 1..jobs /\ Replay(s, id))
      PROVE  Tales'
  <2>1. UNCHANGED <<world, edits, log, result>> /\ jobs' = jobs + 1
    BY <1>4 DEF Scan, Watch, Replay, NextJob, disk
  <2>2. JobTells(job'[s], log', result')
    BY <1>4, BeginTells
  <2>3. \A t \in Process : t # s => job'[t] = job[t]
    BY <1>0, <1>4 DEF Scan, Watch, Replay
  <2> QED BY <2>1, <2>2, <2>3, TalesKept
<1>5. CASE Change
  BY <1>5, ChangeTells
<1>6. ASSUME NEW s \in Process, NEW req, ScanRefused(s, req) PROVE Tales'
  BY <1>6, RefusalTells
<1> QED BY <1>1, <1>2, <1>3, <1>4, <1>5, <1>6 DEF Next
-----------------------------------------------------------------------------
LEMMA TInvHolds ==
    ASSUME NoReportIsNoList
    PROVE  Spec => []TInv
<1>1. Init => Tales
  <2> SUFFICES ASSUME Init PROVE Tales
    OBVIOUS
  <2>1. \A id \in ScanId : log[id] = <<>> /\ result[id] = NoResult
    BY DEF Init
  <2>2. ~WentWell(<<>>) /\ RowsOf(<<>>) = {}
    BY DEF WentWell, RowsOf
  <2>3. IsList(<<>>) /\ edits = 0 /\ \A s \in Process : job[s] = Idle
    BY EmptySeq, ListOf DEF Init
  <2>4. \A id \in ScanId : ResultTells(log[id], result[id])
    BY <2>1, <2>2, <2>3 DEF ResultTells, NoResult
  <2> QED BY <2>1, <2>2, <2>3, <2>4, IdleTells DEF Tales
<1>2. TInv /\ [Next]_vars => Tales'
  BY NextTells
<1>3. Spec => []RInv
  BY RInvHolds
<1> QED BY <1>1, <1>2, <1>3, PTL DEF Spec, TInv

(* The verdict of a replay that compared its run with a scan that went     *)
(* well, of which no packet lost its row, is "match" exactly when the run  *)
(* asked what the scan asked, whatever came in between.                    *)
THEOREM ReplayTellsTheTruth ==
    ASSUME NoReportIsNoList
    PROVE  Spec => []ReplayIsTrue
<1>1. TInv => ReplayIsTrue
  <2> SUFFICES ASSUME TInv, NEW s \in Process, Compared(s)
               PROVE  job[s].verdict = "match" <=>
                         Asked(result[job[s].id].found) = Asked(job[s].found)
    BY DEF ReplayIsTrue
  <2> USE DEF TInv, RInv
  <2>1. /\ job[s].id \in ScanId /\ IsList(job[s].found) /\ Judged(job[s])
        /\ ReplayTells(job[s], log[job[s].id], result[job[s].id])
        /\ WentWell(job[s].rows)
    BY DEF Tales, JobTells, Compared, Reports, ReportJob, Judged, Verdicts, WentWell, RowsOf
  <2>2. job[s].rows = log[job[s].id] /\ job[s].verdict = Verdict(job[s].rows, job[s].found)
    BY <2>1 DEF ReplayTells
  <2>3. IsList(job[s].rows) /\ FromFound(job[s].rows, result[job[s].id].found)
    BY <2>1, <2>2 DEF SInv, Typed, Tales, ResultTells
  <2> QED BY <2>1, <2>2, <2>3, VerdictIsTrue DEF Compared
<1> QED BY <1>1, TInvHolds, PTL

(* Scans and replays are deterministic: a replay of a scan with the        *)
(* default analyzers that was not fresh says "match" as long as no file,   *)
(* commit, policy or legacy finding has changed since that scan began,     *)
(* whatever other scans, replays and kills have done to clusters and log.  *)
THEOREM ReplayIsReproducible ==
    ASSUME NoReportIsNoList
    PROVE  Spec => []ReplayReproduces
<1>1. TInv /\ ReplayIsTrue => ReplayReproduces
  <2> SUFFICES ASSUME TInv, ReplayIsTrue, NEW s \in Process, Compared(s),
                      result[job[s].id].plain, edits = result[job[s].id].at
               PROVE  job[s].verdict = "match"
    BY DEF ReplayReproduces
  <2> USE DEF TInv, RInv
  <2> DEFINE rows == job[s].rows
             id == job[s].id
             anchor == Anchor(rows)
  <2>1. /\ id \in ScanId /\ Judged(job[s]) /\ ReplayTells(job[s], log[id], result[id])
        /\ WentWell(rows) /\ HasAnchor(rows)
    BY DEF Tales, JobTells, Compared, Judged, Verdicts, WentWell, RowsOf, Intact
  <2>2. /\ rows = log[id] /\ result[id].at <= job[s].at /\ job[s].at \in 0..edits
        /\ edits \in Nat
    BY <2>1 DEF ReplayTells, Tales
  <2>3. job[s].at = edits
    BY <2>2
  <2>4. RowsOf(job[s].found) = Total(anchor.paths)
    BY <2>1, <2>3 DEF ReplayTells, OnItsWay
  <2>5. anchor \in RowsOf(rows) /\ anchor.event = "ScanStarted"
    <3>1. IsList(rows)
      BY <2>1, <2>2 DEF SInv, Typed
    <3>2. Indices(rows, {"ScanStarted"}) \subseteq Nat
      BY <3>1, PlacesAreNat DEF Indices
    <3>3. Earliest(Indices(rows, {"ScanStarted"})) \in Indices(rows, {"ScanStarted"})
      BY <2>1, <3>2, EarliestIsFirst DEF HasAnchor
    <3> QED BY <3>3 DEF Anchor, Indices, RowsOf
  <2>6. RowsOf(result[id].found) = Total(anchor.paths)
    BY <2>1, <2>2, <2>5 DEF Tales, ResultTells
  <2>7. \A fs : Asked(fs) = {<<f.key, f.hash>> : f \in RowsOf(fs)}
    BY DEF Asked, RowsOf
  <2>8. Asked(result[id].found) = Asked(job[s].found)
    BY <2>4, <2>6, <2>7
  <2> QED BY <2>8 DEF ReplayIsTrue
<1> QED BY <1>1, TInvHolds, ReplayTellsTheTruth, PTL
=============================================================================
