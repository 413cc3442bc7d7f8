------------------------- MODULE LLMSchedulerProofs -------------------------
(***************************************************************************)
(* Safety of the LLM scheduler for every number of scans, batch sizes,     *)
(* pool sizes and budgets.                                                 *)
(***************************************************************************)
EXTENDS LLMScheduler, TLAPS, FiniteSetTheorems

Entry == [by : Job, fresh : BOOLEAN]

(* Only a job that got past the gates has asked, and a decision ends it. *)
AskedIsPromoted ==
    /\ \A j \in asked : pc[j] \in {"open", "write", "replace", "done"}
    /\ \A j \in Job : pc[j] \in {"open", "write", "replace"} => j \in asked
    /\ \A j \in Job : decision[j] # "none" => pc[j] = "done"

(* The jobs whose key is theirs: they passed the dedup gate. *)
Past(j) == pc[j] \in {"lookup", "evict", "budget", "promote", "call", "raised"} \/ j \in asked

(* A key is recorded before its job goes on, and only for one job. *)
KeyIsOwned ==
    /\ \A j \in Job : Past(j) => Key(j) \in calledHashes[ScanOf(j)]
    /\ \A i, j \in Job : Past(i) /\ Past(j) /\ ScanOf(i) = ScanOf(j) /\ Key(i) = Key(j) => i = j

(* Every name and every open file leads to an inode of its hash, and what  *)
(* an inode holds, if it can be read at all, was asked for its hash.       *)
FilesHoldTheirHash ==
    /\ \A h \in Hash : tmp[h] # NoFile => packet[tmp[h]].hash = h
    /\ \A h \in Hash : final[h] # NoFile => packet[final[h]].hash = h
    /\ \A j \in Job : fd[j] # NoFile => packet[fd[j]].hash = packet[j].hash
    /\ \A j \in Job : pc[j] = "write" => fd[j] # NoFile
    /\ \A i \in Job : data[i] \notin {Empty, Garbled} =>
          data[i].by \in asked /\ packet[data[i].by].hash = packet[i].hash

(* The invariant of the gates and the cache. *)
GInv == TypeOK /\ AskedIsPromoted /\ KeyIsOwned /\ FilesHoldTheirHash /\ CacheHitIsGenuine

(* A job is of a scan. *)
LEMMA JobScan == \A j \in Job : ScanOf(j) \in Scan
  BY DEF Job, ScanOf

(* A key is a hash with one of the two tiers. *)
LEMMA KeyType == ASSUME TypeOK
                 PROVE  \A j \in Job : /\ Key(j) \in Hash \X {"small", "large"}
                                       /\ packet[j].hash \in Hash
  BY DEF TypeOK, Packet, Key, Tier

(* The scheduler begins in the invariant. *)
LEMMA GInit == Init => GInv
  <1> SUFFICES ASSUME Init PROVE GInv
    OBVIOUS
  <1>1. TypeOK
    BY SchedulerAssumption DEF Init, TypeOK, Decision, Pc
  <1>2. AskedIsPromoted /\ KeyIsOwned /\ CacheHitIsGenuine
    BY DEF Init, AskedIsPromoted, KeyIsOwned, CacheHitIsGenuine, Past
  <1>3. FilesHoldTheirHash
    BY DEF Init, FilesHoldTheirHash
  <1> QED
    BY <1>1, <1>2, <1>3 DEF GInv

JobTypes == /\ pc \in [Job -> Pc]
            /\ decision \in [Job -> Decision]
            /\ answer \in [Job -> Job \cup {NoAnswer}]

(* A job that goes on keeps the types of the job variables. *)
LEMMA GotoType ==
  ASSUME TypeOK, NEW j \in Job, NEW to \in Pc, Goto(j, to)
  PROVE  JobTypes'
  BY DEF TypeOK, Goto, JobTypes

(* So does one that ends. *)
LEMMA DecideType ==
  ASSUME TypeOK, NEW j \in Job, NEW d \in Decision, NEW a \in Job \cup {NoAnswer}, Decide(j, d, a)
  PROVE  JobTypes'
  <1>1. "done" \in Pc
    BY DEF Pc
  <1> QED
    BY <1>1 DEF TypeOK, Decide, JobTypes

(* Every step keeps the types. *)
LEMMA TypeStep == TypeOK /\ [Next]_vars => TypeOK'
  <1> SUFFICES ASSUME TypeOK, [Next]_vars PROVE TypeOK'
    OBVIOUS
  <1>0. NoAnswer \in Job \cup {NoAnswer}
    OBVIOUS
  <1>1. ASSUME NEW j \in Job, Start(j) PROVE TypeOK'
    <2>1. JobTypes'
      BY <1>1, <1>0, GotoType, DecideType DEF Start, Pc, Decision
    <2> QED
      BY <1>1, <2>1 DEF TypeOK, JobTypes, Start, scanVars, cacheVars
  <1>2. ASSUME NEW j \in Job, Dedup(j) PROVE TypeOK'
    <2>1. JobTypes'
      BY <1>2, <1>0, GotoType, DecideType DEF Dedup, Pc, Decision
    <2>2. calledHashes' \in [Scan -> SUBSET (Hash \X {"small", "large"})]
      BY <1>2, KeyType, JobScan DEF TypeOK, Dedup
    <2> QED
      BY <1>2, <2>1, <2>2 DEF TypeOK, JobTypes, Dedup, scanVars, cacheVars
  <1>3. ASSUME NEW j \in Job, Lookup(j) PROVE TypeOK'
    <2>1. Readable(j) => Cached(packet[j].hash).by \in Job
      BY KeyType DEF TypeOK, Readable, Cached
    <2>2. JobTypes'
      BY <1>3, <2>1, GotoType, DecideType DEF Lookup, Pc, Decision
    <2> QED
      BY <1>3, <2>2 DEF TypeOK, JobTypes, Lookup, scanVars, cacheVars
  <1>4. ASSUME NEW j \in Job, Evict(j) PROVE TypeOK'
    <2>1. JobTypes'
      BY <1>4, GotoType DEF Evict, Pc
    <2> QED
      BY <1>4, <2>1, KeyType DEF TypeOK, JobTypes, Evict, scanVars
  <1>5. ASSUME NEW j \in Job, Budget(j) PROVE TypeOK'
    <2>1. JobTypes'
      BY <1>5, <1>0, GotoType, DecideType DEF Budget, Pc, Decision
    <2>2. remaining' \in [Scan -> Int]
      BY <1>5, JobScan DEF TypeOK, Budget
    <2> QED
      BY <1>5, <2>1, <2>2 DEF TypeOK, JobTypes, Budget, scanVars, cacheVars
  <1>6. ASSUME NEW j \in Job, Promote(j) PROVE TypeOK'
    <2>1. JobTypes'
      BY <1>6, <1>0, GotoType, DecideType DEF Promote, Pc, Decision
    <2> QED
      BY <1>6, <2>1 DEF TypeOK, JobTypes, Promote, scanVars, cacheVars
  <1>7. ASSUME NEW j \in Job, Call(j) PROVE TypeOK'
    <2>1. JobTypes'
      BY <1>7, <1>0, GotoType, DecideType DEF Call, Pc, Decision
    <2> QED
      BY <1>7, <2>1 DEF TypeOK, JobTypes, Call, scanVars, cacheVars
  <1>8. ASSUME NEW j \in Job, PutOpen(j) PROVE TypeOK'
    <2>1. JobTypes'
      BY <1>8, GotoType DEF PutOpen, Pc
    <2> QED
      BY <1>8, <2>1, KeyType DEF TypeOK, JobTypes, PutOpen, scanVars
  <1>9. ASSUME NEW j \in Job, PutWrite(j) PROVE TypeOK'
    <2>1. JobTypes'
      BY <1>9, GotoType DEF PutWrite, Pc
    <2>2. [by |-> j, fresh |-> TRUE] \in [by : Job, fresh : BOOLEAN]
      OBVIOUS
    <2>3. PICK c \in [by : Job, fresh : BOOLEAN] \cup {Empty, Garbled} :
              data' = [data EXCEPT ![fd[j]] = c]
      BY <1>9, <2>2 DEF PutWrite
    <2>4. data' \in [Job -> [by : Job, fresh : BOOLEAN] \cup {Empty, Garbled}]
      BY <2>3 DEF TypeOK
    <2> QED
      BY <1>9, <2>1, <2>4 DEF TypeOK, JobTypes, PutWrite, scanVars
  <1>10. ASSUME NEW j \in Job, PutReplace(j) PROVE TypeOK'
    <2>1. JobTypes'
      BY <1>10, DecideType DEF PutReplace, Promoted, Decision
    <2> QED
      BY <1>10, <2>1, KeyType DEF TypeOK, JobTypes, PutReplace, scanVars
  <1>11. ASSUME NEW j \in Job, PutFails(j) PROVE TypeOK'
    <2>1. JobTypes'
      BY <1>11, DecideType DEF PutFails, Decision
    <2> QED
      BY <1>11, <2>1, KeyType DEF TypeOK, JobTypes, PutFails, scanVars
  <1>12. ASSUME NEW s \in Scan, Collect(s) PROVE TypeOK'
    <2>1. /\ status' \in [Scan -> {"collecting", "returned", "raised", "dead"}]
          /\ collected' \in [Scan -> Nat]
      BY <1>12 DEF TypeOK, Collect
    <2> QED
      BY <1>12, <2>1 DEF TypeOK, Collect, jobVars, cacheVars
  <1>13. ASSUME NEW s \in Scan, Kill(s) PROVE TypeOK'
    BY <1>13 DEF TypeOK, Kill, jobVars, cacheVars
  <1>14. ASSUME NEW h \in Hash, Expire(h) PROVE TypeOK'
    <2>1. data' \in [Job -> [by : Job, fresh : BOOLEAN] \cup {Empty, Garbled}]
      BY <1>14 DEF TypeOK, Expire, Cached
    <2> QED
      BY <1>14, <2>1 DEF TypeOK, Expire, scanVars, jobVars
  <1>15. CASE UNCHANGED vars
    BY <1>15 DEF TypeOK, vars, scanVars, jobVars, cacheVars
  <1> QED
    BY <1>1, <1>2, <1>3, <1>4, <1>5, <1>6, <1>7, <1>8, <1>9, <1>10, <1>11, <1>12,
       <1>13, <1>14, <1>15 DEF Next, Work

(* Only promoted jobs ask, whatever the step. *)
LEMMA AskedStep == TypeOK /\ AskedIsPromoted /\ [Next]_vars => AskedIsPromoted'
  <1> SUFFICES ASSUME TypeOK /\ AskedIsPromoted, [Next]_vars PROVE AskedIsPromoted'
    OBVIOUS
  <1> USE JobScan
  <1>1. ASSUME NEW j \in Job, Start(j) PROVE AskedIsPromoted'
    BY <1>1 DEF TypeOK, AskedIsPromoted, Start, Goto, Decide, scanVars, cacheVars
  <1>2. ASSUME NEW j \in Job, Dedup(j) PROVE AskedIsPromoted'
    BY <1>2 DEF TypeOK, AskedIsPromoted, Dedup, Goto, Decide, scanVars, cacheVars
  <1>3. ASSUME NEW j \in Job, Lookup(j) PROVE AskedIsPromoted'
    BY <1>3 DEF TypeOK, AskedIsPromoted, Lookup, Goto, Decide, scanVars, cacheVars
  <1>4. ASSUME NEW j \in Job, Evict(j) PROVE AskedIsPromoted'
    BY <1>4 DEF TypeOK, AskedIsPromoted, Evict, Goto, scanVars
  <1>5. ASSUME NEW j \in Job, Budget(j) PROVE AskedIsPromoted'
    BY <1>5 DEF TypeOK, AskedIsPromoted, Budget, Goto, Decide, scanVars, cacheVars
  <1>6. ASSUME NEW j \in Job, Promote(j) PROVE AskedIsPromoted'
    BY <1>6 DEF TypeOK, AskedIsPromoted, Promote, Goto, Decide, scanVars, cacheVars
  <1>7. ASSUME NEW j \in Job, Call(j) PROVE AskedIsPromoted'
    BY <1>7 DEF TypeOK, AskedIsPromoted, Call, Goto, Decide, scanVars, cacheVars
  <1>8. ASSUME NEW j \in Job, PutOpen(j) PROVE AskedIsPromoted'
    BY <1>8 DEF TypeOK, AskedIsPromoted, PutOpen, Goto, scanVars
  <1>9. ASSUME NEW j \in Job, PutWrite(j) PROVE AskedIsPromoted'
    BY <1>9 DEF TypeOK, AskedIsPromoted, PutWrite, Goto, scanVars
  <1>10. ASSUME NEW j \in Job, PutReplace(j) PROVE AskedIsPromoted'
    BY <1>10 DEF TypeOK, AskedIsPromoted, PutReplace, Decide, Promoted, scanVars
  <1>11. ASSUME NEW j \in Job, PutFails(j) PROVE AskedIsPromoted'
    BY <1>11 DEF TypeOK, AskedIsPromoted, PutFails, Decide, scanVars
  <1>12. ASSUME NEW s \in Scan, Collect(s) PROVE AskedIsPromoted'
    BY <1>12 DEF TypeOK, AskedIsPromoted, Collect, jobVars, cacheVars
  <1>13. ASSUME NEW s \in Scan, Kill(s) PROVE AskedIsPromoted'
    BY <1>13 DEF TypeOK, AskedIsPromoted, Kill, jobVars, cacheVars
  <1>14. ASSUME NEW h \in Hash, Expire(h) PROVE AskedIsPromoted'
    BY <1>14 DEF TypeOK, AskedIsPromoted, Expire, Cached, scanVars, jobVars
  <1>15. CASE UNCHANGED vars
    BY <1>15 DEF TypeOK, AskedIsPromoted, vars, scanVars, jobVars, cacheVars
  <1> QED
    BY <1>1, <1>2, <1>3, <1>4, <1>5, <1>6, <1>7, <1>8, <1>9, <1>10, <1>11, <1>12,
       <1>13, <1>14, <1>15 DEF Next, Work

(* A key stays with its job. *)
LEMMA KeyStep == TypeOK /\ AskedIsPromoted /\ KeyIsOwned /\ [Next]_vars => KeyIsOwned'
  <1> SUFFICES ASSUME TypeOK /\ AskedIsPromoted /\ KeyIsOwned, [Next]_vars PROVE KeyIsOwned'
    OBVIOUS
  <1> USE JobScan
  <1>1. ASSUME NEW j \in Job, Start(j) PROVE KeyIsOwned'
    BY <1>1 DEF TypeOK, AskedIsPromoted, KeyIsOwned, Past, Key, Start, Goto, Decide, scanVars, cacheVars
  <1>2. ASSUME NEW j \in Job, Dedup(j) PROVE KeyIsOwned'
    BY <1>2 DEF TypeOK, AskedIsPromoted, KeyIsOwned, Past, Key, Dedup, Goto, Decide, scanVars, cacheVars
  <1>3. ASSUME NEW j \in Job, Lookup(j) PROVE KeyIsOwned'
    BY <1>3 DEF TypeOK, AskedIsPromoted, KeyIsOwned, Past, Key, Lookup, Goto, Decide, scanVars, cacheVars
  <1>4. ASSUME NEW j \in Job, Evict(j) PROVE KeyIsOwned'
    BY <1>4 DEF TypeOK, AskedIsPromoted, KeyIsOwned, Past, Key, Evict, Goto, scanVars
  <1>5. ASSUME NEW j \in Job, Budget(j) PROVE KeyIsOwned'
    BY <1>5 DEF TypeOK, AskedIsPromoted, KeyIsOwned, Past, Key, Budget, Goto, Decide, scanVars, cacheVars
  <1>6. ASSUME NEW j \in Job, Promote(j) PROVE KeyIsOwned'
    BY <1>6 DEF TypeOK, AskedIsPromoted, KeyIsOwned, Past, Key, Promote, Goto, Decide, scanVars, cacheVars
  <1>7. ASSUME NEW j \in Job, Call(j) PROVE KeyIsOwned'
    BY <1>7 DEF TypeOK, AskedIsPromoted, KeyIsOwned, Past, Key, Call, Goto, Decide, scanVars, cacheVars
  <1>8. ASSUME NEW j \in Job, PutOpen(j) PROVE KeyIsOwned'
    BY <1>8 DEF TypeOK, AskedIsPromoted, KeyIsOwned, Past, Key, PutOpen, Goto, scanVars
  <1>9. ASSUME NEW j \in Job, PutWrite(j) PROVE KeyIsOwned'
    BY <1>9 DEF TypeOK, AskedIsPromoted, KeyIsOwned, Past, Key, PutWrite, Goto, scanVars
  <1>10. ASSUME NEW j \in Job, PutReplace(j) PROVE KeyIsOwned'
    BY <1>10 DEF TypeOK, AskedIsPromoted, KeyIsOwned, Past, Key, PutReplace, Decide, Promoted, scanVars
  <1>11. ASSUME NEW j \in Job, PutFails(j) PROVE KeyIsOwned'
    BY <1>11 DEF TypeOK, AskedIsPromoted, KeyIsOwned, Past, Key, PutFails, Decide, scanVars
  <1>12. ASSUME NEW s \in Scan, Collect(s) PROVE KeyIsOwned'
    BY <1>12 DEF TypeOK, AskedIsPromoted, KeyIsOwned, Past, Key, Collect, jobVars, cacheVars
  <1>13. ASSUME NEW s \in Scan, Kill(s) PROVE KeyIsOwned'
    BY <1>13 DEF TypeOK, AskedIsPromoted, KeyIsOwned, Past, Key, Kill, jobVars, cacheVars
  <1>14. ASSUME NEW h \in Hash, Expire(h) PROVE KeyIsOwned'
    BY <1>14 DEF TypeOK, AskedIsPromoted, KeyIsOwned, Past, Key, Expire, Cached, scanVars, jobVars
  <1>15. CASE UNCHANGED vars
    BY <1>15 DEF TypeOK, AskedIsPromoted, KeyIsOwned, Past, Key, vars, scanVars, jobVars, cacheVars
  <1> QED
    BY <1>1, <1>2, <1>3, <1>4, <1>5, <1>6, <1>7, <1>8, <1>9, <1>10, <1>11, <1>12,
       <1>13, <1>14, <1>15 DEF Next, Work

(* Files go on holding what was asked for their hash. *)
LEMMA FilesStep == TypeOK /\ AskedIsPromoted /\ FilesHoldTheirHash /\ [Next]_vars => FilesHoldTheirHash'
  <1> SUFFICES ASSUME TypeOK /\ AskedIsPromoted /\ FilesHoldTheirHash, [Next]_vars PROVE FilesHoldTheirHash'
    OBVIOUS
  <1> USE SchedulerAssumption, JobScan, KeyType
  <1>1. ASSUME NEW j \in Job, Start(j) PROVE FilesHoldTheirHash'
    BY <1>1 DEF TypeOK, AskedIsPromoted, FilesHoldTheirHash, Start, Goto, Decide, scanVars, cacheVars
  <1>2. ASSUME NEW j \in Job, Dedup(j) PROVE FilesHoldTheirHash'
    BY <1>2 DEF TypeOK, AskedIsPromoted, FilesHoldTheirHash, Dedup, Goto, Decide, scanVars, cacheVars
  <1>3. ASSUME NEW j \in Job, Lookup(j) PROVE FilesHoldTheirHash'
    BY <1>3 DEF TypeOK, AskedIsPromoted, FilesHoldTheirHash, Lookup, Goto, Decide, scanVars, cacheVars
  <1>4. ASSUME NEW j \in Job, Evict(j) PROVE FilesHoldTheirHash'
    BY <1>4 DEF TypeOK, AskedIsPromoted, FilesHoldTheirHash, Evict, Goto, scanVars
  <1>5. ASSUME NEW j \in Job, Budget(j) PROVE FilesHoldTheirHash'
    BY <1>5 DEF TypeOK, AskedIsPromoted, FilesHoldTheirHash, Budget, Goto, Decide, scanVars, cacheVars
  <1>6. ASSUME NEW j \in Job, Promote(j) PROVE FilesHoldTheirHash'
    BY <1>6 DEF TypeOK, AskedIsPromoted, FilesHoldTheirHash, Promote, Goto, Decide, scanVars, cacheVars
  <1>7. ASSUME NEW j \in Job, Call(j) PROVE FilesHoldTheirHash'
    BY <1>7 DEF TypeOK, AskedIsPromoted, FilesHoldTheirHash, Call, Goto, Decide, scanVars, cacheVars
  <1>8. ASSUME NEW j \in Job, PutOpen(j) PROVE FilesHoldTheirHash'
    BY <1>8 DEF TypeOK, AskedIsPromoted, FilesHoldTheirHash, PutOpen, Goto, scanVars
  <1>9. ASSUME NEW j \in Job, PutWrite(j) PROVE FilesHoldTheirHash'
    BY <1>9 DEF TypeOK, AskedIsPromoted, FilesHoldTheirHash, PutWrite, Goto, scanVars
  <1>10. ASSUME NEW j \in Job, PutReplace(j) PROVE FilesHoldTheirHash'
    BY <1>10 DEF TypeOK, AskedIsPromoted, FilesHoldTheirHash, PutReplace, Decide, Promoted, scanVars
  <1>11. ASSUME NEW j \in Job, PutFails(j) PROVE FilesHoldTheirHash'
    BY <1>11 DEF TypeOK, AskedIsPromoted, FilesHoldTheirHash, PutFails, Decide, scanVars
  <1>12. ASSUME NEW s \in Scan, Collect(s) PROVE FilesHoldTheirHash'
    BY <1>12 DEF TypeOK, AskedIsPromoted, FilesHoldTheirHash, Collect, jobVars, cacheVars
  <1>13. ASSUME NEW s \in Scan, Kill(s) PROVE FilesHoldTheirHash'
    BY <1>13 DEF TypeOK, AskedIsPromoted, FilesHoldTheirHash, Kill, jobVars, cacheVars
  <1>14. ASSUME NEW h \in Hash, Expire(h) PROVE FilesHoldTheirHash'
    BY <1>14 DEF TypeOK, AskedIsPromoted, FilesHoldTheirHash, Expire, Cached, scanVars, jobVars
  <1>15. CASE UNCHANGED vars
    BY <1>15 DEF TypeOK, AskedIsPromoted, FilesHoldTheirHash, vars, scanVars, jobVars, cacheVars
  <1> QED
    BY <1>1, <1>2, <1>3, <1>4, <1>5, <1>6, <1>7, <1>8, <1>9, <1>10, <1>11, <1>12,
       <1>13, <1>14, <1>15 DEF Next, Work

(* A cache hit is genuine. *)
LEMMA HitStep == TypeOK /\ AskedIsPromoted /\ FilesHoldTheirHash /\ CacheHitIsGenuine /\ [Next]_vars => CacheHitIsGenuine'
  <1> SUFFICES ASSUME TypeOK /\ AskedIsPromoted /\ FilesHoldTheirHash /\ CacheHitIsGenuine, [Next]_vars PROVE CacheHitIsGenuine'
    OBVIOUS
  <1> USE JobScan, KeyType
  <1>1. ASSUME NEW j \in Job, Start(j) PROVE CacheHitIsGenuine'
    <2>1. /\ UNCHANGED <<packet, asked>>
          /\ \/ UNCHANGED <<decision, answer>>
             \/ \E d \in Decision \ {"promoted_cache_hit"} :
                   /\ decision' = [decision EXCEPT ![j] = d]
                   /\ answer' = [answer EXCEPT ![j] = NoAnswer]
      BY <1>1 DEF Start, Goto, Decide, Decision
    <2> QED
      BY <2>1 DEF TypeOK, CacheHitIsGenuine, Key
  <1>2. ASSUME NEW j \in Job, Dedup(j) PROVE CacheHitIsGenuine'
    BY <1>2 DEF TypeOK, AskedIsPromoted, FilesHoldTheirHash, CacheHitIsGenuine, Key, Dedup, Goto, Decide, scanVars, cacheVars
  <1>3. ASSUME NEW j \in Job, Lookup(j) PROVE CacheHitIsGenuine'
    <2> DEFINE e == Cached(packet[j].hash)
    <2>1. Readable(j) => e.by \in asked /\ packet[e.by].hash = packet[j].hash
      <3> SUFFICES ASSUME Readable(j)
                   PROVE  e.by \in asked /\ packet[e.by].hash = packet[j].hash
        OBVIOUS
      <3> DEFINE f == final[packet[j].hash]
      <3>1. f # NoFile /\ e = data[f] /\ e \notin {Empty, Garbled}
        BY DEF Readable, Cached
      <3>2. f \in Job /\ packet[f].hash = packet[j].hash
        BY <3>1 DEF TypeOK, FilesHoldTheirHash
      <3> QED
        BY <3>1, <3>2 DEF FilesHoldTheirHash
    <2>2. Readable(j) => Key(e.by) = Key(j)
      BY <2>1 DEF Readable, Key
    <2>3. /\ UNCHANGED <<packet, asked>>
          /\ \/ UNCHANGED <<decision, answer>>
             \/ /\ Readable(j)
                /\ decision' = [decision EXCEPT ![j] = "promoted_cache_hit"]
                /\ answer' = [answer EXCEPT ![j] = e.by]
      BY <1>3 DEF Lookup, Goto, Decide
    <2> HIDE DEF e
    <2> QED
      BY <2>1, <2>2, <2>3 DEF TypeOK, CacheHitIsGenuine, Key
  <1>4. ASSUME NEW j \in Job, Evict(j) PROVE CacheHitIsGenuine'
    BY <1>4 DEF TypeOK, AskedIsPromoted, FilesHoldTheirHash, CacheHitIsGenuine, Key, Evict, Goto, scanVars
  <1>5. ASSUME NEW j \in Job, Budget(j) PROVE CacheHitIsGenuine'
    BY <1>5 DEF TypeOK, AskedIsPromoted, FilesHoldTheirHash, CacheHitIsGenuine, Key, Budget, Goto, Decide, scanVars, cacheVars
  <1>6. ASSUME NEW j \in Job, Promote(j) PROVE CacheHitIsGenuine'
    BY <1>6 DEF TypeOK, AskedIsPromoted, FilesHoldTheirHash, CacheHitIsGenuine, Key, Promote, Goto, Decide, scanVars, cacheVars
  <1>7. ASSUME NEW j \in Job, Call(j) PROVE CacheHitIsGenuine'
    BY <1>7 DEF TypeOK, AskedIsPromoted, FilesHoldTheirHash, CacheHitIsGenuine, Key, Call, Goto, Decide, scanVars, cacheVars
  <1>8. ASSUME NEW j \in Job, PutOpen(j) PROVE CacheHitIsGenuine'
    BY <1>8 DEF TypeOK, AskedIsPromoted, FilesHoldTheirHash, CacheHitIsGenuine, Key, PutOpen, Goto, scanVars
  <1>9. ASSUME NEW j \in Job, PutWrite(j) PROVE CacheHitIsGenuine'
    BY <1>9 DEF TypeOK, AskedIsPromoted, FilesHoldTheirHash, CacheHitIsGenuine, Key, PutWrite, Goto, scanVars
  <1>10. ASSUME NEW j \in Job, PutReplace(j) PROVE CacheHitIsGenuine'
    BY <1>10 DEF TypeOK, AskedIsPromoted, FilesHoldTheirHash, CacheHitIsGenuine, Key, PutReplace, Decide, Promoted, scanVars
  <1>11. ASSUME NEW j \in Job, PutFails(j) PROVE CacheHitIsGenuine'
    BY <1>11 DEF TypeOK, AskedIsPromoted, FilesHoldTheirHash, CacheHitIsGenuine, Key, PutFails, Decide, scanVars
  <1>12. ASSUME NEW s \in Scan, Collect(s) PROVE CacheHitIsGenuine'
    BY <1>12 DEF TypeOK, AskedIsPromoted, FilesHoldTheirHash, CacheHitIsGenuine, Key, Collect, jobVars, cacheVars
  <1>13. ASSUME NEW s \in Scan, Kill(s) PROVE CacheHitIsGenuine'
    BY <1>13 DEF TypeOK, AskedIsPromoted, FilesHoldTheirHash, CacheHitIsGenuine, Key, Kill, jobVars, cacheVars
  <1>14. ASSUME NEW h \in Hash, Expire(h) PROVE CacheHitIsGenuine'
    BY <1>14 DEF TypeOK, AskedIsPromoted, FilesHoldTheirHash, CacheHitIsGenuine, Key, Expire, Cached, scanVars, jobVars
  <1>15. CASE UNCHANGED vars
    BY <1>15 DEF TypeOK, AskedIsPromoted, FilesHoldTheirHash, CacheHitIsGenuine, Key, vars, scanVars, jobVars, cacheVars
  <1> QED
    BY <1>1, <1>2, <1>3, <1>4, <1>5, <1>6, <1>7, <1>8, <1>9, <1>10, <1>11, <1>12,
       <1>13, <1>14, <1>15 DEF Next, Work

(* What was spent and what remains make up the budget. *)
BudgetKept ==
    \A s \in Scan : /\ remaining[s] \in Nat /\ IsFiniteSet(Spent(s))
                    /\ remaining[s] + Cardinality(Spent(s)) = CallBudget

(* A job was turned away only where nothing remains. *)
RefusedAtZero ==
    \A j \in Job : decision[j] = "skipped_budget_exceeded" => remaining[ScanOf(j)] = 0

BInv == TypeOK /\ AskedIsPromoted /\ BudgetKept /\ RefusedAtZero

(* A step that neither takes a unit of the budget nor turns a job away. *)
UnitsKept ==
    /\ UNCHANGED remaining
    /\ \A i \in Job : /\ Took(i)' <=> Took(i)
                      /\ decision'[i] = "skipped_budget_exceeded" =>
                            decision[i] = "skipped_budget_exceeded"

(* Only the step at the budget gate takes units or turns jobs away. *)
LEMMA OtherSteps ==
  ASSUME TypeOK, AskedIsPromoted, [Next]_vars, \A j \in Job : ~Budget(j)
  PROVE  UnitsKept
  <1>1. ASSUME NEW j \in Job, Start(j) PROVE UnitsKept
    BY <1>1 DEF TypeOK, AskedIsPromoted, UnitsKept, Took, Start, Goto, Decide
  <1>2. ASSUME NEW j \in Job, Dedup(j) PROVE UnitsKept
    BY <1>2 DEF TypeOK, AskedIsPromoted, UnitsKept, Took, Dedup, Goto, Decide
  <1>3. ASSUME NEW j \in Job, Lookup(j) PROVE UnitsKept
    BY <1>3 DEF TypeOK, AskedIsPromoted, UnitsKept, Took, Lookup, Goto, Decide
  <1>4. ASSUME NEW j \in Job, Evict(j) PROVE UnitsKept
    BY <1>4 DEF TypeOK, AskedIsPromoted, UnitsKept, Took, Evict, Goto
  <1>5. ASSUME NEW j \in Job, Promote(j) PROVE UnitsKept
    BY <1>5 DEF TypeOK, AskedIsPromoted, UnitsKept, Took, Promote, Goto, Decide
  <1>6. ASSUME NEW j \in Job, Call(j) PROVE UnitsKept
    BY <1>6 DEF TypeOK, AskedIsPromoted, UnitsKept, Took, Call, Goto, Decide
  <1>7. ASSUME NEW j \in Job, PutOpen(j) PROVE UnitsKept
    BY <1>7 DEF TypeOK, AskedIsPromoted, UnitsKept, Took, PutOpen, Goto
  <1>8. ASSUME NEW j \in Job, PutWrite(j) PROVE UnitsKept
    BY <1>8 DEF TypeOK, AskedIsPromoted, UnitsKept, Took, PutWrite, Goto
  <1>9. ASSUME NEW j \in Job, PutReplace(j) PROVE UnitsKept
    BY <1>9 DEF TypeOK, AskedIsPromoted, UnitsKept, Took, PutReplace, Decide, Promoted
  <1>10. ASSUME NEW j \in Job, PutFails(j) PROVE UnitsKept
    BY <1>10 DEF TypeOK, AskedIsPromoted, UnitsKept, Took, PutFails, Decide
  <1>11. ASSUME NEW s \in Scan, Collect(s) PROVE UnitsKept
    BY <1>11 DEF TypeOK, AskedIsPromoted, UnitsKept, Took, Collect, jobVars
  <1>12. ASSUME NEW s \in Scan, Kill(s) PROVE UnitsKept
    BY <1>12 DEF TypeOK, AskedIsPromoted, UnitsKept, Took, Kill, jobVars
  <1>13. ASSUME NEW h \in Hash, Expire(h) PROVE UnitsKept
    BY <1>13 DEF TypeOK, AskedIsPromoted, UnitsKept, Took, Expire, jobVars
  <1>14. CASE UNCHANGED vars
    BY <1>14 DEF UnitsKept, Took, vars, jobVars
  <1> QED
    BY <1>1, <1>2, <1>3, <1>4, <1>5, <1>6, <1>7, <1>8, <1>9, <1>10, <1>11, <1>12,
       <1>13, <1>14 DEF Next, Work

(* Such a step keeps the account. *)
LEMMA KeptAccount ==
  ASSUME BudgetKept, RefusedAtZero, UnitsKept
  PROVE  BudgetKept' /\ RefusedAtZero'
  <1>1. \A s \in Scan : Spent(s)' = Spent(s)
    BY DEF UnitsKept, Spent
  <1>2. BudgetKept'
    BY <1>1 DEF UnitsKept, BudgetKept
  <1> QED
    BY <1>2 DEF UnitsKept, RefusedAtZero

(* The budget gate keeps it too: the unit it takes is counted once. *)
LEMMA BudgetAccount ==
  ASSUME BInv, NEW j \in Job, Budget(j)
  PROVE  BudgetKept' /\ RefusedAtZero'
  <1> DEFINE s == ScanOf(j)
  <1>0. s \in Scan /\ TypeOK /\ AskedIsPromoted /\ BudgetKept /\ RefusedAtZero
    BY JobScan DEF BInv
  <1>1. ~Took(j) /\ decision[j] = "none"
    BY <1>0 DEF TypeOK, AskedIsPromoted, Budget, Took
  <1>2. CASE remaining[s] <= 0
    <2>1. remaining[s] = 0
      BY <1>0, <1>2 DEF BudgetKept
    <2>2. UNCHANGED remaining /\ \A i \in Job : Took(i)' <=> Took(i)
      BY <1>0, <1>1, <1>2 DEF TypeOK, Budget, Decide, Took
    <2>3. \A t \in Scan : Spent(t)' = Spent(t)
      BY <2>2 DEF Spent
    <2>4. BudgetKept'
      BY <1>0, <2>2, <2>3 DEF BudgetKept
    <2>5. RefusedAtZero'
      BY <1>0, <1>2, <2>1, <2>2 DEF TypeOK, RefusedAtZero, Budget, Decide
    <2> QED
      BY <2>4, <2>5
  <1>3. CASE ~(remaining[s] <= 0)
    <2>1. /\ remaining' = [remaining EXCEPT ![s] = @ - 1]
          /\ UNCHANGED <<decision, packet, asked>>
          /\ pc' = [pc EXCEPT ![j] = "promote"]
      BY <1>3 DEF Budget, Goto
    <2>2. Took(j)' /\ \A i \in Job \ {j} : Took(i)' <=> Took(i)
      BY <1>0, <2>1 DEF TypeOK, Took
    <2>3. Spent(s)' = Spent(s) \cup {j} /\ j \notin Spent(s)
      BY <1>1, <2>2 DEF Spent
    <2>4. \A t \in Scan \ {s} : Spent(t)' = Spent(t)
      BY <2>2 DEF Spent
    <2>5. IsFiniteSet(Spent(s)') /\ Cardinality(Spent(s)') = Cardinality(Spent(s)) + 1
      BY <1>0, <2>3, FS_AddElement DEF BudgetKept
    <2>6. Cardinality(Spent(s)) \in Nat
      BY <1>0, FS_CardinalityType DEF BudgetKept
    <2>7. \A t \in Scan \ {s} : remaining'[t] = remaining[t]
      BY <1>0, <2>1 DEF TypeOK
    <2>8. remaining'[s] = remaining[s] - 1 /\ remaining[s] \in Nat
      BY <1>0, <2>1 DEF TypeOK, BudgetKept
    <2>9. ASSUME NEW t \in Scan
          PROVE  /\ remaining'[t] \in Nat /\ IsFiniteSet(Spent(t)')
                 /\ remaining'[t] + Cardinality(Spent(t)') = CallBudget
      <3>1. CASE t = s
        BY <1>0, <1>3, <2>5, <2>6, <2>8, <3>1 DEF BudgetKept
      <3>2. CASE t # s
        BY <1>0, <2>4, <2>7, <3>2 DEF BudgetKept
      <3> QED
        BY <3>1, <3>2
    <2>10. BudgetKept'
      BY <2>9 DEF BudgetKept
    <2>11. RefusedAtZero'
      BY <1>0, <1>3, <2>1, <2>7 DEF RefusedAtZero, ScanOf
    <2> QED
      BY <2>10, <2>11
  <1> QED
    BY <1>2, <1>3

(* No scan exceeds its call budget, and none turns a packet away while any *)
(* of it is left.                                                          *)
THEOREM Budgeted == Spec => []BudgetIsExact
  <1>1. Init => BInv
    <2> SUFFICES ASSUME Init PROVE BInv
      OBVIOUS
    <2>1. TypeOK /\ AskedIsPromoted
      BY GInit DEF GInv
    <2>2. \A s \in Scan : Spent(s) = {}
      BY DEF Init, Spent, Took
    <2>3. CallBudget \in Nat /\ \A s \in Scan : remaining[s] = CallBudget
      BY SchedulerAssumption DEF Init
    <2>4. IsFiniteSet({}) /\ Cardinality({}) = 0
      BY FS_EmptySet
    <2>5. BudgetKept
      BY <2>2, <2>3, <2>4 DEF BudgetKept
    <2>6. RefusedAtZero
      BY DEF Init, RefusedAtZero
    <2> QED
      BY <2>1, <2>5, <2>6 DEF BInv
  <1>2. BInv /\ [Next]_vars => BInv'
    <2> SUFFICES ASSUME BInv, [Next]_vars PROVE BInv'
      OBVIOUS
    <2>1. TypeOK' /\ AskedIsPromoted'
      BY TypeStep, AskedStep DEF BInv
    <2>2. BudgetKept' /\ RefusedAtZero'
      BY OtherSteps, KeptAccount, BudgetAccount DEF BInv
    <2> QED
      BY <2>1, <2>2 DEF BInv
  <1>3. BInv => BudgetIsExact
    <2> SUFFICES ASSUME BInv, NEW s \in Scan
                 PROVE  /\ Cardinality({j \in asked : ScanOf(j) = s}) <= CallBudget
                        /\ (\E j \in Job : ScanOf(j) = s /\ decision[j] = "skipped_budget_exceeded")
                              => Cardinality(Spent(s)) = CallBudget
      BY DEF BudgetIsExact
    <2>1. /\ remaining[s] \in Nat /\ IsFiniteSet(Spent(s))
          /\ remaining[s] + Cardinality(Spent(s)) = CallBudget
          /\ asked \subseteq Job
      BY DEF BInv, BudgetKept, TypeOK
    <2>2. Cardinality(Spent(s)) \in Nat
      BY <2>1, FS_CardinalityType
    <2> DEFINE A == {j \in asked : ScanOf(j) = s}
    <2>3. A \subseteq Spent(s)
      BY <2>1 DEF Spent, Took
    <2>4. Cardinality(A) <= Cardinality(Spent(s)) /\ Cardinality(A) \in Nat
      BY <2>1, <2>3, FS_Subset, FS_CardinalityType
    <2>5. Cardinality(A) <= CallBudget
      BY <2>1, <2>2, <2>4, SchedulerAssumption
    <2>6. ASSUME NEW j \in Job, ScanOf(j) = s, decision[j] = "skipped_budget_exceeded"
          PROVE  Cardinality(Spent(s)) = CallBudget
      BY <2>1, <2>2, <2>6 DEF BInv, RefusedAtZero
    <2> QED
      BY <2>5, <2>6
  <1> QED
    BY <1>1, <1>2, <1>3, PTL DEF Spec

(* Together they are inductive. *)
LEMMA GStep == GInv /\ [Next]_vars => GInv'
  BY TypeStep, AskedStep, KeyStep, FilesStep, HitStep DEF GInv

(* The threads of a scan never ask the LLM one question twice. *)
THEOREM NoDuplicates == Spec => []NoDuplicateCall
  <1>1. GInv => NoDuplicateCall
    BY DEF GInv, TypeOK, KeyIsOwned, Past, NoDuplicateCall
  <1> QED
    BY GInit, GStep, <1>1, PTL DEF Spec

(* Every variable keeps its type, and every cache hit is an answer the LLM *)
(* gave to that very question, although the writers share a temporary name.*)
THEOREM Genuine == Spec => [](TypeOK /\ CacheHitIsGenuine)
  <1>1. GInv => TypeOK /\ CacheHitIsGenuine
    BY DEF GInv
  <1> QED
    BY GInit, GStep, <1>1, PTL DEF Spec
=============================================================================
