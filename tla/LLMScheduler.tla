---------------------------- MODULE LLMScheduler ----------------------------
(***************************************************************************)
(* autofix/llm/scheduler.py: the gates between a finding and the LLM.  A   *)
(* Scheduler belongs to one scan; schedule_many hands every packet of a    *)
(* batch to a pool of threads and collects the decisions in input order.   *)
(* The set of keys seen and the budget are the scan's own, each behind a   *)
(* lock.  The cache of answers is on disk: the threads of one scan, and    *)
(* scans of different processes, share it without a lock, through          *)
(* atomic_write_json of autofix/telemetry/atomic.py, whose temporary file  *)
(* has the same name for every writer of an entry.                         *)
(*                                                                         *)
(* Abstracted: a packet is its hash, what the path gates make of its file, *)
(* its priority and whether its rule has a template.  An answer is the job *)
(* that got it.  A file is an inode, named after the job that created it,  *)
(* and a payload goes down in one os.write.  Telemetry is left out.        *)
(***************************************************************************)
EXTENDS Integers, FiniteSets

CONSTANTS Scan,            \* scans, each a process with its Scheduler
          Size,            \* Size[s]: packets in the batch of scan s
          Hash,            \* prompt_prefix_hash values
          Batches,         \* the batches tried: packets of all jobs
          SmallThreshold, LargeThreshold,
          GeneratedDisabled,
          MaxInflight, CallBudget,
          NoPriority, NoFile, NoAnswer, Empty, Garbled

Job == UNION {{s} \X (1..Size[s]) : s \in Scan}

Packet == [hash : Hash, file : {"plain", "suppressed", "generated"},
           priority : Int \cup {NoPriority}, template : BOOLEAN,
           replay : BOOLEAN]   \* submitted in a context in replay mode

(* Scheduler.__init__ raises for any other policy. *)
ASSUME SchedulerAssumption ==
    /\ Size \in [Scan -> Nat]
    /\ SmallThreshold \in Int /\ LargeThreshold \in Int /\ LargeThreshold >= SmallThreshold
    /\ GeneratedDisabled \in BOOLEAN
    /\ MaxInflight \in Nat \ {0} /\ CallBudget \in Nat \ {0}
    /\ Batches \subseteq [Job -> Packet]
    /\ NoFile \notin Job /\ NoPriority \notin Int
    /\ {Empty, Garbled} \cap [by : Job, fresh : BOOLEAN] = {}

VARIABLES packet,      \* the packet of each job
          status,      \* what the caller of schedule_many has of each scan
          collected,   \* how many futures it has collected
          pc, decision, answer,     \* of each job
          calledHashes, remaining,  \* _called_hashes and _budget_remaining
          tmp, final,  \* the inodes named <hash>.json.tmp and <hash>.json
          fd,          \* the inode a job has open
          data,        \* the content of each inode
          asked        \* history: the jobs that called run_prompt

scanVars  == <<status, collected>>
jobVars   == <<pc, decision, answer>>
cacheVars == <<tmp, final, fd, data>>
vars == <<packet, scanVars, jobVars, calledHashes, remaining, cacheVars, asked>>

Init ==
    /\ packet \in Batches
    /\ status = [s \in Scan |-> "collecting"] /\ collected = [s \in Scan |-> 0]
    /\ pc = [j \in Job |-> "queued"]
    /\ decision = [j \in Job |-> "none"] /\ answer = [j \in Job |-> NoAnswer]
    /\ calledHashes = [s \in Scan |-> {}]
    /\ remaining = [s \in Scan |-> CallBudget]
    /\ tmp = [h \in Hash |-> NoFile] /\ final = [h \in Hash |-> NoFile]
    /\ fd = [j \in Job |-> NoFile] /\ data = [j \in Job |-> Empty]
    /\ asked = {}
-----------------------------------------------------------------------------
ScanOf(j) == j[1]
Over(j) == pc[j] \in {"done", "raised"}
Goto(j, to) == pc' = [pc EXCEPT ![j] = to] /\ UNCHANGED <<decision, answer>>
Decide(j, d, a) ==
    /\ pc' = [pc EXCEPT ![j] = "done"]
    /\ decision' = [decision EXCEPT ![j] = d]
    /\ answer' = [answer EXCEPT ![j] = a]

BelowThreshold(p) == p.priority # NoPriority /\ p.priority < SmallThreshold
Tier(p) == IF p.priority # NoPriority /\ p.priority >= LargeThreshold THEN "large" ELSE "small"
Key(j) == <<packet[j].hash, Tier(packet[j])>>

(* The pool takes the jobs of a batch in the order they were submitted, at *)
(* most MaxInflight of them at a time; a job begins with the gates that    *)
(* look only at its packet.                                                *)
Start(j) ==
    LET p == packet[j]
        running == {i \in Job : ScanOf(i) = ScanOf(j) /\ pc[i] # "queued" /\ ~Over(i)}
    IN  /\ pc[j] = "queued"
        /\ \A i \in Job : ScanOf(i) = ScanOf(j) /\ i[2] < j[2] => pc[i] # "queued"
        /\ Cardinality(running) < MaxInflight
        /\ IF p.file = "suppressed" THEN Decide(j, "skipped_suppressed", NoAnswer)
           ELSE IF p.file = "generated" /\ ~GeneratedDisabled
                THEN Decide(j, "skipped_generated", NoAnswer)
           ELSE IF BelowThreshold(p) THEN Decide(j, "skipped_below_threshold", NoAnswer)
           ELSE Goto(j, "dedup")
        /\ UNCHANGED <<packet, scanVars, calledHashes, remaining, cacheVars, asked>>

(* Mutant: the key is tested before the lock is taken, and may be stale. *)
DedupUnlocked(j) ==
    LET s == ScanOf(j) IN
    /\ pc[j] = "dedup"
    /\ IF \E i \in Job : ScanOf(i) = s /\ Over(i) /\ decision[i] # "none" /\ Key(i) = Key(j)
       THEN Decide(j, "skipped_duplicate_hash", NoAnswer)
       ELSE Goto(j, "lookup")
    /\ calledHashes' = [calledHashes EXCEPT ![s] = @ \cup {Key(j)}]
    /\ UNCHANGED <<packet, scanVars, remaining, cacheVars, asked>>

(* Test and insertion under _dedup_lock. *)
Dedup(j) ==
    LET s == ScanOf(j) IN
    /\ pc[j] = "dedup"
    /\ IF Key(j) \in calledHashes[s]
       THEN Decide(j, "skipped_duplicate_hash", NoAnswer)
       ELSE Goto(j, "lookup")
    /\ calledHashes' = [calledHashes EXCEPT ![s] = @ \cup {Key(j)}]
    /\ UNCHANGED <<packet, scanVars, remaining, cacheVars, asked>>

Cached(h) == IF final[h] = NoFile THEN Empty ELSE data[final[h]]

(* Mutant: the stored tier is not compared. *)
ReadableAnyTier(j) == Cached(packet[j].hash) \notin {Empty, Garbled}

(* The entry parses and has the tier of the job. *)
Readable(j) ==
    LET e == Cached(packet[j].hash) IN
    e \notin {Empty, Garbled} /\ Tier(packet[e.by]) = Tier(packet[j])

(* _cache_get: a fresh entry is the answer, an expired one is unlinked; a  *)
(* read may fail, which is a miss too.                                     *)
Lookup(j) ==
    LET e == Cached(packet[j].hash) IN
    /\ pc[j] = "lookup"
    /\ \/ Goto(j, "budget")
       \/ Readable(j) /\ e.fresh /\ Decide(j, "promoted_cache_hit", e.by)
       \/ Readable(j) /\ ~e.fresh /\ Goto(j, "evict")
    /\ UNCHANGED <<packet, scanVars, calledHashes, remaining, cacheVars, asked>>

(* The unlink goes to the name, whatever it names by now; it may fail. *)
Evict(j) ==
    /\ pc[j] = "evict"
    /\ UNCHANGED final \/ final' = [final EXCEPT ![packet[j].hash] = NoFile]
    /\ Goto(j, "budget")
    /\ UNCHANGED <<packet, scanVars, calledHashes, remaining, tmp, fd, data, asked>>

(* Mutant: the last call is given away twice. *)
BudgetOffByOne(j) ==
    LET s == ScanOf(j) IN
    /\ pc[j] = "budget"
    /\ IF remaining[s] < 0
       THEN Decide(j, "skipped_budget_exceeded", NoAnswer) /\ UNCHANGED remaining
       ELSE Goto(j, "promote") /\ remaining' = [remaining EXCEPT ![s] = @ - 1]
    /\ UNCHANGED <<packet, scanVars, calledHashes, cacheVars, asked>>

(* Test and decrement under _budget_lock. *)
Budget(j) ==
    LET s == ScanOf(j) IN
    /\ pc[j] = "budget"
    /\ IF remaining[s] <= 0
       THEN Decide(j, "skipped_budget_exceeded", NoAnswer) /\ UNCHANGED remaining
       ELSE Goto(j, "promote") /\ remaining' = [remaining EXCEPT ![s] = @ - 1]
    /\ UNCHANGED <<packet, scanVars, calledHashes, cacheVars, asked>>

(* Replay mode ends here; a missing template raises FileNotFoundError out  *)
(* of the job.                                                             *)
Promote(j) ==
    /\ pc[j] = "promote"
    /\ IF packet[j].replay THEN Decide(j, "promoted", NoAnswer)
       ELSE IF packet[j].template THEN Goto(j, "call") ELSE Goto(j, "raised")
    /\ UNCHANGED <<packet, scanVars, calledHashes, remaining, cacheVars, asked>>

(* run_prompt answers, or fails, times out or raises. *)
Call(j) ==
    /\ pc[j] = "call"
    /\ asked' = asked \cup {j}
    /\ Goto(j, "open") \/ Decide(j, "promoted_failed", NoAnswer)
    /\ UNCHANGED <<packet, scanVars, calledHashes, remaining, cacheVars>>

Promoted(j) == IF packet[j].priority = NoPriority THEN "promoted_default_tier" ELSE "promoted"
-----------------------------------------------------------------------------
(* atomic_write_json: open(tmp, O_CREAT | O_TRUNC), which may be the file  *)
(* another writer is at ...                                                *)
PutOpen(j) ==
    LET h == packet[j].hash
        inode == IF tmp[h] = NoFile THEN j ELSE tmp[h]
    IN  /\ pc[j] = "open"
        /\ tmp' = [tmp EXCEPT ![h] = inode]
        /\ fd' = [fd EXCEPT ![j] = inode]
        /\ data' = [data EXCEPT ![inode] = Empty]
        /\ Goto(j, "write")
        /\ UNCHANGED <<packet, scanVars, calledHashes, remaining, final, asked>>

(* ... the payload, at the start of the file: over a longer payload of     *)
(* another writer it leaves that one's tail ...                            *)
PutWrite(j) ==
    LET mine == [by |-> j, fresh |-> TRUE] IN
    /\ pc[j] = "write"
    /\ \E c \in {mine} \cup (IF data[fd[j]] = Empty THEN {} ELSE {Garbled}) :
          data' = [data EXCEPT ![fd[j]] = c]
    /\ Goto(j, "replace")
    /\ UNCHANGED <<packet, scanVars, calledHashes, remaining, tmp, final, fd, asked>>

(* ... and os.replace of whatever the temporary name names by now. *)
PutReplace(j) ==
    LET h == packet[j].hash IN
    /\ pc[j] = "replace" /\ tmp[h] # NoFile
    /\ final' = [final EXCEPT ![h] = tmp[h]]
    /\ tmp' = [tmp EXCEPT ![h] = NoFile]
    /\ fd' = [fd EXCEPT ![j] = NoFile]
    /\ Decide(j, Promoted(j), j)
    /\ UNCHANGED <<packet, scanVars, calledHashes, remaining, data, asked>>

(* Any OSError, that of a temporary name which is gone included: the name  *)
(* is unlinked, which may fail too, and the answer is promoted without an  *)
(* entry.                                                                  *)
PutFails(j) ==
    /\ pc[j] \in {"open", "write", "replace"}
    /\ UNCHANGED tmp \/ tmp' = [tmp EXCEPT ![packet[j].hash] = NoFile]
    /\ fd' = [fd EXCEPT ![j] = NoFile]
    /\ Decide(j, "promoted", j)
    /\ UNCHANGED <<packet, scanVars, calledHashes, remaining, final, data, asked>>
-----------------------------------------------------------------------------
(* Mutant: a future that raised is waited for. *)
CollectIgnoresErrors(s) ==
    LET j == <<s, collected[s] + 1>> IN
    /\ status[s] = "collecting"
    /\ IF collected[s] = Size[s]
       THEN status' = [status EXCEPT ![s] = "returned"] /\ UNCHANGED collected
       ELSE /\ pc[j] = "done"
            /\ collected' = [collected EXCEPT ![s] = @ + 1] /\ UNCHANGED status
    /\ UNCHANGED <<packet, jobVars, calledHashes, remaining, cacheVars, asked>>

(* fut.result() of one future after the other; an exception leaves         *)
(* schedule_many while the later jobs go on.                               *)
Collect(s) ==
    LET j == <<s, collected[s] + 1>> IN
    /\ status[s] = "collecting"
    /\ IF collected[s] = Size[s]
       THEN status' = [status EXCEPT ![s] = "returned"] /\ UNCHANGED collected
       ELSE \/ /\ pc[j] = "done"
               /\ collected' = [collected EXCEPT ![s] = @ + 1] /\ UNCHANGED status
            \/ /\ pc[j] = "raised"
               /\ status' = [status EXCEPT ![s] = "raised"] /\ UNCHANGED collected
    /\ UNCHANGED <<packet, jobVars, calledHashes, remaining, cacheVars, asked>>

(* The process of the scan dies with its threads; the files stay. *)
Kill(s) ==
    /\ status[s] \in {"collecting", "raised"}
    /\ status' = [status EXCEPT ![s] = "dead"]
    /\ UNCHANGED <<packet, collected, jobVars, calledHashes, remaining, cacheVars, asked>>

(* The entry of h is older than its ttl. *)
Expire(h) ==
    /\ Cached(h) \notin {Empty, Garbled} /\ Cached(h).fresh
    /\ data' = [data EXCEPT ![final[h]] = [by |-> Cached(h).by, fresh |-> FALSE]]
    /\ UNCHANGED <<packet, scanVars, jobVars, calledHashes, remaining, tmp, final, fd, asked>>

Work(j) ==
    /\ status[ScanOf(j)] # "dead"
    /\ \/ Start(j) \/ Dedup(j) \/ Lookup(j) \/ Evict(j) \/ Budget(j) \/ Promote(j)
       \/ Call(j) \/ PutOpen(j) \/ PutWrite(j) \/ PutReplace(j) \/ PutFails(j)

Next ==
    \/ \E j \in Job : Work(j)
    \/ \E s \in Scan : Collect(s) \/ Kill(s)
    \/ \E h \in Hash : Expire(h)

(* The threads of the pool and the caller run while they can. *)
Spec == /\ Init /\ [][Next]_vars
        /\ \A j \in Job : WF_vars(Work(j))
        /\ \A s \in Scan : WF_vars(Collect(s))
-----------------------------------------------------------------------------
Pc == {"queued", "dedup", "lookup", "evict", "budget", "promote", "call",
       "open", "write", "replace", "done", "raised"}

(* ScheduleDecisionName, of which cache_store_failed is only an event. *)
Decision == {"none", "promoted", "skipped_suppressed", "skipped_duplicate_hash",
             "promoted_failed", "skipped_generated", "skipped_below_threshold",
             "skipped_budget_exceeded", "promoted_cache_hit", "promoted_default_tier"}

(* Every variable has its type. *)
TypeOK ==
    /\ packet \in [Job -> Packet]
    /\ status \in [Scan -> {"collecting", "returned", "raised", "dead"}]
    /\ collected \in [Scan -> Nat]
    /\ pc \in [Job -> Pc]
    /\ decision \in [Job -> Decision]
    /\ answer \in [Job -> Job \cup {NoAnswer}]
    /\ calledHashes \in [Scan -> SUBSET (Hash \X {"small", "large"})]
    /\ remaining \in [Scan -> Int]
    /\ tmp \in [Hash -> Job \cup {NoFile}] /\ final \in [Hash -> Job \cup {NoFile}]
    /\ fd \in [Job -> Job \cup {NoFile}]
    /\ data \in [Job -> [by : Job, fresh : BOOLEAN] \cup {Empty, Garbled}]
    /\ asked \subseteq Job

(* The jobs that took a unit of the budget: those on their way to the LLM, *)
(* those that asked it, and those that replay stopped just before.         *)
Took(j) == \/ pc[j] \in {"promote", "call", "raised"}
           \/ j \in asked
           \/ packet[j].replay /\ decision[j] = "promoted"
Spent(s) == {j \in Job : ScanOf(j) = s /\ Took(j)}

(* However the threads interleave, a scan makes at most call_budget calls, *)
(* and a packet is turned away for the budget only when that many packets  *)
(* have used it: a duplicate, a cache hit or a skipped packet costs        *)
(* nothing.                                                                *)
BudgetIsExact ==
    \A s \in Scan :
        /\ Cardinality({j \in asked : ScanOf(j) = s}) <= CallBudget
        /\ (\E j \in Job : ScanOf(j) = s /\ decision[j] = "skipped_budget_exceeded")
              => Cardinality(Spent(s)) = CallBudget

(* A scan never asks the same question (hash and tier) twice. *)
NoDuplicateCall ==
    \A i, j \in asked : ScanOf(i) = ScanOf(j) /\ Key(i) = Key(j) => i = j

(* A cache hit is a whole answer that some job really got for this hash    *)
(* and tier, although writers of one entry share a temporary file, an      *)
(* unlink may hit another's file and a crash may leave any of it behind.   *)
CacheHitIsGenuine ==
    \A j \in Job : decision[j] = "promoted_cache_hit" =>
        answer[j] \in asked /\ Key(answer[j]) = Key(j)

(* schedule_many returns or raises, unless its process dies: the pool is   *)
(* never stuck, whichever jobs fail.                                       *)
EveryScanEnds == \A s \in Scan : status[s] = "collecting" ~> status[s] # "collecting"
=============================================================================
