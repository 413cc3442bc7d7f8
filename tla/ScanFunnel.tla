----------------------------- MODULE ScanFunnel -----------------------------
(***************************************************************************)
(* Scans and replays of one repository: _run_scan_core (autofix/scan_core. *)
(* py) around run_scan (autofix/funnel/pipeline.py), the dispatches of     *)
(* `autofix watch`, and replay (autofix/telemetry/replay.py), which runs   *)
(* run_scan again on the recorded change set.  They overlap in several     *)
(* processes and share events.jsonl and clusters.json; files, commits, the *)
(* policy and the legacy findings change meanwhile.                        *)
(*                                                                         *)
(* Abstracted: the call graph is the one GraphCache shows build_from_root  *)
(* to return; what the scheduler decides, and in which order it is asked,  *)
(* is in LLMScheduler; a policy is whether legacy findings are wanted.     *)
(***************************************************************************)
EXTENDS CallGraph, ClusterStore, ScanReplay

CONSTANTS Process,          \* the processes that scan or replay
          Order,            \* the paths, sorted
          FirstHead,        \* the sources as last committed
          FirstTree,        \* the sources at the start
          Versions,         \* Versions[p]: what may become of p
          HasParent,        \* is there a HEAD~1 at the start
          Unused,           \* Unused[c]: the imports c has and does not use
          Legacy,           \* the entries of the legacy findings.json
          FirstOpen,        \* those that are not fixed at the start
          Requests,         \* the scans users and the watch loop ask for
          Policies, FirstPolicy, LegacyEnabled,
          NoFile, NoReport,
          MaxJobs,
          MaxEvents         \* edits and faults together

ScanId == 1..MaxJobs

ASSUME ScanFunnelAssumption ==
    /\ {MaxJobs, MaxEvents} \subseteq Nat
    /\ FirstPolicy \in Policies /\ LegacyEnabled \subseteq Policies
    /\ NoFile \notin Path

VARIABLES tree, git,          \* the files; the last commits
          policy, open,       \* the policy; the legacy entries not yet fixed
          clusters,           \* clusters.json
          log, torn,          \* events.jsonl by scan id; a line without its end
          sarif,              \* findings.sarif of each scan
          job,                \* what each process is doing
          result,             \* what _run_scan_core returned for each scan
          jobs, edits, faults   \* what has happened, bounded

world == <<tree, git, policy, open>>
disk == <<clusters, log, torn, sarif>>
counts == <<jobs, edits, faults>>
vars == <<world, disk, job, result, counts>>

(* at is the number of edits when the work began, raised whether run_scan  *)
(* raised; rows is the history a replay has read; todo are the files that  *)
(* are still to be looked at, left the findings of a file, by their place. *)
Idle == [pc |-> "idle", kind |-> "none", id |-> 0, fresh |-> FALSE, cheap |-> TRUE,
         paths |-> {}, todo |-> {}, left |-> <<>>, store |-> EmptyStore, found |-> <<>>,
         rows |-> <<>>, verdict |-> "none", at |-> 0, raised |-> FALSE]

NoResult == [exit |-> 3, found |-> <<>>, plain |-> FALSE, at |-> 0]

Init ==
    /\ tree = FirstTree
    /\ git = [head |-> FirstHead, last |-> {}, parent |-> HasParent]
    /\ policy = FirstPolicy /\ open = FirstOpen
    /\ clusters = EmptyStore
    /\ log = [i \in ScanId |-> <<>>] /\ torn = FALSE
    /\ sarif = [i \in ScanId |-> NoReport]
    /\ job = [s \in Process |-> Idle]
    /\ result = [i \in ScanId |-> NoResult]
    /\ jobs = 0 /\ edits = 0 /\ faults = 0
-----------------------------------------------------------------------------
Over(s) == job[s].pc \in {"idle", "done"}
At(s, pc) == job[s].pc = pc
Eventful == edits + faults < MaxEvents
Go(s, changes) == job' = [job EXCEPT ![s] = changes]

Tracked == {p \in Path : git.head[p] # Absent}
Graph == Parsed([p \in {q \in Tracked : tree[q] # Absent} |-> tree[p]])
Affected(paths, fresh) ==
    IF fresh THEN PlanFresh(Graph)
    ELSE IF paths = {} THEN {} ELSE Plan(Graph, tree, paths)

(* unused_import.analyze on one file that is there.                        *)
Analyzed(p) ==
    IF tree[p] = Absent THEN <<>>
    ELSE [i \in DOMAIN Unused[tree[p]] |->
             LET imp == Unused[tree[p]][i] IN
             Finding("unused-import", p, imp.name, imp.stmt, imp.slice)]

(* load_legacy_findings: fixed and inadmissible entries are dropped.  An   *)
(* entry that names no file is kept.                                       *)
LegacyFindings ==
    [i \in {k \in DOMAIN Legacy : Legacy[k].admissible /\ Legacy[k].finding.id \in open} |->
        Legacy[i].finding]

LegacyWanted == policy \in LegacyEnabled

(* _analyze_one_file, with the analyzers the scan asked for.               *)
FindingsOf(s, file) ==
    IF file = NoFile THEN LegacyFindings
    ELSE IF job[s].cheap THEN Analyzed(file)
    ELSE <<>>

(* The files are visited in order, NoFile, the legacy findings, first; the *)
(* findings of a file from the first place to the last.                    *)
Precedes(p, q) ==
    \/ p = NoFile /\ q # NoFile
    \/ \E j \in DOMAIN Order : \E i \in 1..(j - 1) : Order[i] = p /\ Order[j] = q
Foremost(file, todo) == \A p \in todo : ~Precedes(p, file)
Rest(left, i) == [k \in DOMAIN left \ {i} |-> left[k]]

(* append_event for each of rows, in order.  A replay writes to its sink.  *)
(* A row whose write fails is lost, and may leave a line without its end   *)
(* (cut), which swallows the next row of whoever writes it.  Writes on     *)
(* such a line do not fail here.                                           *)
Survivors(rows, lost, cut) ==
    LET first == IF torn THEN 1 ELSE lost
        last  == IF cut THEN first + 1 ELSE first
    IN IF first = 0 THEN rows
       ELSE SubSeq(rows, 1, first - 1) \o SubSeq(rows, last + 1, Len(rows))

(* No replay looks for the rows of a watch batch: they have no anchor.     *)
Appended(s, rows) ==
    IF job[s].kind = "watch" THEN log ELSE [log EXCEPT ![job[s].id] = @ \o rows]

(* Mutant: the sink is not consulted.                                      *)
EmitInReplay(s, rows, lost, cut) ==
    /\ torn' = torn
    /\ log' = Appended(s, Survivors(rows, lost, cut))

Emit(s, rows, lost, cut) ==
    IF job[s].kind = "replay" THEN UNCHANGED <<log, torn>>
    ELSE /\ torn' = (cut /\ lost = Len(rows))
         /\ log' = Appended(s, Survivors(rows, lost, cut))

(* A row no replay looks at, which a line without its end swallows too.    *)
EmitUnread(s) ==
    /\ torn' = (torn /\ job[s].kind = "replay")
    /\ log' = log

(* Whether one of the rows of this step is lost.                           *)
NoLoss(lost, cut) == lost = 0 /\ ~cut /\ faults' = faults
Loss(rows, lost) ==
    /\ lost \in DOMAIN rows /\ ~torn
    /\ Eventful /\ faults' = faults + 1
-----------------------------------------------------------------------------
(* An edit of a file, a commit, a new policy, a legacy finding fixed or    *)
(* new.                                                                    *)
Edit(p, c) ==
    /\ c \in Versions[p] \ {tree[p]}
    /\ tree' = [tree EXCEPT ![p] = c]
    /\ UNCHANGED <<git, policy, open>>

CommitAll ==
    /\ tree # git.head
    /\ git' = [head |-> tree, last |-> {p \in Path : tree[p] # git.head[p]}, parent |-> TRUE]
    /\ UNCHANGED <<tree, policy, open>>

SetPolicy(new) ==
    /\ new # policy /\ policy' = new
    /\ UNCHANGED <<tree, git, open>>

Settle(i) ==
    /\ LET id == Legacy[i].finding.id IN
       open' = IF id \in open THEN open \ {id} ELSE open \cup {id}
    /\ UNCHANGED <<tree, git, policy>>

Change ==
    /\ Eventful /\ edits' = edits + 1
    /\ \/ \E p \in Path, c \in Text \cup {Absent} : Edit(p, c)
       \/ CommitAll
       \/ \E new \in Policies : SetPolicy(new)
       \/ \E i \in DOMAIN Legacy : Settle(i)
    /\ UNCHANGED <<disk, job, result, jobs, faults>>

Kill(s) ==
    /\ ~Over(s)
    /\ Eventful /\ faults' = faults + 1
    /\ Go(s, Idle)
    /\ UNCHANGED <<world, disk, result, jobs, edits>>
-----------------------------------------------------------------------------
ChangeSet(paths, fresh) == [paths |-> paths, fresh |-> fresh]

(* detect: the whole tree, the last commit, or, with no commit before it,  *)
(* the whole tree as a fresh instance.                                     *)
Detect(full) ==
    IF full THEN ChangeSet(Tracked, FALSE)
    ELSE IF ~git.parent THEN ChangeSet(Tracked, TRUE)
    ELSE ChangeSet(git.last, FALSE)

NextJob == jobs < MaxJobs /\ jobs' = jobs + 1

Scan(s, req) ==
    /\ Over(s) /\ NextJob /\ req.kind = "cli"
    /\ LET seen == Detect(req.full) IN
       Go(s, [Idle EXCEPT !.pc = "detected", !.kind = "cli", !.id = jobs', !.cheap = req.cheap,
                          !.paths = seen.paths, !.fresh = seen.fresh \/ req.fresh,
                          !.at = edits])
    /\ UNCHANGED <<world, disk, result, edits, faults>>

(* git is missing, or the root is no repository: nothing is written.       *)
ScanRefused(s, req) ==
    /\ Over(s) /\ NextJob /\ req.kind = "cli"
    /\ Eventful /\ faults' = faults + 1
    /\ result' = [result EXCEPT ![jobs'] = [NoResult EXCEPT !.exit = 1]]
    /\ UNCHANGED <<world, disk, job, edits>>

(* run_watch_loop hands a batch to _dispatch_scan, or a safety sweep.      *)
Watch(s, req) ==
    /\ Over(s) /\ NextJob /\ req.kind = "watch"
    /\ req.batch # {} \/ req.fresh
    /\ Go(s, [Idle EXCEPT !.pc = "plan", !.kind = "watch", !.id = jobs',
                          !.paths = req.batch, !.fresh = req.fresh, !.at = edits])
    /\ UNCHANGED <<world, disk, result, edits, faults>>

Announce(s) ==
    /\ At(s, "detected")
    /\ LET rows == <<Started(job[s].paths, policy)>> IN
       \E lost \in 0..1, cut \in BOOLEAN :
          /\ NoLoss(lost, cut) \/ Loss(rows, lost)
          /\ Emit(s, rows, lost, cut)
    /\ Go(s, [job[s] EXCEPT !.pc = "plan"])
    /\ UNCHANGED <<world, clusters, sarif, result, jobs, edits>>

(* Mutant: a replay looks for the changes itself.                          *)
ReplayDetects(s, id) ==
    /\ Over(s) /\ NextJob
    /\ LET seen == [Idle EXCEPT !.kind = "replay", !.id = id, !.rows = log[id], !.at = edits]
       IN Go(s, IF HasAnchor(log[id])
                THEN [seen EXCEPT !.pc = "plan", !.paths = Detect(FALSE).paths]
                ELSE [seen EXCEPT !.pc = "done", !.verdict = "missing_anchor"])
    /\ UNCHANGED <<world, disk, result, edits, faults>>

(* replay(): the anchor, then the version pins, then run_scan on the       *)
(* recorded paths, with the default analyzers and never as fresh.          *)
Replay(s, id) ==
    /\ Over(s) /\ NextJob
    /\ LET seen  == [Idle EXCEPT !.kind = "replay", !.id = id, !.rows = log[id], !.at = edits]
           ended(v) == [seen EXCEPT !.pc = "done", !.verdict = v]
       IN Go(s, IF ~HasAnchor(log[id]) THEN ended("missing_anchor")
                ELSE IF Anchor(log[id]).policy # policy THEN ended("version_drift")
                ELSE [seen EXCEPT !.pc = "plan", !.paths = Anchor(log[id]).paths])
    /\ UNCHANGED <<world, disk, result, edits, faults>>
-----------------------------------------------------------------------------
(* An exception: the core records it, and keeps the findings only if it    *)
(* was the report that failed; the watch loop goes on; a replay is a       *)
(* mismatch.                                                               *)
Raised(j) ==
    CASE j.kind = "cli"    -> [j EXCEPT !.found = IF j.pc = "report" THEN @ ELSE <<>>,
                                        !.pc = "failing", !.raised = TRUE]
      [] j.kind = "watch"  -> Idle
      [] j.kind = "replay" -> [j EXCEPT !.pc = "done", !.verdict = "mismatch",
                                              !.raised = TRUE]

Fault(s) ==
    /\ Eventful /\ faults' = faults + 1
    /\ Go(s, Raised(job[s]))

InvalidationComputed(s) ==
    /\ At(s, "plan")
    /\ \/ /\ Go(s, [job[s] EXCEPT !.pc = "load",
                                  !.todo = Affected(job[s].paths, job[s].fresh)])
          /\ EmitUnread(s)
          /\ faults' = faults
       \/ Fault(s) /\ UNCHANGED <<log, torn>>
    /\ UNCHANGED <<world, clusters, sarif, result, jobs, edits>>

(* The policy, then clusters.json without its lock.                        *)
LoadClusters(s) ==
    /\ At(s, "load")
    /\ Go(s, [job[s] EXCEPT !.pc = "analyze", !.store = clusters,
                            !.todo = IF LegacyWanted THEN @ \cup {NoFile} ELSE @])
    /\ UNCHANGED <<world, disk, result, counts>>

(* The next file, NoFile being the legacy findings.                        *)
Analyze(s) ==
    /\ At(s, "analyze") /\ DOMAIN job[s].left = {}
    /\ \E file \in job[s].todo :
          /\ Foremost(file, job[s].todo)
          /\ Go(s, [job[s] EXCEPT !.todo = @ \ {file}, !.left = FindingsOf(s, file)])
    /\ UNCHANGED <<world, disk, result, counts>>

(* The next finding of the file: its packet, its score, its cluster.       *)
Record(s) ==
    /\ At(s, "analyze")
    /\ \E i \in DOMAIN job[s].left :
       LET f == job[s].left[i]
           rows == <<PacketBuilt(f), Scored(f), Deduped(f)>>
       IN /\ \A k \in DOMAIN job[s].left : i <= k
          /\ f.path # NoFile
          /\ Go(s, [job[s] EXCEPT !.left = Rest(@, i), !.found = Append(@, f),
                                  !.store = Classify(@, f)])
          /\ \E lost \in 0..3, cut \in BOOLEAN :
                /\ NoLoss(lost, cut) \/ Loss(rows, lost)
                /\ Emit(s, rows, lost, cut)
    /\ UNCHANGED <<world, clusters, sarif, result, jobs, edits>>

(* build_packet raises on a finding without a path.                        *)
NoPacket(s) ==
    /\ At(s, "analyze")
    /\ \E i \in DOMAIN job[s].left :
          job[s].left[i].path = NoFile /\ \A k \in DOMAIN job[s].left : i <= k
    /\ Go(s, Raised(job[s]))
    /\ UNCHANGED <<world, disk, result, counts>>

Finished(s) == At(s, "analyze") /\ DOMAIN job[s].left = {} /\ job[s].todo = {}

(* cluster_store.save: the whole list, under its lock.                     *)
SaveClusters(s) ==
    /\ Finished(s)
    /\ clusters' = job[s].store
    /\ EmitUnread(s)
    /\ Go(s, [job[s] EXCEPT !.pc = "dispatch"])
    /\ UNCHANGED <<world, sarif, result, counts>>

(* The lock stays taken for thirty seconds: nothing is saved.              *)
SaveGivesUp(s) ==
    /\ Finished(s)
    /\ Eventful /\ faults' = faults + 1
    /\ EmitUnread(s)
    /\ Go(s, [job[s] EXCEPT !.pc = "dispatch"])
    /\ UNCHANGED <<world, clusters, sarif, result, jobs, edits>>

(* An OSError of the write leaves save, and run_scan.                      *)
SaveFails(s) ==
    /\ Finished(s)
    /\ Fault(s)
    /\ UNCHANGED <<world, disk, result, jobs, edits>>

(* The findings go to the scheduler.  A replay compares, a dispatch of the *)
(* watch loop has ended.                                                   *)
Dispatch(s) ==
    /\ At(s, "dispatch")
    /\ \/ /\ Go(s, CASE job[s].kind = "cli"    -> [job[s] EXCEPT !.pc = "report"]
                     [] job[s].kind = "watch"  -> Idle
                     [] job[s].kind = "replay" ->
                           [job[s] EXCEPT !.pc = "done",
                                          !.verdict = Verdict(job[s].rows, job[s].found)])
          /\ EmitUnread(s)
          /\ faults' = faults
       \/ Fault(s) /\ UNCHANGED <<log, torn>>
    /\ UNCHANGED <<world, clusters, sarif, result, jobs, edits>>

EmitSarif(s) ==
    /\ At(s, "report")
    /\ sarif' = [sarif EXCEPT ![job[s].id] = job[s].found]
    /\ Go(s, [job[s] EXCEPT !.pc = "complete"])
    /\ UNCHANGED <<world, clusters, log, torn, result, counts>>

(* Mutant: a report that cannot be written is no error.                    *)
SarifFailsQuietly(s) ==
    /\ At(s, "report")
    /\ Eventful /\ faults' = faults + 1
    /\ Go(s, [job[s] EXCEPT !.pc = "complete"])
    /\ UNCHANGED <<world, disk, result, jobs, edits>>

SarifFails(s) ==
    /\ At(s, "report")
    /\ Fault(s)
    /\ UNCHANGED <<world, disk, result, jobs, edits>>

Return(s, exit) ==
    /\ Go(s, Idle)
    /\ result' = [result EXCEPT ![job[s].id] =
          [exit |-> exit, found |-> job[s].found, plain |-> job[s].cheap /\ ~job[s].fresh,
           at |-> job[s].at]]

(* ScanCompleted ok after SARIFEmitted, or ScanCompleted error.            *)
Complete(s) ==
    /\ \/ At(s, "complete") /\ Return(s, 0)
       \/ At(s, "failing") /\ Return(s, 1)
    /\ LET rows == IF At(s, "complete") THEN <<Reported, Completed("ok")>>
                                        ELSE <<Completed("error")>> IN
       \E lost \in 0..Len(rows), cut \in BOOLEAN :
          /\ NoLoss(lost, cut) \/ Loss(rows, lost)
          /\ Emit(s, rows, lost, cut)
    /\ UNCHANGED <<world, clusters, sarif, jobs, edits>>
-----------------------------------------------------------------------------
Step(s) ==
    \/ Announce(s) \/ InvalidationComputed(s) \/ LoadClusters(s)
    \/ Analyze(s) \/ Record(s) \/ NoPacket(s)
    \/ SaveClusters(s) \/ SaveGivesUp(s) \/ SaveFails(s)
    \/ Dispatch(s) \/ EmitSarif(s) \/ SarifFails(s) \/ Complete(s)

Next ==
    \/ Change
    \/ \E s \in Process :
          \/ \E req \in Requests : Scan(s, req) \/ ScanRefused(s, req) \/ Watch(s, req)
          \/ \E id \in 1..jobs : Replay(s, id)
          \/ Kill(s) \/ Step(s)

Spec == Init /\ [][Next]_vars
-----------------------------------------------------------------------------
Builds(rows, fs) ==
    {f \in {fs[i] : i \in DOMAIN fs} :
        \E i \in Indices(rows, {"EvidencePacketBuilt"}) : rows[i].id = f.id}
Intact(rows, fs) == HasAnchor(rows) /\ \A i \in DOMAIN fs : fs[i] \in Builds(rows, fs)
Named(fs) ==
    \A i, j \in DOMAIN fs :
        /\ fs[i].key = fs[j].key <=> fs[i].id = fs[j].id
        /\ fs[i].id = fs[j].id => fs[i].hash = fs[j].hash
Asked(fs) == {<<fs[i].key, fs[i].hash>> : i \in DOMAIN fs}

(* A replay that ran to its end next to a scan that returned 0, none of    *)
(* whose packets lost its row.                                             *)
Compared(s) ==
    LET id == job[s].id IN
    /\ job[s].pc = "done" /\ job[s].kind = "replay" /\ ~job[s].raised
    /\ job[s].verdict \in {"match", "mismatch"}
    /\ result[id].exit = 0 /\ Completed("ok") \in {job[s].rows[i] : i \in DOMAIN job[s].rows}
    /\ Intact(job[s].rows, result[id].found)
    /\ Named(result[id].found) /\ Named(job[s].found)

(* A replay says "match" if and only if the findings of its run are those  *)
(* the scan reported, with the same prompts: though other scans, other     *)
(* replays and edits came in between, and though it compares rows of the   *)
(* log, some of them lost, and not reports.                                *)
ReplayIsTrue ==
    \A s \in Process : Compared(s) =>
        (job[s].verdict = "match" <=> Asked(result[job[s].id].found) = Asked(job[s].found))

(* As docs/architecture.md has it, the same sources and policy give the    *)
(* same findings: a replay of a scan with the default analyzers, that was  *)
(* not fresh, matches as long as nothing has changed since it began,       *)
(* whatever clusters, LLM answers and rows other scans have left.          *)
ReplayReproduces ==
    \A s \in Process :
        Compared(s) /\ result[job[s].id].plain /\ edits = result[job[s].id].at
            => job[s].verdict = "match"

(* A log that says a scan went well never disagrees with its report: the   *)
(* SARIF file is there, and has every finding of the log; a scan that      *)
(* failed has no report it completed.                                      *)
LogMatchesReport ==
    \A id \in ScanId :
        LET ok == \E i \in DOMAIN log[id] : log[id][i] = Completed("ok")
            reported == {sarif[id][i].id : i \in DOMAIN sarif[id]}
        IN /\ ok => sarif[id] # NoReport /\ HistoricalIds(log[id]) \subseteq reported
           /\ result[id].exit = 1 => ~ok

(* Nothing is added to the history of a scan that has ended, by a replay   *)
(* of it or by another scan.                                               *)
ClosedStaysClosed ==
    [][\A id \in ScanId :
          Indices(log[id], {"ScanCompleted"}) # {}
              => log'[id] = log[id]]_vars

(* Whoever loads, classifies and saves at the same time, a saved finding   *)
(* is in one cluster.                                                      *)
ClustersArePartition == IsPartition(clusters)
=============================================================================
