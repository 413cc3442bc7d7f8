----------------------------- MODULE GraphCache -----------------------------
(***************************************************************************)
(* CallGraph.build_from_root (autofix/invalidation/call_graph.py) over the *)
(* index of autofix/indexing/scip_index.py and scip_emitter.py.  A build   *)
(* hashes the sources, loads the manifest and the sidecar without a lock,  *)
(* and then takes the graph from the shards, or parses and writes back     *)
(* under the lock: the shards one by one, the sidecar, the manifest.       *)
(* Builds of several processes overlap; the sources are edited, and a      *)
(* build may be killed, between any two steps.                             *)
(*                                                                         *)
(* Abstracted: a file is replaced as a whole or not at all                 *)
(* (atomic_write_json), so what load makes of malformed JSON and of other  *)
(* schemas is left out; the sources are read in one step each time the     *)
(* code reads them, and so are the shards of a graph; occurrences and      *)
(* line numbers are left out of a shard.                                   *)
(***************************************************************************)
EXTENDS CallGraph

CONSTANTS Scan,              \* processes that build a graph
          Untracked,         \* files `git ls-files` does not list
          Versions,          \* Versions[p]: the texts p may have
          FirstTree,         \* the sources at the start
          EditsDuringBuild,  \* may a file change between two reads of a build
          TextsReturn,       \* may a text that was there before come back
          MaxBuilds, MaxEdits, MaxFaults, MaxKills,
          NoIndex, Nobody

ASSUME GraphCacheAssumption ==
    /\ Untracked \subseteq Path
    /\ Versions \in [Path -> SUBSET Text]
    /\ FirstTree \in [Path -> Text \cup {Absent}]
    /\ EditsDuringBuild \in BOOLEAN /\ TextsReturn \in BOOLEAN
    /\ {MaxBuilds, MaxEdits, MaxFaults, MaxKills} \subseteq Nat
    /\ Nobody \notin Scan

VARIABLES tree,       \* the text of every file
          past,       \* history: the texts there have been
          manifest,   \* the hashes of manifest.json, or NoIndex
          sidecar,    \* reverse_refs.json: the files of each symbol
          shards,     \* the shard of each hash that has one
          lock,       \* the scan that holds .lock
          job,        \* where the build of each scan is
          builds, edits, faults, kills   \* what has happened, bounded

sources == <<tree, past>>
diskVars == <<manifest, sidecar, shards>>
countVars == <<builds, edits, faults, kills>>
vars == <<sources, diskVars, lock, job, countVars>>

None == [x \in {} |-> {}]
Index(m, r) == [man |-> m, refs |-> r]

(* What a build holds: hashes is content_hashes, idx the index loaded, new *)
(* what it is about to write and emit the shards left; persist says what   *)
(* the lock is wanted for.  A finished build keeps the graph and the       *)
(* hashes it is meant to describe, which are those of idx when stale.      *)
Idle == [pc |-> "idle", hashes |-> None, idx |-> NoIndex, graph |-> NoGraph,
         persist |-> "none", new |-> NoIndex, emit |-> {}, stale |-> FALSE]

Init ==
    /\ tree = FirstTree /\ past = {FirstTree[p] : p \in Path}
    /\ manifest = NoIndex /\ sidecar = None
    /\ shards = None
    /\ lock = Nobody
    /\ job = [s \in Scan |-> Idle]
    /\ builds = 0 /\ edits = 0 /\ faults = 0 /\ kills = 0
-----------------------------------------------------------------------------
(* _enumerate_python_files and _sha256_of_file                             *)
Hashes(t) ==
    [p \in {q \in Path \ Untracked : t[q] # Absent} |-> t[p]]

Over(s) == job[s].pc \in {"idle", "done", "raised"}

(* Between hashing the sources and the last time it reads them.            *)
Reading(s) == job[s].pc \in {"load", "sidecar", "choose", "lock"}

(* Mutant: a shard has the callers of its symbols and not their callees.   *)
EmitCallersOnly(path, g) ==
    LET own == SymbolsIn(g, path) IN
    [syms |-> own, edges |-> {e \in g.edges : e[2] \in own}]

EmitDocument(path, g) ==
    LET own == SymbolsIn(g, path) IN
    [syms |-> own, edges |-> {e \in g.edges : e[1] \in own \/ e[2] \in own}]

FromShards(hashes) ==
    LET found == {shards[h] : h \in {hashes[p] : p \in DOMAIN hashes} \cap DOMAIN shards} IN
    [syms  |-> UNION {d.syms : d \in found},
     edges |-> UNION {d.edges : d \in found}]

(* Mutant: one shard will do.                                              *)
AnyShardExists(hashes) == \E p \in DOMAIN hashes : hashes[p] \in DOMAIN shards

AllShardsExist(hashes) == \A p \in DOMAIN hashes : hashes[p] \in DOMAIN shards

(* _compute_reverse_refs_from_graph: where a symbol is defined or called.  *)
ReverseRefs(g) ==
    [s \in g.syms \cup {e[2] : e \in g.edges} |->
        {x[1] : x \in (g.syms \cap {s}) \cup Callers(g, {s})}]

WriteShardOf(path, hash, g) ==
    [h \in DOMAIN shards \cup {hash} |->
        IF h = hash THEN EmitDocument(path, g) ELSE shards[h]]
-----------------------------------------------------------------------------
(* A user, git checkout or an agent changes one file.                      *)
Edit(p, c) ==
    /\ edits < MaxEdits /\ edits' = edits + 1
    /\ EditsDuringBuild \/ \A s \in Scan : ~Reading(s)
    /\ c \in (Versions[p] \cup {Absent}) \ {tree[p]}
    /\ TextsReturn \/ c = Absent \/ c \notin past
    /\ tree' = [tree EXCEPT ![p] = c] /\ past' = past \cup {c}
    /\ UNCHANGED <<diskVars, lock, job, builds, faults, kills>>

(* SIGKILL: the kernel drops the lock, the memory is gone.                 *)
Kill(s) ==
    /\ kills < MaxKills /\ kills' = kills + 1
    /\ ~Over(s)
    /\ job' = [job EXCEPT ![s] = Idle]
    /\ lock' = IF lock = s THEN Nobody ELSE lock
    /\ UNCHANGED <<sources, diskVars, builds, edits, faults>>

Go(s, changes) == job' = [job EXCEPT ![s] = changes]
Return(s, graph, hashes, stale) ==
    Go(s, [Idle EXCEPT !.pc = "done", !.graph = graph, !.hashes = hashes, !.stale = stale])

Begin(s) ==
    /\ builds < MaxBuilds /\ builds' = builds + 1
    /\ Over(s)
    /\ Go(s, [Idle EXCEPT !.pc = "load", !.hashes = Hashes(tree)])
    /\ UNCHANGED <<sources, diskVars, lock, edits, faults, kills>>

LoadManifest(s) ==
    /\ job[s].pc = "load"
    /\ Go(s, IF manifest = NoIndex
             THEN [job[s] EXCEPT !.pc = "choose"]
             ELSE [job[s] EXCEPT !.pc = "sidecar", !.idx = Index(manifest, None)])
    /\ UNCHANGED <<sources, diskVars, lock, countVars>>

LoadSidecar(s) ==
    /\ job[s].pc = "sidecar"
    /\ LET man == job[s].idx.man IN
       Go(s, [job[s] EXCEPT !.pc = "choose",
                            !.idx = IF AllShardsExist(man) THEN Index(man, sidecar)
                                                           ELSE NoIndex])
    /\ UNCHANGED <<sources, diskVars, lock, countVars>>

(* Step 3a: the manifest is the sources.                                   *)
FullHit(s) ==
    /\ job[s].pc = "choose"
    /\ job[s].idx # NoIndex /\ job[s].idx.man = job[s].hashes
    /\ Return(s, FromShards(job[s].idx.man), job[s].hashes, FALSE)
    /\ UNCHANGED <<sources, diskVars, lock, countVars>>

Reusable(hashes) == DOMAIN hashes # {} /\ AllShardsExist(hashes)

(* Step 3a': every text has a shard, whichever build wrote it.             *)
Reuse(s) ==
    /\ job[s].pc = "choose"
    /\ job[s].idx # NoIndex /\ job[s].idx.man # job[s].hashes
    /\ Reusable(job[s].hashes)
    /\ Go(s, [job[s] EXCEPT !.pc = "lock", !.persist = "save",
                            !.graph = FromShards(job[s].hashes)])
    /\ UNCHANGED <<sources, diskVars, lock, countVars>>

(* Step 3b: refresh the index under the lock.                              *)
StartRefresh(s) ==
    /\ job[s].pc = "choose"
    /\ job[s].idx # NoIndex /\ job[s].idx.man # job[s].hashes
    /\ ~Reusable(job[s].hashes)
    /\ Go(s, [job[s] EXCEPT !.pc = "lock", !.persist = "refresh"])
    /\ UNCHANGED <<sources, diskVars, lock, countVars>>

(* Step 3c: no index.                                                      *)
ColdBuild(s) ==
    /\ job[s].pc = "choose"
    /\ job[s].idx = NoIndex
    /\ Go(s, [job[s] EXCEPT !.pc = "lock", !.persist = "save",
                            !.graph = Parsed(Hashes(tree))])
    /\ UNCHANGED <<sources, diskVars, lock, countVars>>
-----------------------------------------------------------------------------
(* Thirty seconds of LOCK_NB, or no index directory to put a lock in: the  *)
(* graph is returned and the index left alone.                             *)
GiveUpLock(s) ==
    /\ job[s].pc = "lock"
    /\ \/ lock # Nobody /\ faults' = faults
       \/ faults < MaxFaults /\ faults' = faults + 1
    /\ Return(s, IF job[s].persist = "save" THEN job[s].graph ELSE Parsed(Hashes(tree)),
              job[s].hashes, FALSE)
    /\ UNCHANGED <<sources, diskVars, lock, builds, edits, kills>>

(* save: a shard for every file that was hashed.                           *)
LockToSave(s) ==
    /\ job[s].pc = "lock" /\ job[s].persist = "save"
    /\ lock = Nobody /\ lock' = s
    /\ Go(s, [job[s] EXCEPT !.pc = "shards",
                 !.new = Index(job[s].hashes, ReverseRefs(job[s].graph)),
                 !.emit = DOMAIN job[s].hashes])
    /\ UNCHANGED <<sources, diskVars, countVars>>

(* Mutant: a deleted file is not a change.                                 *)
ChangedOnDisk(s) ==
    LET old == job[s].idx.man now == job[s].hashes IN
    {p \in DOMAIN now : ~(p \in DOMAIN old /\ old[p] = now[p])}

(* The files whose hash is not the manifest's, and those only it lists.    *)
Changed(s) ==
    LET old == job[s].idx.man now == job[s].hashes IN
    {p \in DOMAIN now : ~(p \in DOMAIN old /\ old[p] = now[p])}
        \cup (DOMAIN old \ DOMAIN now)

AffectedSymbols(s) ==
    {x \in DOMAIN job[s].idx.refs : job[s].idx.refs[x] \cap Changed(s) # {}}

(* Sidecar of a refresh: the entries of affected symbols are those of the  *)
(* new graph, the others stay, and deleted files leave all of them.        *)
RefreshedRefs(s, g, deleted) ==
    LET old == job[s].idx.refs
        new == ReverseRefs(g)
        kept == DOMAIN old \ (AffectedSymbols(s) \ DOMAIN new)
        entry(x) == (IF x \in AffectedSymbols(s) THEN new[x] ELSE old[x]) \ deleted
    IN [x \in {y \in kept : entry(y) # {}} |-> entry(x)]

(* _apply_incremental_locked up to its writes.  The hashes are taken anew; *)
(* the files that mention an affected symbol are written again as well.    *)
LockToRefresh(s) ==
    /\ job[s].pc = "lock" /\ job[s].persist = "refresh"
    /\ lock = Nobody /\ lock' = s
    /\ LET old       == job[s].idx.man
           affected  == Changed(s)
           mention   == UNION {job[s].idx.refs[x] : x \in AffectedSymbols(s)}
           deleted   == {p \in affected \cup mention : tree[p] = Absent}
           fresh     == (affected \cup mention) \ deleted
           dirty     == {p \in affected \ deleted :
                            ~(p \in DOMAIN old /\ old[p] = tree[p])}
           graph     == Parsed(Hashes(tree))
           hashes    == [p \in (DOMAIN old \cup fresh) \ deleted |->
                            IF p \in fresh THEN tree[p] ELSE old[p]]
       IN Go(s, [job[s] EXCEPT !.pc = "shards", !.graph = graph,
                    !.new = Index(hashes, RefreshedRefs(s, graph, deleted)),
                    !.emit = dirty \cup (mention \ deleted)])
    /\ UNCHANGED <<sources, diskVars, countVars>>

WriteShard(s, p) ==
    /\ job[s].pc = "shards" /\ p \in job[s].emit
    /\ shards' = WriteShardOf(p, job[s].new.man[p], job[s].graph)
    /\ Go(s, [job[s] EXCEPT !.emit = @ \ {p}])
    /\ UNCHANGED <<sources, manifest, sidecar, lock, countVars>>

(* An OSError of one shard: it is skipped, the manifest lists it all the   *)
(* same.                                                                   *)
WriteShardFails(s, p) ==
    /\ job[s].pc = "shards" /\ p \in job[s].emit
    /\ faults < MaxFaults /\ faults' = faults + 1
    /\ Go(s, [job[s] EXCEPT !.emit = @ \ {p}])
    /\ UNCHANGED <<sources, diskVars, lock, builds, edits, kills>>

WriteSidecar(s) ==
    /\ job[s].pc = "shards" /\ job[s].emit = {}
    /\ sidecar' = job[s].new.refs
    /\ Go(s, [job[s] EXCEPT !.pc = "manifest"])
    /\ UNCHANGED <<sources, manifest, shards, lock, countVars>>

WriteManifest(s) ==
    /\ job[s].pc = "manifest"
    /\ manifest' = job[s].new.man
    /\ lock' = Nobody
    /\ Return(s, job[s].graph, job[s].hashes, FALSE)
    /\ UNCHANGED <<sources, sidecar, shards, countVars>>

(* An OSError of the sidecar or the manifest.  save lets it out of         *)
(* build_from_root; around a refresh build_from_root falls back to the     *)
(* shards of the index it loaded.                                          *)
PersistFails(s) ==
    /\ \/ job[s].pc = "shards" /\ job[s].emit = {}
       \/ job[s].pc = "manifest"
    /\ faults < MaxFaults /\ faults' = faults + 1
    /\ lock' = Nobody
    /\ IF job[s].persist = "save"
       THEN Go(s, [Idle EXCEPT !.pc = "raised"])
       ELSE Return(s, FromShards(job[s].idx.man), job[s].idx.man, TRUE)
    /\ UNCHANGED <<sources, diskVars, builds, edits, kills>>
-----------------------------------------------------------------------------
Step(s) ==
    \/ LoadManifest(s) \/ LoadSidecar(s)
    \/ FullHit(s) \/ Reuse(s) \/ StartRefresh(s) \/ ColdBuild(s)
    \/ GiveUpLock(s) \/ LockToSave(s) \/ LockToRefresh(s)
    \/ \E p \in Path : WriteShard(s, p) \/ WriteShardFails(s, p)
    \/ WriteSidecar(s) \/ WriteManifest(s) \/ PersistFails(s)

Next ==
    \/ \E p \in Path, c \in Text \cup {Absent} : Edit(p, c)
    \/ \E s \in Scan : Begin(s) \/ Kill(s) \/ Step(s)

Spec == Init /\ [][Next]_vars
-----------------------------------------------------------------------------
Done(s) == job[s].pc = "done"

(* A graph has the symbols of one consistent set of texts, none missing    *)
(* and none left over, whatever shards earlier, concurrent, killed and     *)
(* failed builds have written or left unwritten: a fresh sweep             *)
(* (planner.plan) visits the files of these symbols and no other.          *)
GraphIsOfItsTexts ==
    \A s \in Scan : Done(s) =>
        LET hashes == job[s].hashes IN
        /\ job[s].graph.syms = Declared(hashes)
        /\ PlanFresh(job[s].graph) = {p \in DOMAIN hashes : Defs[hashes[p]] # {}}

(* No dependent is missed: for every set of changed files the plan on the  *)
(* graph has the files the plan on a graph parsed from scratch would have, *)
(* and the crawler's neighbors_of too.  Shards of files that did not       *)
(* change are not written again, so the edges of a graph are put together  *)
(* from shards of different builds.                                        *)
NoDependentMissed ==
    \A s \in Scan : Done(s) /\ ~job[s].stale =>
        LET fresh == Parsed(job[s].hashes) IN
        /\ \A changed \in SUBSET Path :
               Plan(fresh, tree, changed) \subseteq Plan(job[s].graph, tree, changed)
        /\ \A p \in Path : NeighborsOf(fresh, p) \subseteq NeighborsOf(job[s].graph, p)

(* Each manifest written lists the sources as they are, though a refresh   *)
(* only merges its changes into the manifest it loaded before it had the   *)
(* lock.                                                                   *)
ManifestIsExact ==
    [][\A s \in Scan : WriteManifest(s) => manifest' = job[s].hashes]_vars
=============================================================================
