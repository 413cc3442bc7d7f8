---------------------------- MODULE CrawlPicker -----------------------------
(***************************************************************************)
(* Which files a daemon's crawl looks at: autofix/crawl/picker.py,         *)
(* bundles.py, score.py and ledger.py under the loop of                    *)
(* autofix/cli/cycle_runner.py.  Every cycle replays the ledger, picks     *)
(* bundles by freshness times relevance, appends a row per bundle and      *)
(* analyzer, and sleeps.                                                   *)
(*                                                                         *)
(* Abstracted: time is counted in sleeps, ages of rows instead of          *)
(* timestamps; a fingerprint is its set of files; of the rows with one     *)
(* seed and one fingerprint the last is kept, and none that is older than  *)
(* both horizons, because no query tells the difference.  Relevance is a   *)
(* number that commits may change.  One crawl runs at a time.              *)
(***************************************************************************)
EXTENDS Integers, FiniteSetsExt, SequencesExt

CONSTANTS Tracked,        \* git ls-files, in order
          Neighbors,      \* Neighbors[f]: neighbors_of(f), sorted
          Size, Class,    \* bytes and FileClass of each file
          Impl,           \* the implementation a test file mirrors, or NoImpl
          Ignored,        \* files .autofixignore matches
          Relevances,     \* the relevance functions tried
          Configs,        \* the configurations tried
          Changes,        \* what git status may list, for impact cones
          Analyzers,      \* how many analyzers the tier has
          Horizon, Window, MaxHub, MaxFiles, MaxBytes, Oversize,
          NoImpl,
          CommitLimit, FaultLimit

File == ToSet(Tracked)

ASSUME PickerAssumption ==
    /\ Tracked \in Seq(File) /\ Neighbors \in [File -> Seq(File)]
    /\ Size \in [File -> Nat] /\ Impl \in [File -> File \cup {NoImpl}]
    /\ Relevances \subseteq [File -> Nat]
    /\ Configs \subseteq [bundles : Nat, classAware : BOOLEAN,
                          impactCone : BOOLEAN, scoring : BOOLEAN]
    /\ Changes \subseteq Seq(File) /\ IsFiniteSet(Changes)
    /\ Horizon \in Nat \ {0} /\ MaxHub \in Nat \ {0}
    /\ Window = Horizon         \* both 24 hours in crawl_constants.py
    /\ MaxFiles \in Nat \ {0} /\ Analyzers \in Nat \ {0}
    /\ CommitLimit \in Nat /\ FaultLimit \in Nat
    /\ \A f \in File : /\ f \notin ToSet(Neighbors[f]) /\ Impl[f] # f
                       /\ IsInjective(Neighbors[f])

VARIABLES relevance,   \* of each file, flags aside
          config,      \* bundles per cycle and crawler flags
          changed,     \* tracked files that differ from HEAD
          phase,       \* "picking", "analyzing" or "sleeping"
          batch,       \* the pairs of the cycle that are still to do, as bundles
          fresh,       \* HEAD is still the commit the cycle resolved
          ledger,      \* the readable rows on disk
          torn,        \* the ledger file ends within a line
          commits, faults
pickerVars == <<relevance, config, changed, phase, batch, fresh, ledger, torn, commits, faults>>

PickerInit ==
    /\ relevance \in Relevances /\ config \in Configs
    /\ changed = <<>> /\ phase = "picking" /\ batch = <<>> /\ fresh = TRUE
    /\ ledger = {} /\ torn = FALSE
    /\ commits = 0 /\ faults = 0
-----------------------------------------------------------------------------
(* Ledger queries. *)
Least(a, b) == IF a <= b THEN a ELSE b

Latest(rows) == CHOOSE r \in rows : \A x \in rows : r.age <= x.age
RowFreshness(r) == IF r.current THEN Least(r.age, Horizon) ELSE Horizon

(* Mutant: a file without a row counts as just scanned. *)
FreshnessUnseen(f) ==
    LET rows == {r \in ledger : f \in r.files}
    IN  IF rows = {} THEN 0 ELSE RowFreshness(Latest(rows))

(* file_freshness of the latest row of f, in units of 1/Horizon: 1.0 when  *)
(* there is none or HEAD has moved since, else its age over the horizon.   *)
Freshness(f) ==
    LET rows == {r \in ledger : f \in r.files}
    IN  IF rows = {} THEN Horizon ELSE RowFreshness(Latest(rows))

(* Distinct bundles of the window with f, as a seed or as a neighbor. *)
Appearances(f) ==
    Cardinality({r.files : r \in {x \in ledger : f \in x.files /\ x.age <= Window}})
-----------------------------------------------------------------------------
(* Scores.  Relevance has the flags applied when seeds are ranked, and not *)
(* when bundles are.                                                       *)
Junk == {"generated", "vendor", "build_output", "cache", "lockfile", "binary"}
LowValue == Junk \cup {"docs"}

(* In hundredths: penalties of 0.5 and 0.7, a boost of 0.15. *)
Ranked(f, value, scoring) ==
    LET low == IF Class[f] \in LowValue THEN value \div 2 ELSE value
        sized == IF Size[f] > Oversize THEN (low * 7) \div 10 ELSE low
        boosted == IF Class[f] = "entrypoint" THEN sized + 15 ELSE sized
    IN  IF scoring THEN Least(boosted, 100) ELSE value

BundleFreshness(b) == Max({Freshness(f) : f \in b.files})
Priority(b) == BundleFreshness(b) * relevance[b.seed]

UpTo(s, n) == SubSeq(s, 1, Least(n, Len(s)))

Bundle == [seed : File, files : SUBSET File]

(* sorted(..., reverse=True) of files or bundles with a key and the place  *)
(* they had: the greatest key first; equals keep their order.              *)
Keyed == [key : Int, at : Nat, item : File \cup Bundle]
Sorted[entries \in SUBSET Keyed] ==
    LET Ahead(e) == {d \in entries : d.key > e.key \/ (d.key = e.key /\ d.at < e.at)}
    IN  [n \in 1..Cardinality(entries) |->
            (CHOOSE e \in entries : Cardinality(Ahead(e)) = n - 1).item]

(* The files of a list that are not among these, in order. *)
Except(files, these) ==
    Sorted[{[key |-> 0, at |-> i, item |-> files[i]] :
                i \in {i \in DOMAIN files : files[i] \notin these}}]

(* The seeds of a cycle, three for each bundle it may take. *)
SeedsOf == [value \in Relevances |-> [c \in Configs |->
    LET Candidate(i) == [key |-> Ranked(Tracked[i], value[Tracked[i]], c.scoring),
                         at |-> i, item |-> Tracked[i]]
    IN  UpTo(Sorted[{Candidate(i) : i \in {i \in DOMAIN Tracked : Tracked[i] \notin Ignored}}],
             3 * c.bundles)]]

TopSeeds == SeedsOf[relevance][config]
-----------------------------------------------------------------------------
(* expand_bundle: a breadth-first search in which each file, once taken    *)
(* from the queue, is dropped or selected.                                 *)
Hops(seed, aware) == IF aware /\ Class[seed] = "entrypoint" THEN 2 ELSE 1

FirstHop(seed, aware) ==
    LET impl == IF aware /\ Class[seed] = "test" /\ Impl[seed] # NoImpl
                THEN <<Impl[seed]>> ELSE <<>>
    IN  impl \o Except(Neighbors[seed], ToSet(impl))

(* Mutant: the cap is compared with > instead of >=. *)
AdmittedLate(f, seed, aware, bytes) ==
    /\ Appearances(f) <= MaxHub
    /\ f \notin Ignored
    /\ aware => Class[f] \notin Junk /\ (Class[seed] = "config" => Class[f] = "source")
    /\ bytes + Size[f] <= MaxBytes

(* The filters of the loop: saturation, ignore file, class, bytes. *)
Admitted(f, seed, aware, bytes) ==
    /\ Appearances(f) < MaxHub
    /\ f \notin Ignored
    /\ aware => Class[f] \notin Junk /\ (Class[seed] = "config" => Class[f] = "source")
    /\ bytes + Size[f] <= MaxBytes

Entry == [file : File, depth : Nat]
Entries(files, depth) == [i \in DOMAIN files |-> [file |-> files[i], depth |-> depth]]
Walk == [queue : Seq(Entry), visited : SUBSET File, selected : SUBSET File, bytes : Nat]

Begin(seed, aware) ==
    [queue |-> Entries(FirstHop(seed, aware), 1),
     visited |-> {seed} \cup ToSet(FirstHop(seed, aware)),
     selected |-> {seed}, bytes |-> Size[seed]]

Over(w) == w.queue = <<>> \/ Cardinality(w.selected) >= MaxFiles

Select(w, e, seed, aware) ==
    LET more == IF e.depth < Hops(seed, aware)
                THEN Except(Neighbors[e.file], w.visited) ELSE <<>>
    IN  [queue |-> Tail(w.queue) \o Entries(more, e.depth + 1),
         visited |-> w.visited \cup ToSet(more),
         selected |-> w.selected \cup {e.file},
         bytes |-> w.bytes + Size[e.file]]

(* The next file of the queue, if the walk is not over. *)
Visit(seed, aware) ==
    [w \in Walk |->
        IF Over(w) THEN w
        ELSE IF Admitted(Head(w.queue).file, seed, aware, w.bytes)
             THEN Select(w, Head(w.queue), seed, aware)
             ELSE [w EXCEPT !.queue = Tail(@)]]

(* No file is queued twice: the walk is over when each could have been. *)
Expand(seed, aware) ==
    LET walk[n \in 0..Len(Tracked)] ==
            IF n = 0 THEN Begin(seed, aware) ELSE Visit(seed, aware)[walk[n - 1]]
    IN  [seed |-> seed, files |-> walk[Len(Tracked)].selected]

(* Of the bundles with one fingerprint the first. *)
Placed == [at : Nat, item : Bundle]
Distinct[bundles \in SUBSET Placed] ==
    {b \in bundles : \A d \in bundles : d.item.files = b.item.files => b.at <= d.at}

Expanded(seeds, aware) ==
    Distinct[{[at |-> i, item |-> Expand(seeds[i], aware)] : i \in DOMAIN seeds}]

PickNextBatch ==
    LET Weighed(e) == [key |-> Priority(e.item), at |-> e.at, item |-> e.item]
    IN  UpTo(Sorted[{Weighed(e) : e \in Expanded(TopSeeds, config.classAware)}], config.bundles)

(* With the flag on and a dirty tree, one bundle for each changed file. *)
ImpactCone == config.impactCone /\ changed # <<>>
PickImpactConeBatch ==
    LET Unweighed(e) == [key |-> 0, at |-> e.at, item |-> e.item]
    IN  Sorted[{Unweighed(e) : e \in Expanded(changed, FALSE)}]
-----------------------------------------------------------------------------
(* The cycle resolves HEAD, replays the ledger, and crosses its bundles    *)
(* with the analyzers.                                                     *)
Pick ==
    /\ phase = "picking"
    /\ \E bundles \in {IF ImpactCone THEN PickImpactConeBatch ELSE PickNextBatch} :
        /\ batch' = [i \in 1..(Len(bundles) * Analyzers) |-> bundles[((i - 1) \div Analyzers) + 1]]
        /\ fresh' = TRUE
        /\ phase' = IF bundles = <<>> THEN "sleeping" ELSE "analyzing"
        /\ UNCHANGED <<relevance, config, changed, ledger, torn, commits, faults>>

NextPair ==
    /\ phase = "analyzing"
    /\ batch' = Tail(batch)
    /\ phase' = IF Len(batch) = 1 THEN "sleeping" ELSE "analyzing"

(* A pair is analyzed and its row appended; behind a torn line both are    *)
(* unreadable.                                                             *)
Record ==
    LET b == Head(batch)
        row == [seed |-> b.seed, files |-> b.files, age |-> 0, current |-> fresh]
        others == {r \in ledger : r.seed # b.seed \/ r.files # b.files}
    IN  /\ NextPair
        /\ ledger' = IF torn THEN ledger ELSE others \cup {row}
        /\ torn' = FALSE
        /\ UNCHANGED <<relevance, config, changed, fresh, commits, faults>>

(* os.write takes part of the row, which record does not notice. *)
RecordShort ==
    /\ NextPair /\ faults < FaultLimit
    /\ torn' = TRUE /\ faults' = faults + 1
    /\ UNCHANGED <<relevance, config, changed, fresh, ledger, commits>>

(* An analysis or the append raises, or the daemon is killed and started   *)
(* again: the pairs that are left are dropped.                             *)
CycleFails ==
    /\ phase = "analyzing" /\ faults < FaultLimit
    /\ batch' = <<>> /\ phase' = "sleeping" /\ faults' = faults + 1
    /\ torn' \in {torn, TRUE}
    /\ UNCHANGED <<relevance, config, changed, fresh, ledger, commits>>

(* The daemon wakes up one interval later. *)
Wake ==
    /\ phase = "sleeping" /\ phase' = "picking"
    /\ ledger' = {[r EXCEPT !.age = @ + 1] :
                     r \in {x \in ledger : x.age < Max({Horizon, Window})}}
    /\ UNCHANGED <<relevance, config, changed, batch, fresh, torn, commits, faults>>

(* A commit of the operator: every row is of another commit now.           *)
CommitOther ==
    /\ commits < CommitLimit /\ commits' = commits + 1
    /\ relevance' \in Relevances
    /\ changed' = <<>> /\ fresh' = FALSE
    /\ ledger' = {[r EXCEPT !.current = FALSE] : r \in ledger}
    /\ UNCHANGED <<config, phase, batch, torn, faults>>

(* The operator, or a repair of a cycle, changes tracked files. *)
Edit ==
    /\ config.impactCone /\ commits < CommitLimit
    /\ changed' \in (Changes \cup {<<>>}) \ {changed}
    /\ UNCHANGED <<relevance, config, phase, batch, fresh, ledger, torn, commits, faults>>

CrawlStep == Pick \/ Record \/ Wake
PickerNext == CrawlStep \/ RecordShort \/ CycleFails \/ CommitOther \/ Edit

(* The daemon goes on: cycles end and sleeps are finite. *)
PickerSpec == PickerInit /\ [][PickerNext]_pickerVars /\ WF_pickerVars(CrawlStep)
-----------------------------------------------------------------------------
(* Every variable has its type. *)
PickerTypeOK ==
    /\ relevance \in Relevances /\ config \in Configs
    /\ changed \in Changes \cup {<<>>}
    /\ phase \in {"picking", "analyzing", "sleeping"}
    /\ batch \in Seq(Bundle)
    /\ ledger \subseteq [seed : File, files : SUBSET File,
                         age : 0..Max({Horizon, Window}), current : BOOLEAN]
    /\ fresh \in BOOLEAN /\ torn \in BOOLEAN
    /\ commits \in 0..CommitLimit /\ faults \in 0..FaultLimit

(* The most bundles a cycle may take. *)
LargestBatch == Max({config.bundles} \cup
                    (IF config.impactCone THEN {Len(c) : c \in Changes} ELSE {}))

(* The ledger is read once per cycle, before any of its bundles is         *)
(* recorded; so the saturation cap can be overrun, but by one batch only:  *)
(* in the window no file is a neighbor in more than MaxHub - 1 bundles and *)
(* those of one more cycle.                                                *)
HubAppearancesBounded ==
    \A f \in File :
        Cardinality({r.files : r \in {x \in ledger : /\ f \in x.files /\ x.seed # f
                                                     /\ x.age <= Window}})
            <= MaxHub - 1 + LargestBatch

Scanned(f) == \E r \in ledger : f \in r.files /\ r.age = 0 /\ r.current

(* f is among the seeds of the cycles, and after the whole horizon no      *)
(* other seed outweighs it that was scanned two cycles ago.                *)
MayRotate(f) ==
    /\ ~ImpactCone /\ relevance[f] > 0
    /\ f \in ToSet(TopSeeds)
    /\ \A g \in ToSet(TopSeeds) : relevance[g] * 2 < relevance[f] * Horizon

(* Such a file is looked at again and again, as a seed or in the bundle of *)
(* another, although saturation keeps changing the bundles: three seeds    *)
(* for a place are few enough for it.  (A seed with more neighbors than go *)
(* into Horizon bundles could stay stale for ever, and ahead.)             *)
SeedsRotate == \A f \in File : []<>(Scanned(f) \/ ~MayRotate(f))

(* docs/crawling.md: over time, every file becomes a seed.  A file outside *)
(* the first three per place by relevance never does, and one inside it    *)
(* may lose for ever to a hub whose bundle changes by saturation.          *)
EveryFileBecomesSeed == \A f \in File \ Ignored : <>(\E r \in ledger : r.seed = f)
=============================================================================
