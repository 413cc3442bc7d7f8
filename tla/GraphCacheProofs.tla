-------------------------- MODULE GraphCacheProofs --------------------------
(***************************************************************************)
(* What build_from_root guarantees for any number of files, texts,         *)
(* processes, builds, edits, failed writes and kills, as long as a file    *)
(* does not change between two reads of one build; for the graphs, no two  *)
(* tracked files may ever have the same text, either, and for their calls  *)
(* no file may return to an earlier text.  TLC refutes the theorems        *)
(* without.                                                                *)
(***************************************************************************)
EXTENDS GraphCache, TLAPS, WellFoundedInduction

Listed == Path \ Untracked
TextsOf(p) == Versions[p] \cup {FirstTree[p]}

(* No tracked file ever has the text of another.                           *)
DistinctTexts ==
    \A p, q \in Listed : \A c \in Text :
        c \in TextsOf(p) /\ c \in TextsOf(q) => p = q

(* The sources a build may see, the graphs and the indices it may make.    *)
Own == Listed \X Name
Maps == {m \in UNION {[D -> Text] : D \in SUBSET Listed} :
            \A p \in DOMAIN m : m[p] \in TextsOf(p)}
CallGraphs == [syms : SUBSET Own, edges : SUBSET (Own \X Own)]
RefMaps == UNION {[D -> SUBSET Listed] : D \in SUBSET Own}
Indices == [man : Maps, refs : RefMaps]
ShardMaps == UNION {[D -> CallGraphs] : D \in SUBSET Text}
Jobs == [pc : {"idle", "load", "sidecar", "choose", "lock", "shards", "manifest",
               "done", "raised"},
         hashes : Maps, idx : Indices \cup {NoIndex}, graph : CallGraphs,
         persist : {"none", "save", "refresh"}, new : Indices \cup {NoIndex},
         emit : SUBSET Listed, stale : BOOLEAN]

TreeTyped(t) ==
    /\ t \in [Path -> Text \cup {Absent}]
    /\ \A p \in Path : t[p] \in TextsOf(p) \cup {Absent}

Typed ==
    /\ TreeTyped(tree)
    /\ manifest \in Maps \cup {NoIndex}
    /\ sidecar \in RefMaps
    /\ shards \in ShardMaps
    /\ job \in [Scan -> Jobs]

(* Whoever has written it: a shard has the symbols of its text.            *)
ShardsOfTheirText ==
    DistinctTexts =>
        \A h \in DOMAIN shards, p \in Listed :
            h \in TextsOf(p) => shards[h].syms = SymbolsOf(p, h)

(* What a build knows at each step, D being the hashes that have a shard:  *)
(* until its last read its hashes are the sources; an index it has loaded  *)
(* has all its shards; what it is about to write is of its hashes.         *)
OfTexts(g, m) == DistinctTexts => g.syms = Declared(m)
Held(m, D) == \A p \in DOMAIN m : m[p] \in D

JobOK(j, t, D) ==
    /\ j.pc \in {"load", "sidecar", "choose", "lock"} => j.hashes = Hashes(t)
    /\ j.pc = "load" => j.idx = NoIndex
    /\ j.pc = "sidecar" => j.idx \in Indices
    /\ j.pc = "choose" /\ j.idx # NoIndex => Held(j.idx.man, D)
    /\ j.pc \in {"lock", "shards", "manifest"} =>
          /\ j.persist \in {"save", "refresh"}
          /\ j.persist = "refresh" => j.idx \in Indices /\ Held(j.idx.man, D)
    /\ j.pc = "lock" /\ j.persist = "save" => OfTexts(j.graph, j.hashes)
    /\ j.pc \in {"shards", "manifest"} =>
          /\ j.new \in Indices /\ j.new.man = j.hashes
          /\ j.emit \subseteq DOMAIN j.hashes
          /\ OfTexts(j.graph, j.hashes)
    /\ j.pc = "done" => OfTexts(j.graph, j.hashes)

(* The inductive invariant.                                                *)
GInv ==
    /\ Typed
    /\ ShardsOfTheirText
    /\ \A s \in Scan : JobOK(job[s], tree, DOMAIN shards)
-----------------------------------------------------------------------------
(* The hashes of typed sources are a map.                                  *)
LEMMA HashesTyped ==
    ASSUME NEW t, TreeTyped(t)
    PROVE  Hashes(t) \in Maps
<1> DEFINE D == {q \in Path \ Untracked : t[q] # Absent}
<1>1. Hashes(t) = [p \in D |-> t[p]]
  BY DEF Hashes
<1>2. D \in SUBSET Listed
  BY DEF Listed
<1>3. \A p \in D : t[p] \in Text /\ t[p] \in TextsOf(p)
  BY DEF TreeTyped
<1> HIDE DEF D
<1>4. [p \in D |-> t[p]] \in [D -> Text]
  BY <1>3
<1> QED
  BY <1>1, <1>2, <1>3, <1>4 DEF Maps

LEMMA MapFacts ==
    ASSUME NEW m \in Maps
    PROVE  /\ DOMAIN m \subseteq Listed
           /\ m = [p \in DOMAIN m |-> m[p]]
           /\ \A p \in DOMAIN m : m[p] \in Text /\ m[p] \in TextsOf(p)
BY DEF Maps

(* The symbols of a map of sources, and its parsed graph, are tracked.     *)
LEMMA DeclaredTyped ==
    ASSUME CallGraphAssumption, NEW m \in Maps
    PROVE  Declared(m) \subseteq Own
<1>1. \A p \in DOMAIN m : p \in Listed /\ Defs[m[p]] \subseteq Name
  BY MapFacts DEF CallGraphAssumption
<1>2. \A p \in DOMAIN m : SymbolsOf(p, m[p]) \subseteq Own
  BY <1>1 DEF SymbolsOf, Own
<1> QED
  BY <1>2 DEF Declared

LEMMA CallsTyped ==
    ASSUME CallGraphAssumption, NEW m \in Maps, NEW p \in DOMAIN m
    PROVE  Calls(m, p) \subseteq Own \X Own
<1>1. SymbolsOf(p, m[p]) \subseteq Own
  BY DeclaredTyped DEF Declared
<1>2. Declared(m) \subseteq Own
  BY DeclaredTyped
<1> QED
  BY <1>1, <1>2 DEF Calls

LEMMA ParsedTyped ==
    ASSUME CallGraphAssumption, NEW m \in Maps
    PROVE  Parsed(m) \in CallGraphs /\ Parsed(m).syms = Declared(m)
<1>1. Declared(m) \in SUBSET Own
  BY DeclaredTyped
<1>2. UNION {Calls(m, p) : p \in DOMAIN m} \in SUBSET (Own \X Own)
  BY CallsTyped
<1> QED
  BY <1>1, <1>2 DEF Parsed, CallGraphs

LEMMA NoGraphTyped == NoGraph \in CallGraphs
BY DEF NoGraph, CallGraphs

LEMMA NoneTyped == None \in RefMaps /\ None \in Maps /\ None \in ShardMaps
<1>1. None \in [{} -> SUBSET Listed] /\ None \in [{} -> Text] /\ None \in [{} -> CallGraphs]
  BY DEF None
<1>2. DOMAIN None = {}
  BY DEF None
<1>3. None \in RefMaps
  BY <1>1 DEF RefMaps
<1>4. None \in ShardMaps
  BY <1>1 DEF ShardMaps
<1>5. None \in Maps
  BY <1>1, <1>2 DEF Maps
<1> QED
  BY <1>3, <1>4, <1>5

LEMMA IdleTyped == Idle \in Jobs
<1>1. NoGraph \in CallGraphs /\ None \in Maps
  BY NoGraphTyped, NoneTyped
<1> QED
  BY <1>1 DEF Idle, Jobs

(* The files where a symbol of a graph is defined or called.               *)
LEMMA ReverseRefsTyped ==
    ASSUME NEW g \in CallGraphs
    PROVE  ReverseRefs(g) \in RefMaps
<1> DEFINE D == g.syms \cup {e[2] : e \in g.edges}
           V(s) == {x[1] : x \in (g.syms \cap {s}) \cup Callers(g, {s})}
<1>1. g.syms \subseteq Own /\ g.edges \subseteq Own \X Own
  BY DEF CallGraphs
<1>2. \A e \in g.edges : e[1] \in Own /\ e[2] \in Own
  BY <1>1
<1>3. D \in SUBSET Own
  BY <1>1, <1>2
<1>4. \A x \in Own : x[1] \in Listed
  BY DEF Own
<1>5. ASSUME NEW s
      PROVE  V(s) \in SUBSET Listed
  <2>1. Callers(g, {s}) \subseteq Own
    BY <1>2 DEF Callers
  <2> QED
    BY <2>1, <1>1, <1>4
<1>6. ReverseRefs(g) = [s \in D |-> V(s)]
  BY DEF ReverseRefs
<1> HIDE DEF D, V
<1>7. [s \in D |-> V(s)] \in [D -> SUBSET Listed]
  BY <1>5
<1> QED
  BY <1>3, <1>6, <1>7 DEF RefMaps

LEMMA RefFacts ==
    ASSUME NEW r \in RefMaps
    PROVE  DOMAIN r \subseteq Own /\ \A x \in DOMAIN r : r[x] \subseteq Listed
BY DEF RefMaps

(* A document has the symbols of its path, and edges of its graph.         *)
LEMMA DocumentTyped ==
    ASSUME NEW g \in CallGraphs, NEW p
    PROVE  EmitDocument(p, g) \in CallGraphs /\ EmitDocument(p, g).syms = SymbolsIn(g, p)
<1>1. SymbolsIn(g, p) \in SUBSET Own
  BY DEF SymbolsIn, CallGraphs
<1>2. {e \in g.edges : e[1] \in SymbolsIn(g, p) \/ e[2] \in SymbolsIn(g, p)}
        \in SUBSET (Own \X Own)
  BY DEF CallGraphs
<1> QED
  BY <1>1, <1>2 DEF EmitDocument, CallGraphs

LEMMA HeldShards ==
    ASSUME Typed
    PROVE  /\ DOMAIN shards \subseteq Text
           /\ \A h \in DOMAIN shards : shards[h] \in CallGraphs
BY DEF Typed, ShardMaps

(* A graph from shards is typed, and has the symbols of the map if every   *)
(* text has a shard.                                                       *)
LEMMA FromShardsTyped ==
    ASSUME Typed, ShardsOfTheirText, NEW m \in Maps
    PROVE  /\ FromShards(m) \in CallGraphs
           /\ Held(m, DOMAIN shards) => OfTexts(FromShards(m), m)
<1> DEFINE H == {m[p] : p \in DOMAIN m} \cap DOMAIN shards
           F == {shards[h] : h \in H}
           Y == UNION {d.syms : d \in F}
           E == UNION {d.edges : d \in F}
<1>1. FromShards(m) = [syms |-> Y, edges |-> E]
  BY DEF FromShards
<1>2. \A d \in F : d.syms \subseteq Own /\ d.edges \subseteq Own \X Own
  BY HeldShards DEF CallGraphs
<1>3. ASSUME Held(m, DOMAIN shards), DistinctTexts
      PROVE  Y = Declared(m)
  <2>1. H = {m[p] : p \in DOMAIN m}
    BY <1>3 DEF Held
  <2>2. \A p \in DOMAIN m : shards[m[p]].syms = SymbolsOf(p, m[p])
    BY <1>3, MapFacts DEF Held, ShardsOfTheirText
  <2>3. F = {shards[m[p]] : p \in DOMAIN m}
    BY <2>1
  <2>4. Y = UNION {shards[m[p]].syms : p \in DOMAIN m}
    BY <2>3
  <2>5. {shards[m[p]].syms : p \in DOMAIN m} = {SymbolsOf(p, m[p]) : p \in DOMAIN m}
    BY <2>2
  <2> QED
    BY <2>4, <2>5 DEF Declared
<1> HIDE DEF F, Y, E
<1>4. Y \in SUBSET Own /\ E \in SUBSET (Own \X Own)
  BY <1>2 DEF Y, E
<1> QED
  BY <1>1, <1>3, <1>4 DEF CallGraphs, OfTexts

(* The symbols of one file among those of a map are those of its text.     *)
LEMMA OwnSymbols ==
    ASSUME NEW m \in Maps, NEW g, g.syms = Declared(m), NEW p \in DOMAIN m
    PROVE  SymbolsIn(g, p) = SymbolsOf(p, m[p])
<1>1. \A q \in DOMAIN m : \A x \in SymbolsOf(q, m[q]) : x[1] = q
  BY DEF SymbolsOf
<1>2. \A x \in Declared(m) : \E q \in DOMAIN m : x \in SymbolsOf(q, m[q])
  BY DEF Declared
<1>3. SymbolsOf(p, m[p]) \subseteq Declared(m)
  BY DEF Declared
<1> QED
  BY <1>1, <1>2, <1>3 DEF SymbolsIn

(* Whatever has a shard keeps it, so what a build knows stays true.        *)
LEMMA MoreShards ==
    ASSUME NEW j, NEW t, NEW D, NEW E, JobOK(j, t, D), D \subseteq E
    PROVE  JobOK(j, t, E)
BY DEF JobOK, Held

(* A step of one build that leaves the sources alone.                      *)
LEMMA OneStep ==
    ASSUME GInv, NEW s \in Scan, NEW n \in Jobs, Go(s, n), tree' = tree,
           DOMAIN shards \subseteq DOMAIN shards', JobOK(n, tree, DOMAIN shards')
    PROVE  /\ job' \in [Scan -> Jobs]
           /\ \A r \in Scan : JobOK(job'[r], tree', DOMAIN shards')
<1>1. job \in [Scan -> Jobs] /\ job' = [job EXCEPT ![s] = n]
  BY DEF GInv, Typed, Go
<1>2. \A r \in Scan : job'[r] = IF r = s THEN n ELSE job[r]
  BY <1>1
<1>3. \A r \in Scan : JobOK(job[r], tree, DOMAIN shards')
  BY MoreShards DEF GInv
<1> QED
  BY <1>1, <1>2, <1>3

(* ... and the shards: nothing but what the build holds is to be looked at. *)
LEMMA QuietStep ==
    ASSUME GInv, NEW s \in Scan, NEW n \in Jobs, Go(s, n),
           tree' = tree, shards' = shards,
           manifest' \in Maps \cup {NoIndex}, sidecar' \in RefMaps,
           JobOK(n, tree, DOMAIN shards)
    PROVE  GInv'
<1>1. /\ job' \in [Scan -> Jobs]
      /\ \A r \in Scan : JobOK(job'[r], tree', DOMAIN shards')
  BY OneStep
<1>2. Typed'
  BY <1>1 DEF GInv, Typed
<1>3. ShardsOfTheirText'
  BY DEF GInv, ShardsOfTheirText
<1> QED
  BY <1>1, <1>2, <1>3 DEF GInv

LEMMA JobFacts ==
    ASSUME GInv, NEW s \in Scan
    PROVE  /\ job[s] \in Jobs /\ JobOK(job[s], tree, DOMAIN shards)
           /\ manifest \in Maps \cup {NoIndex} /\ sidecar \in RefMaps
           /\ TreeTyped(tree) /\ Typed /\ ShardsOfTheirText
BY DEF GInv, Typed

(* What a build returns.                                                   *)
LEMMA Returned ==
    ASSUME NEW g \in CallGraphs, NEW m \in Maps, NEW b \in BOOLEAN, NEW t, NEW D,
           OfTexts(g, m)
    PROVE  LET n == [Idle EXCEPT !.pc = "done", !.graph = g, !.hashes = m, !.stale = b]
           IN n \in Jobs /\ JobOK(n, t, D)
<1> DEFINE n == [Idle EXCEPT !.pc = "done", !.graph = g, !.hashes = m, !.stale = b]
<1>1. n \in Jobs
  BY IdleTyped DEF Idle, Jobs
<1>2. n.pc = "done" /\ n.graph = g /\ n.hashes = m
  BY DEF Idle
<1>3. JobOK(n, t, D)
  <2> HIDE DEF n
  <2> QED
    BY <1>2 DEF JobOK
<1> QED
  BY <1>1, <1>3
-----------------------------------------------------------------------------
(* Each action preserves the invariant.                                    *)
LEMMA BeginKeeps ==
    ASSUME GInv, NEW s \in Scan, Begin(s)
    PROVE  GInv'
<1> DEFINE n == [Idle EXCEPT !.pc = "load", !.hashes = Hashes(tree)]
<1>1. Hashes(tree) \in Maps
  BY HashesTyped, JobFacts
<1>2. n \in Jobs
  BY <1>1, IdleTyped DEF Idle, Jobs
<1>3. n.pc = "load" /\ n.hashes = Hashes(tree) /\ n.idx = NoIndex
  BY DEF Idle
<1>4. JobOK(n, tree, DOMAIN shards)
  <2> HIDE DEF n
  <2> QED
    BY <1>3 DEF JobOK
<1> QED
  BY <1>2, <1>4, QuietStep, JobFacts DEF Begin, sources, diskVars

LEMMA LoadManifestKeeps ==
    ASSUME GInv, NEW s \in Scan, LoadManifest(s)
    PROVE  GInv'
<1>0. job[s] \in Jobs /\ JobOK(job[s], tree, DOMAIN shards) /\ job[s].pc = "load"
  BY JobFacts DEF LoadManifest
<1>1. CASE manifest = NoIndex
  <2> DEFINE n == [job[s] EXCEPT !.pc = "choose"]
  <2>1. n \in Jobs
    BY <1>0 DEF Jobs
  <2>2. n.pc = "choose" /\ n.hashes = job[s].hashes /\ n.idx = job[s].idx
    BY <1>0 DEF Jobs
  <2>3. JobOK(n, tree, DOMAIN shards)
    <3> HIDE DEF n
    <3> QED
      BY <1>0, <2>2 DEF JobOK
  <2> QED
    BY <1>1, <2>1, <2>3, QuietStep, JobFacts DEF LoadManifest, sources, diskVars
<1>2. CASE manifest # NoIndex
  <2> DEFINE i == Index(manifest, None)
             n == [job[s] EXCEPT !.pc = "sidecar", !.idx = i]
  <2>1. i \in Indices
    BY <1>2, JobFacts, NoneTyped DEF Index, Indices
  <2> HIDE DEF i
  <2>2. n \in Jobs
    BY <1>0, <2>1 DEF Jobs
  <2>3. n.pc = "sidecar" /\ n.hashes = job[s].hashes /\ n.idx = i
    BY <1>0 DEF Jobs
  <2>4. JobOK(n, tree, DOMAIN shards)
    <3> HIDE DEF n
    <3> QED
      BY <1>0, <2>1, <2>3 DEF JobOK
  <2> QED
    BY <1>2, <2>2, <2>4, QuietStep, JobFacts DEF LoadManifest, sources, diskVars, i
<1> QED
  BY <1>1, <1>2

LEMMA LoadSidecarKeeps ==
    ASSUME GInv, NEW s \in Scan, LoadSidecar(s)
    PROVE  GInv'
<1> DEFINE man == job[s].idx.man
           i == IF AllShardsExist(man) THEN Index(man, sidecar) ELSE NoIndex
           n == [job[s] EXCEPT !.pc = "choose", !.idx = i]
<1>0. job[s] \in Jobs /\ JobOK(job[s], tree, DOMAIN shards) /\ job[s].pc = "sidecar"
  BY JobFacts DEF LoadSidecar
<1>1. job[s].idx \in Indices
  BY <1>0 DEF JobOK
<1>2. man \in Maps /\ sidecar \in RefMaps
  BY <1>1, JobFacts DEF Indices
<1>3. i \in Indices \cup {NoIndex}
  BY <1>2 DEF Index, Indices
<1>4. i # NoIndex => Held(i.man, DOMAIN shards)
  BY DEF Index, AllShardsExist, Held
<1>5. Go(s, n)
  BY DEF LoadSidecar
<1> HIDE DEF i
<1>6. n \in Jobs
  BY <1>0, <1>3 DEF Jobs
<1>7. n.pc = "choose" /\ n.hashes = job[s].hashes /\ n.idx = i
  BY <1>0 DEF Jobs
<1> HIDE DEF n
<1>8. JobOK(n, tree, DOMAIN shards)
  BY <1>0, <1>4, <1>7 DEF JobOK
<1> QED
  BY <1>5, <1>6, <1>8, QuietStep, JobFacts DEF LoadSidecar, sources, diskVars

LEMMA FullHitKeeps ==
    ASSUME GInv, NEW s \in Scan, FullHit(s)
    PROVE  GInv'
<1> DEFINE g == FromShards(job[s].idx.man)
           n == [Idle EXCEPT !.pc = "done", !.graph = g, !.hashes = job[s].hashes,
                             !.stale = FALSE]
<1>0. job[s] \in Jobs /\ JobOK(job[s], tree, DOMAIN shards) /\ job[s].pc = "choose"
  BY JobFacts DEF FullHit
<1>1. job[s].hashes \in Maps /\ job[s].idx.man = job[s].hashes
  BY <1>0 DEF FullHit, Jobs
<1>2. Held(job[s].idx.man, DOMAIN shards)
  BY <1>0 DEF FullHit, JobOK
<1>3. g \in CallGraphs /\ OfTexts(g, job[s].hashes)
  BY <1>1, <1>2, FromShardsTyped, JobFacts
<1>4. Go(s, n)
  BY DEF FullHit, Return
<1> HIDE DEF g
<1>5. n \in Jobs /\ JobOK(n, tree, DOMAIN shards)
  BY <1>1, <1>3, Returned
<1> HIDE DEF n
<1> QED
  BY <1>4, <1>5, QuietStep, JobFacts DEF FullHit, sources, diskVars

LEMMA ReuseKeeps ==
    ASSUME GInv, NEW s \in Scan, Reuse(s)
    PROVE  GInv'
<1> DEFINE g == FromShards(job[s].hashes)
           n == [job[s] EXCEPT !.pc = "lock", !.persist = "save", !.graph = g]
<1>0. job[s] \in Jobs /\ JobOK(job[s], tree, DOMAIN shards) /\ job[s].pc = "choose"
  BY JobFacts DEF Reuse
<1>1. job[s].hashes \in Maps
  BY <1>0 DEF Jobs
<1>2. Held(job[s].hashes, DOMAIN shards)
  BY DEF Reuse, Reusable, AllShardsExist, Held
<1>3. g \in CallGraphs /\ OfTexts(g, job[s].hashes)
  BY <1>1, <1>2, FromShardsTyped, JobFacts
<1>4. Go(s, n)
  BY DEF Reuse
<1> HIDE DEF g
<1>5. n \in Jobs
  BY <1>0, <1>3 DEF Jobs
<1>6. n.pc = "lock" /\ n.persist = "save" /\ n.graph = g /\ n.hashes = job[s].hashes
  BY <1>0 DEF Jobs
<1> HIDE DEF n
<1>7. JobOK(n, tree, DOMAIN shards)
  BY <1>0, <1>3, <1>6 DEF JobOK
<1> QED
  BY <1>4, <1>5, <1>7, QuietStep, JobFacts DEF Reuse, sources, diskVars

LEMMA StartRefreshKeeps ==
    ASSUME GInv, NEW s \in Scan, StartRefresh(s)
    PROVE  GInv'
<1> DEFINE n == [job[s] EXCEPT !.pc = "lock", !.persist = "refresh"]
<1>0. job[s] \in Jobs /\ JobOK(job[s], tree, DOMAIN shards) /\ job[s].pc = "choose"
  BY JobFacts DEF StartRefresh
<1>1. job[s].idx \in Indices
  BY <1>0 DEF StartRefresh, Jobs
<1>2. Held(job[s].idx.man, DOMAIN shards)
  BY <1>0 DEF StartRefresh, JobOK
<1>4. Go(s, n)
  BY DEF StartRefresh
<1>5. n \in Jobs
  BY <1>0 DEF Jobs
<1>6. n.pc = "lock" /\ n.persist = "refresh" /\ n.idx = job[s].idx /\ n.hashes = job[s].hashes
  BY <1>0 DEF Jobs
<1> HIDE DEF n
<1>7. JobOK(n, tree, DOMAIN shards)
  BY <1>0, <1>1, <1>2, <1>6 DEF JobOK
<1> QED
  BY <1>4, <1>5, <1>7, QuietStep, JobFacts DEF StartRefresh, sources, diskVars

(* What a build parses is of its hashes, as the sources have not changed.  *)
LEMMA ParsedAnew ==
    ASSUME CallGraphAssumption, GInv, NEW s \in Scan, job[s].pc \in {"choose", "lock"}
    PROVE  /\ job[s].hashes = Hashes(tree) /\ Hashes(tree) \in Maps
           /\ Parsed(Hashes(tree)) \in CallGraphs
           /\ OfTexts(Parsed(Hashes(tree)), job[s].hashes)
<1>1. job[s].hashes = Hashes(tree)
  BY JobFacts DEF JobOK
<1>2. Hashes(tree) \in Maps
  BY HashesTyped, JobFacts
<1> QED
  BY <1>1, <1>2, ParsedTyped DEF OfTexts

LEMMA ColdBuildKeeps ==
    ASSUME CallGraphAssumption, GInv, NEW s \in Scan, ColdBuild(s)
    PROVE  GInv'
<1> DEFINE g == Parsed(Hashes(tree))
           n == [job[s] EXCEPT !.pc = "lock", !.persist = "save", !.graph = g]
<1>0. job[s] \in Jobs /\ JobOK(job[s], tree, DOMAIN shards) /\ job[s].pc = "choose"
  BY JobFacts DEF ColdBuild
<1>3. g \in CallGraphs /\ OfTexts(g, job[s].hashes)
  BY <1>0, ParsedAnew
<1>4. Go(s, n)
  BY DEF ColdBuild
<1> HIDE DEF g
<1>5. n \in Jobs
  BY <1>0, <1>3 DEF Jobs
<1>6. n.pc = "lock" /\ n.persist = "save" /\ n.graph = g /\ n.hashes = job[s].hashes
  BY <1>0 DEF Jobs
<1> HIDE DEF n
<1>7. JobOK(n, tree, DOMAIN shards)
  BY <1>0, <1>3, <1>6 DEF JobOK
<1> QED
  BY <1>4, <1>5, <1>7, QuietStep, JobFacts DEF ColdBuild, sources, diskVars

LEMMA GiveUpLockKeeps ==
    ASSUME CallGraphAssumption, GInv, NEW s \in Scan, GiveUpLock(s)
    PROVE  GInv'
<1> DEFINE g == IF job[s].persist = "save" THEN job[s].graph ELSE Parsed(Hashes(tree))
           n == [Idle EXCEPT !.pc = "done", !.graph = g, !.hashes = job[s].hashes,
                             !.stale = FALSE]
<1>0. job[s] \in Jobs /\ JobOK(job[s], tree, DOMAIN shards) /\ job[s].pc = "lock"
  BY JobFacts DEF GiveUpLock
<1>1. job[s].hashes \in Maps /\ job[s].graph \in CallGraphs
  BY <1>0 DEF Jobs
<1>2. job[s].persist = "save" => OfTexts(job[s].graph, job[s].hashes)
  BY <1>0 DEF JobOK
<1>3. g \in CallGraphs /\ OfTexts(g, job[s].hashes)
  BY <1>0, <1>1, <1>2, ParsedAnew
<1>4. Go(s, n)
  BY DEF GiveUpLock, Return
<1> HIDE DEF g
<1>5. n \in Jobs /\ JobOK(n, tree, DOMAIN shards)
  BY <1>1, <1>3, Returned
<1> HIDE DEF n
<1> QED
  BY <1>4, <1>5, QuietStep, JobFacts DEF GiveUpLock, sources, diskVars

LEMMA LockToSaveKeeps ==
    ASSUME GInv, NEW s \in Scan, LockToSave(s)
    PROVE  GInv'
<1> DEFINE new == Index(job[s].hashes, ReverseRefs(job[s].graph))
           n == [job[s] EXCEPT !.pc = "shards", !.new = new, !.emit = DOMAIN job[s].hashes]
<1>0. /\ job[s] \in Jobs /\ JobOK(job[s], tree, DOMAIN shards)
      /\ job[s].pc = "lock" /\ job[s].persist = "save"
  BY JobFacts DEF LockToSave
<1>1. job[s].hashes \in Maps /\ job[s].graph \in CallGraphs
  BY <1>0 DEF Jobs
<1>2. OfTexts(job[s].graph, job[s].hashes)
  BY <1>0 DEF JobOK
<1>3. new \in Indices /\ new.man = job[s].hashes
  BY <1>1, ReverseRefsTyped DEF Index, Indices
<1>4. DOMAIN job[s].hashes \in SUBSET Listed
  BY <1>1, MapFacts
<1>5. Go(s, n)
  BY DEF LockToSave
<1> HIDE DEF new
<1>6. n \in Jobs
  BY <1>0, <1>3, <1>4 DEF Jobs
<1>7. /\ n.pc = "shards" /\ n.persist = "save" /\ n.new = new /\ n.graph = job[s].graph
      /\ n.hashes = job[s].hashes /\ n.emit = DOMAIN job[s].hashes
  BY <1>0 DEF Jobs
<1> HIDE DEF n
<1>8. JobOK(n, tree, DOMAIN shards)
  BY <1>2, <1>3, <1>7 DEF JobOK
<1> QED
  BY <1>5, <1>6, <1>8, QuietStep, JobFacts DEF LockToSave, sources, diskVars

(* The sidecar of a refresh mentions tracked files only.                   *)
LEMMA RefreshedTyped ==
    ASSUME NEW s, NEW g \in CallGraphs, NEW deleted, job[s].idx \in Indices
    PROVE  RefreshedRefs(s, g, deleted) \in RefMaps
<1> DEFINE old == job[s].idx.refs
           new == ReverseRefs(g)
           A == AffectedSymbols(s)
           kept == DOMAIN old \ (A \ DOMAIN new)
           entry(x) == (IF x \in A THEN new[x] ELSE old[x]) \ deleted
           K == {y \in kept : entry(y) # {}}
<1>1. old \in RefMaps /\ new \in RefMaps
  BY ReverseRefsTyped DEF Indices
<1>2. RefreshedRefs(s, g, deleted) = [x \in K |-> entry(x)]
  BY DEF RefreshedRefs
<1> HIDE DEF old, new, A
<1>3. DOMAIN old \subseteq Own
  BY <1>1, RefFacts
<1>4. K \in SUBSET Own
  BY <1>3
<1>5. ASSUME NEW x \in kept
      PROVE  entry(x) \in SUBSET Listed
  <2>1. CASE x \in A
    <3>1. x \in DOMAIN new
      BY <2>1, <1>5
    <3>2. new[x] \subseteq Listed
      BY <3>1, <1>1, RefFacts
    <3> QED
      BY <2>1, <3>2
  <2>2. CASE x \notin A
    <3>1. x \in DOMAIN old
      BY <1>5
    <3>2. old[x] \subseteq Listed
      BY <3>1, <1>1, RefFacts
    <3> QED
      BY <2>2, <3>2
  <2> QED
    BY <2>1, <2>2
<1>6. K \subseteq kept
  OBVIOUS
<1> HIDE DEF K, entry, kept
<1>7. [x \in K |-> entry(x)] \in [K -> SUBSET Listed]
  BY <1>5, <1>6
<1> QED
  BY <1>2, <1>4, <1>7 DEF RefMaps

(* The hashes a refresh writes when it looks at the files of A again.      *)
Gone(A) == {p \in A : tree[p] = Absent}
Merged(old, A) ==
    [p \in (DOMAIN old \cup (A \ Gone(A))) \ Gone(A) |->
        IF p \in A \ Gone(A) THEN tree[p] ELSE old[p]]

Differ(old, now) ==
    {p \in DOMAIN now : ~(p \in DOMAIN old /\ old[p] = now[p])}
        \cup (DOMAIN old \ DOMAIN now)

(* The merge of a refresh is exact: a file whose hash it keeps is neither  *)
(* deleted nor changed, and a file that is new to it was changed.          *)
LEMMA MergeIsExact ==
    ASSUME NEW old \in Maps, NEW A \in SUBSET Listed, TreeTyped(tree),
           Differ(old, Hashes(tree)) \subseteq A
    PROVE  Merged(old, A) = Hashes(tree) /\ A \ Gone(A) \subseteq DOMAIN Hashes(tree)
<1> DEFINE now == Hashes(tree)
           fresh == A \ Gone(A)
           D == (DOMAIN old \cup fresh) \ Gone(A)
           E(p) == IF p \in fresh THEN tree[p] ELSE old[p]
<1>1. DOMAIN now = {p \in Listed : tree[p] # Absent} /\ \A p \in DOMAIN now : now[p] = tree[p]
  BY DEF Hashes, Listed
<1>2. now = [p \in DOMAIN now |-> now[p]]
  BY DEF Hashes
<1>3. DOMAIN old \subseteq Listed
  BY MapFacts
<1>4. Differ(old, now) \subseteq A
  OBVIOUS
<1>5. Merged(old, A) = [p \in D |-> E(p)]
  BY DEF Merged
<1> HIDE DEF now
<1>6. fresh \subseteq DOMAIN now
  BY <1>1 DEF Gone
<1>7. D \subseteq DOMAIN now
  BY <1>4, <1>6 DEF Differ
<1>8. DOMAIN now \subseteq D
  BY <1>1, <1>4 DEF Differ, Gone
<1>9. \A p \in D : E(p) = now[p]
  BY <1>1, <1>4, <1>7 DEF Differ
<1>10. [p \in D |-> E(p)] = now
  <2> HIDE DEF D, E
  <2> QED
    BY <1>2, <1>7, <1>8, <1>9
<1> QED
  BY <1>5, <1>6, <1>10 DEF now

LEMMA LockToRefreshKeeps ==
    ASSUME CallGraphAssumption, GInv, NEW s \in Scan, LockToRefresh(s)
    PROVE  GInv'
<1> DEFINE old       == job[s].idx.man
           affected  == Changed(s)
           mention   == UNION {job[s].idx.refs[x] : x \in AffectedSymbols(s)}
           deleted   == {p \in affected \cup mention : tree[p] = Absent}
           fresh     == (affected \cup mention) \ deleted
           dirty     == {p \in affected \ deleted :
                            ~(p \in DOMAIN old /\ old[p] = tree[p])}
           graph     == Parsed(Hashes(tree))
           hashes    == [p \in (DOMAIN old \cup fresh) \ deleted |->
                            IF p \in fresh THEN tree[p] ELSE old[p]]
           refs == RefreshedRefs(s, graph, deleted)
           new == Index(hashes, refs)
           emit == dirty \cup (mention \ deleted)
           n == [job[s] EXCEPT !.pc = "shards", !.graph = graph, !.new = new, !.emit = emit]
<1>0. /\ job[s] \in Jobs /\ JobOK(job[s], tree, DOMAIN shards)
      /\ job[s].pc = "lock" /\ job[s].persist = "refresh"
  BY JobFacts DEF LockToRefresh
<1>1. job[s].idx \in Indices /\ Held(old, DOMAIN shards)
  BY <1>0 DEF JobOK
<1>2. old \in Maps /\ job[s].idx.refs \in RefMaps
  BY <1>1 DEF Indices
<1>3. /\ job[s].hashes = Hashes(tree) /\ Hashes(tree) \in Maps
      /\ graph \in CallGraphs /\ OfTexts(graph, job[s].hashes)
  BY <1>0, ParsedAnew
<1>4. mention \in SUBSET Listed
  BY <1>2, RefFacts DEF AffectedSymbols
<1>5. affected = Differ(old, Hashes(tree))
  BY <1>3 DEF Changed, Differ
<1>6. Go(s, n)
  BY DEF LockToRefresh
<1> HIDE DEF mention, affected, graph
<1>7. hashes = Hashes(tree) /\ fresh \subseteq DOMAIN Hashes(tree)
  <2>1. deleted = Gone(affected \cup mention) /\ fresh = (affected \cup mention) \ deleted
    BY DEF Gone
  <2>2. hashes = Merged(old, affected \cup mention)
    BY DEF Merged, Gone
  <2>3. affected \cup mention \in SUBSET Listed
    BY <1>2, <1>3, <1>4, <1>5, MapFacts DEF Differ
  <2> HIDE DEF old, deleted, fresh, hashes
  <2> QED
    BY <1>2, <1>5, <2>1, <2>2, <2>3, MergeIsExact, JobFacts
<1>8. emit \subseteq fresh
  OBVIOUS
<1>9. refs \in RefMaps
  BY <1>1, <1>3, RefreshedTyped
<1> HIDE DEF old, deleted, fresh, dirty, hashes, refs
<1>10. new \in Indices /\ new.man = job[s].hashes
  BY <1>3, <1>7, <1>9 DEF Index, Indices
<1>11. emit \subseteq DOMAIN job[s].hashes /\ emit \in SUBSET Listed
  BY <1>3, <1>7, <1>8, MapFacts
<1> HIDE DEF new, emit
<1>12. n \in Jobs
  BY <1>0, <1>3, <1>10, <1>11 DEF Jobs
<1>13. /\ n.pc = "shards" /\ n.persist = "refresh" /\ n.new = new /\ n.graph = graph
       /\ n.hashes = job[s].hashes /\ n.emit = emit /\ n.idx = job[s].idx
  BY <1>0 DEF Jobs
<1> HIDE DEF n
<1>14. JobOK(n, tree, DOMAIN shards)
  BY <1>1, <1>3, <1>10, <1>11, <1>13 DEF JobOK, old
<1> QED
  BY <1>6, <1>12, <1>14, QuietStep, JobFacts DEF LockToRefresh, sources, diskVars

(* A shard that is written is of its text: no other file has that text.    *)
LEMMA WriteShardKeeps ==
    ASSUME GInv, NEW s \in Scan, NEW p \in Path, WriteShard(s, p)
    PROVE  GInv'
<1> DEFINE h == job[s].hashes[p]
           doc == EmitDocument(p, job[s].graph)
           n == [job[s] EXCEPT !.emit = @ \ {p}]
<1>0. /\ job[s] \in Jobs /\ JobOK(job[s], tree, DOMAIN shards)
      /\ job[s].pc = "shards" /\ p \in job[s].emit
  BY JobFacts DEF WriteShard
<1>1. job[s].hashes \in Maps /\ job[s].graph \in CallGraphs
  BY <1>0 DEF Jobs
<1>2. /\ job[s].new.man = job[s].hashes
      /\ p \in DOMAIN job[s].hashes /\ OfTexts(job[s].graph, job[s].hashes)
  BY <1>0 DEF JobOK
<1>3. p \in Listed /\ h \in Text /\ h \in TextsOf(p)
  BY <1>1, <1>2, MapFacts
<1>4. doc \in CallGraphs /\ (DistinctTexts => doc.syms = SymbolsOf(p, h))
  BY <1>1, <1>2, OwnSymbols, DocumentTyped DEF OfTexts
<1>5. shards' = [k \in DOMAIN shards \cup {h} |-> IF k = h THEN doc ELSE shards[k]]
  BY <1>2 DEF WriteShard, WriteShardOf
<1>6. Go(s, n) /\ UNCHANGED <<tree, manifest, sidecar>>
  BY DEF WriteShard, sources
<1> HIDE DEF h, doc
<1>7. shards' \in ShardMaps
  <2>1. DOMAIN shards \cup {h} \in SUBSET Text
    BY <1>3, HeldShards, JobFacts
  <2>2. shards' \in [DOMAIN shards \cup {h} -> CallGraphs]
    BY <1>4, <1>5, HeldShards, JobFacts
  <2> QED
    BY <2>1, <2>2 DEF ShardMaps
<1>8. ShardsOfTheirText'
  <2> SUFFICES ASSUME DistinctTexts, NEW k \in DOMAIN shards', NEW q \in Listed, k \in TextsOf(q)
               PROVE  shards'[k].syms = SymbolsOf(q, k)
    BY DEF ShardsOfTheirText
  <2>1. CASE k = h
    BY <2>1, <1>3, <1>4, <1>5 DEF DistinctTexts
  <2>2. CASE k # h
    BY <2>2, <1>5, JobFacts DEF ShardsOfTheirText
  <2> QED
    BY <2>1, <2>2
<1>9. DOMAIN shards \subseteq DOMAIN shards'
  BY <1>5
<1>10. n \in Jobs
  BY <1>0 DEF Jobs
<1>11. /\ n.pc = "shards" /\ n.persist = job[s].persist /\ n.new = job[s].new
       /\ n.graph = job[s].graph /\ n.hashes = job[s].hashes /\ n.idx = job[s].idx
       /\ n.emit \subseteq job[s].emit
  BY <1>0 DEF Jobs
<1> HIDE DEF n
<1>12. JobOK(n, tree, DOMAIN shards')
  <2>1. JobOK(n, tree, DOMAIN shards)
    BY <1>0, <1>11 DEF JobOK
  <2> QED
    BY <2>1, <1>9, MoreShards
<1>13. /\ job' \in [Scan -> Jobs]
       /\ \A r \in Scan : JobOK(job'[r], tree', DOMAIN shards')
  BY <1>6, <1>9, <1>10, <1>12, OneStep
<1>14. Typed'
  BY <1>6, <1>7, <1>13, JobFacts DEF Typed
<1> QED
  BY <1>8, <1>13, <1>14 DEF GInv

LEMMA WriteShardFailsKeeps ==
    ASSUME GInv, NEW s \in Scan, NEW p \in Path, WriteShardFails(s, p)
    PROVE  GInv'
<1> DEFINE n == [job[s] EXCEPT !.emit = @ \ {p}]
<1>0. /\ job[s] \in Jobs /\ JobOK(job[s], tree, DOMAIN shards) /\ job[s].pc = "shards"
  BY JobFacts DEF WriteShardFails
<1>1. Go(s, n)
  BY DEF WriteShardFails
<1>2. n \in Jobs
  BY <1>0 DEF Jobs
<1>3. /\ n.pc = "shards" /\ n.persist = job[s].persist /\ n.new = job[s].new
      /\ n.graph = job[s].graph /\ n.hashes = job[s].hashes /\ n.idx = job[s].idx
      /\ n.emit \subseteq job[s].emit
  BY <1>0 DEF Jobs
<1> HIDE DEF n
<1>4. JobOK(n, tree, DOMAIN shards)
  BY <1>0, <1>3 DEF JobOK
<1> QED
  BY <1>1, <1>2, <1>4, QuietStep, JobFacts DEF WriteShardFails, sources, diskVars

LEMMA WriteSidecarKeeps ==
    ASSUME GInv, NEW s \in Scan, WriteSidecar(s)
    PROVE  GInv'
<1> DEFINE n == [job[s] EXCEPT !.pc = "manifest"]
<1>0. job[s] \in Jobs /\ JobOK(job[s], tree, DOMAIN shards) /\ job[s].pc = "shards"
  BY JobFacts DEF WriteSidecar
<1>1. Go(s, n)
  BY DEF WriteSidecar
<1>2. n \in Jobs
  BY <1>0 DEF Jobs
<1>3. /\ n.pc = "manifest" /\ n.persist = job[s].persist /\ n.new = job[s].new
      /\ n.graph = job[s].graph /\ n.hashes = job[s].hashes /\ n.idx = job[s].idx
      /\ n.emit = job[s].emit
  BY <1>0 DEF Jobs
<1> HIDE DEF n
<1>4. JobOK(n, tree, DOMAIN shards)
  BY <1>0, <1>3 DEF JobOK
<1>5. sidecar' \in RefMaps
  BY <1>0 DEF JobOK, Indices, WriteSidecar
<1> QED
  BY <1>1, <1>2, <1>4, <1>5, QuietStep, JobFacts DEF WriteSidecar, sources

(* The manifest written is that of the sources the build has hashed.       *)
LEMMA ManifestWritten ==
    ASSUME GInv, NEW s \in Scan, WriteManifest(s)
    PROVE  manifest' = job[s].hashes /\ job[s].hashes \in Maps
<1>1. job[s] \in Jobs /\ JobOK(job[s], tree, DOMAIN shards) /\ job[s].pc = "manifest"
  BY JobFacts DEF WriteManifest
<1> QED
  BY <1>1 DEF WriteManifest, JobOK, Jobs

LEMMA WriteManifestKeeps ==
    ASSUME GInv, NEW s \in Scan, WriteManifest(s)
    PROVE  GInv'
<1> DEFINE n == [Idle EXCEPT !.pc = "done", !.graph = job[s].graph,
                             !.hashes = job[s].hashes, !.stale = FALSE]
<1>0. job[s] \in Jobs /\ JobOK(job[s], tree, DOMAIN shards) /\ job[s].pc = "manifest"
  BY JobFacts DEF WriteManifest
<1>1. job[s].hashes \in Maps /\ job[s].graph \in CallGraphs
  BY <1>0 DEF Jobs
<1>2. OfTexts(job[s].graph, job[s].hashes)
  BY <1>0 DEF JobOK
<1>3. Go(s, n)
  BY DEF WriteManifest, Return
<1>4. n \in Jobs /\ JobOK(n, tree, DOMAIN shards)
  BY <1>1, <1>2, Returned
<1>5. manifest' \in Maps
  BY ManifestWritten
<1> HIDE DEF n
<1> QED
  BY <1>3, <1>4, <1>5, QuietStep, JobFacts DEF WriteManifest, sources

(* A build that is over and has no graph to answer for.                    *)
LEMMA OverOK ==
    ASSUME NEW n, NEW t, NEW D, n.pc \in {"idle", "raised"}
    PROVE  JobOK(n, t, D)
BY DEF JobOK

LEMMA PersistFailsKeeps ==
    ASSUME GInv, NEW s \in Scan, PersistFails(s)
    PROVE  GInv'
<1>0. /\ job[s] \in Jobs /\ JobOK(job[s], tree, DOMAIN shards)
      /\ job[s].pc \in {"shards", "manifest"}
  BY JobFacts DEF PersistFails
<1>1. CASE job[s].persist = "save"
  <2> DEFINE n == [Idle EXCEPT !.pc = "raised"]
  <2>1. n \in Jobs /\ n.pc = "raised"
    BY IdleTyped DEF Idle, Jobs
  <2>2. Go(s, n)
    BY <1>1 DEF PersistFails
  <2> HIDE DEF n
  <2>3. JobOK(n, tree, DOMAIN shards)
    BY <2>1, OverOK
  <2> QED
    BY <2>1, <2>2, <2>3, QuietStep, JobFacts DEF PersistFails, sources, diskVars
<1>2. CASE job[s].persist # "save"
  <2> DEFINE man == job[s].idx.man
             g == FromShards(man)
             n == [Idle EXCEPT !.pc = "done", !.graph = g, !.hashes = man, !.stale = TRUE]
  <2>1. job[s].idx \in Indices /\ Held(man, DOMAIN shards)
    BY <1>0, <1>2 DEF JobOK
  <2>2. man \in Maps
    BY <2>1 DEF Indices
  <2>3. g \in CallGraphs /\ OfTexts(g, man)
    BY <2>1, <2>2, FromShardsTyped, JobFacts
  <2>4. Go(s, n)
    BY <1>2 DEF PersistFails, Return
  <2> HIDE DEF g, man
  <2>5. n \in Jobs /\ JobOK(n, tree, DOMAIN shards)
    BY <2>2, <2>3, Returned
  <2> HIDE DEF n
  <2> QED
    BY <2>4, <2>5, QuietStep, JobFacts DEF PersistFails, sources, diskVars
<1> QED
  BY <1>1, <1>2

LEMMA KillKeeps ==
    ASSUME GInv, NEW s \in Scan, Kill(s)
    PROVE  GInv'
<1>1. Go(s, Idle)
  BY DEF Kill, Go
<1>2. JobOK(Idle, tree, DOMAIN shards)
  BY OverOK DEF Idle
<1> QED
  BY <1>1, <1>2, IdleTyped, QuietStep, JobFacts DEF Kill, sources, diskVars

(* An edit finds no build between two reads.                               *)
LEMMA EditKeeps ==
    ASSUME GraphCacheAssumption, EditsDuringBuild = FALSE, GInv,
           NEW p \in Path, NEW c \in Text \cup {Absent}, Edit(p, c)
    PROVE  GInv'
<1>1. \A s \in Scan : job[s].pc \notin {"load", "sidecar", "choose", "lock"}
  BY DEF Edit, Reading
<1>2. UNCHANGED <<manifest, sidecar, shards, job>>
  BY DEF Edit, diskVars
<1>3. \A s \in Scan : JobOK(job[s], tree', DOMAIN shards)
  BY <1>1 DEF GInv, JobOK
<1>4. TreeTyped(tree')
  <2>1. c \in TextsOf(p) \cup {Absent} /\ tree' = [tree EXCEPT ![p] = c]
    BY DEF Edit, TextsOf
  <2> QED
    BY <2>1, JobFacts DEF TreeTyped, GInv, Typed
<1>5. Typed'
  BY <1>2, <1>4 DEF GInv, Typed
<1>6. ShardsOfTheirText'
  BY <1>2 DEF GInv, ShardsOfTheirText
<1> QED
  BY <1>2, <1>3, <1>5, <1>6 DEF GInv
-----------------------------------------------------------------------------
LEMMA GInvInit ==
    ASSUME GraphCacheAssumption, Init
    PROVE  GInv
<1>1. TreeTyped(tree)
  BY DEF Init, GraphCacheAssumption, TreeTyped, TextsOf
<1>2. Typed
  <2>1. job \in [Scan -> Jobs]
    BY IdleTyped DEF Init
  <2> QED
    BY <1>1, <2>1, NoneTyped DEF Init, Typed
<1>3. ShardsOfTheirText
  BY DEF Init, None, ShardsOfTheirText
<1>4. \A s \in Scan : JobOK(job[s], tree, DOMAIN shards)
  <2>1. \A s \in Scan : job[s] = Idle
    BY DEF Init
  <2>2. Idle.pc = "idle"
    BY DEF Idle
  <2> QED
    BY <2>1, <2>2, OverOK
<1> QED
  BY <1>2, <1>3, <1>4 DEF GInv

LEMMA GInvNext ==
    ASSUME CallGraphAssumption, GraphCacheAssumption, EditsDuringBuild = FALSE,
           GInv, [Next]_vars
    PROVE  GInv'
<1>1. CASE UNCHANGED vars
  BY <1>1 DEF vars, sources, diskVars, countVars, GInv, Typed, ShardsOfTheirText
<1>2. ASSUME NEW p \in Path, NEW c \in Text \cup {Absent}, Edit(p, c)
      PROVE  GInv'
  BY <1>2, EditKeeps
<1>3. ASSUME NEW s \in Scan, Begin(s) \/ Kill(s)
      PROVE  GInv'
  BY <1>3, BeginKeeps, KillKeeps
<1>4. ASSUME NEW s \in Scan, Step(s)
      PROVE  GInv'
  <2>1. CASE LoadManifest(s) \/ LoadSidecar(s)
    BY <2>1, LoadManifestKeeps, LoadSidecarKeeps
  <2>2. CASE FullHit(s) \/ Reuse(s) \/ StartRefresh(s) \/ ColdBuild(s)
    BY <2>2, FullHitKeeps, ReuseKeeps, StartRefreshKeeps, ColdBuildKeeps
  <2>3. CASE GiveUpLock(s) \/ LockToSave(s) \/ LockToRefresh(s)
    BY <2>3, GiveUpLockKeeps, LockToSaveKeeps, LockToRefreshKeeps
  <2>4. CASE \E p \in Path : WriteShard(s, p) \/ WriteShardFails(s, p)
    BY <2>4, WriteShardKeeps, WriteShardFailsKeeps
  <2>5. CASE WriteSidecar(s) \/ WriteManifest(s) \/ PersistFails(s)
    BY <2>5, WriteSidecarKeeps, WriteManifestKeeps, PersistFailsKeeps
  <2> QED
    BY <1>4, <2>1, <2>2, <2>3, <2>4, <2>5 DEF Step
<1> QED
  BY <1>1, <1>2, <1>3, <1>4 DEF Next

(* GraphIsOfItsTexts for every instance: the symbols of a graph and the    *)
(* files of a fresh sweep are those of one set of texts, whatever shards   *)
(* the graph was put together from.                                        *)
THEOREM GraphOfItsTexts ==
    ASSUME EditsDuringBuild = FALSE, DistinctTexts
    PROVE  Spec => []GraphIsOfItsTexts
<1>1. Init => GInv
  BY GInvInit, GraphCacheAssumption
<1>2. GInv /\ [Next]_vars => GInv'
  BY GInvNext, CallGraphAssumption, GraphCacheAssumption
<1>3. GInv => GraphIsOfItsTexts
  <2> SUFFICES ASSUME GInv, NEW s \in Scan, Done(s)
               PROVE  /\ job[s].graph.syms = Declared(job[s].hashes)
                      /\ PlanFresh(job[s].graph) =
                            {p \in DOMAIN job[s].hashes : Defs[job[s].hashes[p]] # {}}
    BY DEF GraphIsOfItsTexts
  <2>1. job[s].graph.syms = Declared(job[s].hashes)
    BY JobFacts DEF Done, JobOK, OfTexts
  <2> DEFINE m == job[s].hashes
             S == {p \in DOMAIN m : Defs[m[p]] # {}}
  <2>2. \A x \in Declared(m) : x[1] \in S
    BY DEF Declared, SymbolsOf
  <2>3. ASSUME NEW p \in S
        PROVE  \E x \in Declared(m) : x[1] = p
    <3>1. PICK name \in Defs[m[p]] : TRUE
      OBVIOUS
    <3>2. <<p, name>> \in SymbolsOf(p, m[p]) /\ p \in DOMAIN m
      BY DEF SymbolsOf
    <3>3. <<p, name>> \in Declared(m)
      BY <3>2 DEF Declared
    <3> QED
      BY <3>3
  <2>4. PlanFresh(job[s].graph) = {x[1] : x \in Declared(m)}
    BY <2>1 DEF PlanFresh
  <2> HIDE DEF m, S
  <2>5. {x[1] : x \in Declared(m)} = S
    BY <2>2, <2>3
  <2> QED
    BY <2>1, <2>4, <2>5 DEF m, S
<1> QED
  BY <1>1, <1>2, <1>3, PTL DEF Spec

(* ManifestIsExact for every instance: a refresh merges its changes into   *)
(* the manifest it loaded before it had the lock, and yet what it writes   *)
(* is the sources, and never a mixture of two builds.                      *)
THEOREM ManifestExact ==
    ASSUME EditsDuringBuild = FALSE
    PROVE  Spec => ManifestIsExact
<1>1. Init => GInv
  BY GInvInit, GraphCacheAssumption
<1>2. GInv /\ [Next]_vars => GInv'
  BY GInvNext, CallGraphAssumption, GraphCacheAssumption
<1>3. GInv /\ [Next]_vars =>
          [\A s \in Scan : WriteManifest(s) => manifest' = job[s].hashes]_vars
  BY ManifestWritten
<1> QED
  BY <1>1, <1>2, <1>3, PTL DEF Spec, ManifestIsExact
-----------------------------------------------------------------------------
(* What NoDependentMissed needs, when no file returns to an earlier text:  *)
(* that a graph has every call there is between the texts of a map.        *)
Covers(g, m) == Parsed(m).edges \subseteq g.edges

(* Of each call between two files as they are, one of their two shards     *)
(* tells if both have one: the first that was written after both texts     *)
(* were there has the call, and what is written later is no older.         *)
ShardsCover ==
    \A e \in Parsed(Hashes(tree)).edges :
        LET c == tree[e[1][1]]
            d == tree[e[2][1]]
        IN c \in DOMAIN shards /\ d \in DOMAIN shards =>
               e \in shards[c].edges \cup shards[d].edges

NothingUnseen ==
    /\ DOMAIN shards \subseteq past
    /\ \A p \in Path : tree[p] \in past

(* What a build adds: who writes shards has the lock, and a file whose     *)
(* text is not the one it has hashed has no shard yet, for it has changed  *)
(* since, and nobody else writes.                                          *)
JobCovers(j, s, holder) ==
    /\ j.pc = "lock" /\ j.persist = "save" => Covers(j.graph, j.hashes)
    /\ j.pc \in {"shards", "manifest"} => holder = s /\ Covers(j.graph, j.hashes)
    /\ j.pc = "shards" =>
          /\ \A p \in DOMAIN j.hashes : j.hashes[p] \in past
          /\ \A p \in Listed : tree[p] \in DOMAIN shards =>
                 p \in DOMAIN j.hashes /\ j.hashes[p] = tree[p]
    /\ j.pc = "done" /\ ~j.stale => Covers(j.graph, j.hashes)

CInv ==
    /\ GInv
    /\ ShardsCover
    /\ NothingUnseen
    /\ \A s \in Scan : JobCovers(job[s], s, lock)
-----------------------------------------------------------------------------
(* The walk of CallersOf: what is reached within k calls upwards.  That    *)
(* there is one, and that it grows with the graph, is shown by way of the  *)
(* first number of calls where it fails.                                   *)
LEMMA LeastNat ==
    ASSUME NEW S, S \subseteq Nat, S # {}
    PROVE  \E i \in S : \A j \in S : i <= j
<1> DEFINE R == OpToRel(<, Nat)
<1>1. IsWellFoundedOn(R, Nat)
  BY NatLessThanWellFounded
<1>2. \A x, y \in S : y < x => <<y, x>> \in R
  BY DEF OpToRel
<1> HIDE DEF R
<1>3. PICK x \in S : \A y \in S : ~(<<y, x>> \in R)
  BY <1>1, WFMin
<1>4. \A y \in S : ~(y < x)
  BY <1>2, <1>3
<1> QED BY <1>4

Walk(f, g, seeds, n) ==
    f = [k \in 0..n |-> IF k = 0 THEN seeds ELSE f[k - 1] \cup Callers(g, f[k - 1])]

Up(g, seeds, n) == CHOOSE f : Walk(f, g, seeds, n)

LEMMA WalkExists ==
    ASSUME NEW g, NEW seeds, NEW n \in Nat
    PROVE  Walk(Up(g, seeds, n), g, seeds, n)
<1> DEFINE Stuck == {m \in Nat : ~\E f : Walk(f, g, seeds, m)}
<1>1. SUFFICES ASSUME Stuck # {} PROVE FALSE
  BY DEF Up
<1>2. PICK m \in Stuck : \A k \in Stuck : m <= k
  <2> HIDE DEF Stuck
  <2>1. Stuck \subseteq Nat
    BY DEF Stuck
  <2> QED BY <1>1, <2>1, LeastNat
<1>3. CASE m = 0
  <2> DEFINE f == [k \in 0..0 |-> seeds]
  <2>1. f = [k \in 0..0 |-> IF k = 0 THEN seeds ELSE f[k - 1] \cup Callers(g, f[k - 1])]
    OBVIOUS
  <2> QED BY <1>2, <1>3, <2>1 DEF Walk
<1>4. CASE m # 0
  <2>1. m - 1 \in Nat /\ m - 1 \notin Stuck
    BY <1>2, <1>4
  <2>2. PICK h : Walk(h, g, seeds, m - 1)
    BY <2>1
  <2> DEFINE f == [k \in 0..m |-> IF k = m THEN h[m - 1] \cup Callers(g, h[m - 1]) ELSE h[k]]
             N(u, k) == IF k = 0 THEN seeds ELSE u[k - 1] \cup Callers(g, u[k - 1])
  <2>3. \A k \in 0..(m - 1) : h[k] = N(h, k) /\ f[k] = h[k]
    <3>1. h = [k \in 0..(m - 1) |-> N(h, k)]
      BY <2>2 DEF Walk
    <3> HIDE DEF N
    <3>2. \A k \in 0..(m - 1) : k \in 0..m /\ k # m
      BY <2>1
    <3> QED BY <3>1, <3>2
  <2>4. \A k \in 0..m : f[k] = N(f, k)
    <3> SUFFICES ASSUME NEW k \in 0..m PROVE f[k] = N(f, k)
      OBVIOUS
    <3>1. CASE k = 0
      <4>1. 0 \in 0..(m - 1)
        BY <2>1
      <4> HIDE DEF f
      <4>2. f[0] = h[0] /\ h[0] = seeds
        BY <4>1, <2>3
      <4> QED BY <3>1, <4>2
    <3>2. CASE k \in 1..m
      <4>1. k - 1 \in 0..(m - 1) /\ k # 0
        BY <3>2, <2>1
      <4>2. f[k - 1] = h[k - 1]
        BY <4>1, <2>3
      <4>3. CASE k = m
        BY <4>1, <4>2, <4>3
      <4>4. CASE k # m
        <5>1. k \in 0..(m - 1)
          BY <3>2, <4>4, <2>1
        <5> QED BY <4>1, <4>2, <5>1, <2>3
      <4> QED BY <4>3, <4>4
    <3> QED BY <3>1, <3>2, <2>1
  <2>5. f = [k \in 0..m |-> N(f, k)]
    <3>1. f = [k \in 0..m |-> f[k]]
      OBVIOUS
    <3> HIDE DEF f, N
    <3> QED BY <2>4, <3>1
  <2>6. Walk(f, g, seeds, m)
    BY <2>5 DEF Walk
  <2> QED BY <1>2, <2>6
<1> QED BY <1>3, <1>4

LEMMA UpSteps ==
    ASSUME NEW g, NEW seeds, NEW n \in Nat
    PROVE  /\ Up(g, seeds, n)[0] = seeds
           /\ \A k \in 1..n : Up(g, seeds, n)[k] =
                  Up(g, seeds, n)[k - 1] \cup Callers(g, Up(g, seeds, n)[k - 1])
<1> DEFINE f == Up(g, seeds, n)
           N(k) == IF k = 0 THEN seeds ELSE f[k - 1] \cup Callers(g, f[k - 1])
<1>1. f = [k \in 0..n |-> N(k)]
  BY WalkExists DEF Walk
<1> HIDE DEF f, N
<1>2. \A k \in 0..n : f[k] = N(k)
  BY <1>1
<1>3. N(0) = seeds /\ \A k \in 1..n : N(k) = f[k - 1] \cup Callers(g, f[k - 1])
  BY DEF N
<1> QED BY <1>2, <1>3 DEF f

LEMMA CallersAreUp ==
    ASSUME NEW g, NEW seeds, NEW n \in Nat
    PROVE  CallersOf(g, seeds, n) = Up(g, seeds, n)[n] \ seeds
BY DEF CallersOf, Up, Walk

(* More calls, more callers.                                               *)
LEMMA CallersGrow ==
    ASSUME NEW g, NEW h, g.edges \subseteq h.edges, NEW seeds, NEW n \in Nat
    PROVE  CallersOf(g, seeds, n) \subseteq CallersOf(h, seeds, n)
<1> DEFINE a == Up(g, seeds, n)
           b == Up(h, seeds, n)
           Bad == {k \in 0..n : ~(a[k] \subseteq b[k])}
<1>1. a[0] = seeds /\ \A k \in 1..n : a[k] = a[k - 1] \cup Callers(g, a[k - 1])
  BY UpSteps
<1>2. b[0] = seeds /\ \A k \in 1..n : b[k] = b[k - 1] \cup Callers(h, b[k - 1])
  BY UpSteps
<1> HIDE DEF a, b
<1>3. Bad = {}
  <2> SUFFICES ASSUME Bad # {} PROVE FALSE
    OBVIOUS
  <2>1. PICK k \in Bad : \A j \in Bad : k <= j
    <3>1. Bad \subseteq Nat
      OBVIOUS
    <3> HIDE DEF Bad
    <3> QED BY <3>1, LeastNat
  <2>2. k \in 1..n /\ k - 1 \in 0..n /\ k - 1 \notin Bad
    BY <1>1, <1>2, <2>1
  <2>3. a[k - 1] \subseteq b[k - 1]
    BY <2>2
  <2>4. Callers(g, a[k - 1]) \subseteq Callers(h, b[k - 1])
    BY <2>3 DEF Callers
  <2>5. a[k] \subseteq b[k]
    BY <1>1, <1>2, <2>2, <2>3, <2>4
  <2> QED BY <2>1, <2>5
<1>4. a[n] \subseteq b[n]
  BY <1>3
<1> QED BY <1>4, CallersAreUp DEF a, b
-----------------------------------------------------------------------------
(* A call is between two files of the map, and is there in every map with  *)
(* these two texts.                                                        *)
LEMMA CallEnds ==
    ASSUME NEW m \in Maps, NEW e \in Parsed(m).edges
    PROVE  /\ e[1][1] \in DOMAIN m /\ e[1] \in SymbolsOf(e[1][1], m[e[1][1]])
           /\ e[2][1] \in DOMAIN m /\ e[2] \in SymbolsOf(e[2][1], m[e[2][1]])
           /\ e \in Calls(m, e[1][1])
<1>1. PICK p \in DOMAIN m : e \in Calls(m, p)
  BY DEF Parsed
<1>2. e[1] \in SymbolsOf(p, m[p]) /\ e[2] \in Declared(m)
  BY <1>1 DEF Calls
<1>3. e[1][1] = p
  BY <1>2 DEF SymbolsOf
<1>4. PICK q \in DOMAIN m : e[2] \in SymbolsOf(q, m[q])
  BY <1>2 DEF Declared
<1>5. e[2][1] = q
  BY <1>4 DEF SymbolsOf
<1> QED BY <1>1, <1>2, <1>3, <1>4, <1>5

LEMMA CallOfTwoTexts ==
    ASSUME NEW m \in Maps, NEW n \in Maps, NEW e \in Parsed(m).edges,
           e[1][1] \in DOMAIN n, n[e[1][1]] = m[e[1][1]],
           e[2][1] \in DOMAIN n, n[e[2][1]] = m[e[2][1]]
    PROVE  e \in Parsed(n).edges
<1> DEFINE p == e[1][1]
           q == e[2][1]
           T(c) == UNION {Target(p, r) : r \in Refs[c]}
<1>1. /\ e[1] \in SymbolsOf(p, m[p]) /\ e[2] \in SymbolsOf(q, m[q])
      /\ e \in Calls(m, p)
  BY CallEnds
<1>2. /\ Calls(m, p) = {x \in SymbolsOf(p, m[p]) \X (T(m[p]) \cap Declared(m)) : x[1] # x[2]}
      /\ Calls(n, p) = {x \in SymbolsOf(p, n[p]) \X (T(n[p]) \cap Declared(n)) : x[1] # x[2]}
  BY DEF Calls
<1>3. e[2] \in Declared(n)
  BY <1>1 DEF Declared
<1> HIDE DEF T, p, q
<1>4. n[p] = m[p] /\ p \in DOMAIN n
  BY DEF p
<1>5. e \in Calls(n, p)
  BY <1>1, <1>2, <1>3, <1>4
<1> QED BY <1>4, <1>5 DEF Parsed

LEMMA HashesAre ==
    ASSUME NEW t
    PROVE  /\ DOMAIN Hashes(t) = {q \in Listed : t[q] # Absent}
           /\ \A p \in DOMAIN Hashes(t) : Hashes(t)[p] = t[p]
BY DEF Hashes, Listed

(* A graph put together from shards of the texts there are misses no call. *)
LEMMA ShardsTellAll ==
    ASSUME CInv, Held(Hashes(tree), DOMAIN shards)
    PROVE  Covers(FromShards(Hashes(tree)), Hashes(tree))
<1> DEFINE m == Hashes(tree)
<1>1. m \in Maps
  BY HashesTyped, JobFacts DEF CInv, GInv, Typed
<1>2. \A p \in DOMAIN m : m[p] = tree[p]
  BY HashesAre
<1> HIDE DEF m
<1> SUFFICES ASSUME NEW e \in Parsed(m).edges
             PROVE  e \in FromShards(m).edges
  BY DEF Covers, m
<1>3. e[1][1] \in DOMAIN m /\ e[2][1] \in DOMAIN m
  BY <1>1, CallEnds
<1>4. m[e[1][1]] \in DOMAIN shards /\ m[e[2][1]] \in DOMAIN shards
  BY <1>3 DEF Held, m
<1>5. e \in shards[m[e[1][1]]].edges \cup shards[m[e[2][1]]].edges
  BY <1>2, <1>3, <1>4 DEF CInv, ShardsCover, m
<1>6. \A p \in DOMAIN m : m[p] \in DOMAIN shards =>
          shards[m[p]].edges \subseteq FromShards(m).edges
  BY DEF FromShards
<1> QED BY <1>3, <1>4, <1>5, <1>6

(* A step of one build that writes no shard.  It takes the lock from       *)
(* nobody else.                                                            *)
LEMMA QuietCover ==
    ASSUME GraphCacheAssumption, CInv, GInv', NEW s \in Scan, NEW n, Go(s, n),
           UNCHANGED <<tree, past, shards>>,
           lock' = lock \/ lock \in {s, Nobody},
           JobCovers(n, s, lock')
    PROVE  CInv'
<1>1. job \in [Scan -> Jobs] /\ job' = [job EXCEPT ![s] = n]
  BY DEF CInv, GInv, Typed, Go
<1>2. ASSUME NEW r \in Scan
      PROVE  JobCovers(job[r], r, lock)'
  <2>1. CASE r = s
    BY <1>1, <2>1 DEF JobCovers
  <2>2. CASE r # s
    <3>1. job'[r] = job[r] /\ JobCovers(job[r], r, lock)
      BY <1>1, <2>2 DEF CInv
    <3>2. lock = r => lock' = r
      BY <2>2 DEF GraphCacheAssumption
    <3> QED BY <3>1, <3>2 DEF JobCovers
  <2> QED BY <2>1, <2>2
<1>3. ShardsCover' /\ NothingUnseen'
  BY DEF CInv, ShardsCover, NothingUnseen, Hashes
<1> QED BY <1>2, <1>3 DEF CInv

-----------------------------------------------------------------------------
LEMMA CoverFacts ==
    ASSUME CInv, NEW s \in Scan
    PROVE  /\ job[s] \in Jobs /\ JobOK(job[s], tree, DOMAIN shards)
           /\ JobCovers(job[s], s, lock)
BY JobFacts DEF CInv

(* A build that has not yet a graph, or has none to answer for.            *)
LEMMA NothingToCover ==
    ASSUME NEW n, NEW s, NEW l,
           \/ n.pc \in {"idle", "load", "sidecar", "choose", "raised"}
           \/ n.pc = "lock" /\ n.persist # "save"
           \/ n.pc = "done" /\ n.stale
    PROVE  JobCovers(n, s, l)
BY DEF JobCovers

(* A graph returned, and one to be saved, must have all calls.             *)
LEMMA ReturnCovers ==
    ASSUME NEW g, NEW m, NEW b \in BOOLEAN, ~b => Covers(g, m), NEW s, NEW l
    PROVE  JobCovers([Idle EXCEPT !.pc = "done", !.graph = g, !.hashes = m, !.stale = b],
                     s, l)
<1> DEFINE n == [Idle EXCEPT !.pc = "done", !.graph = g, !.hashes = m, !.stale = b]
<1>1. n.pc = "done" /\ n.graph = g /\ n.hashes = m /\ n.stale = b
  BY DEF Idle
<1> HIDE DEF n
<1>2. JobCovers(n, s, l)
  BY <1>1 DEF JobCovers
<1> QED BY <1>2 DEF n

LEMMA FullHitCovers ==
    ASSUME GraphCacheAssumption, CInv, GInv', NEW s \in Scan, FullHit(s)
    PROVE  CInv'
<1> DEFINE g == FromShards(job[s].idx.man)
           n == [Idle EXCEPT !.pc = "done", !.graph = g, !.hashes = job[s].hashes,
                             !.stale = FALSE]
<1>1. /\ job[s].hashes = Hashes(tree) /\ job[s].idx.man = job[s].hashes
      /\ Held(job[s].idx.man, DOMAIN shards)
  BY CoverFacts DEF FullHit, JobOK
<1>2. Covers(g, job[s].hashes)
  BY <1>1, ShardsTellAll
<1>3. Go(s, n)
  BY DEF FullHit, Return
<1> HIDE DEF g
<1>4. JobCovers(n, s, lock')
  BY <1>2, ReturnCovers
<1> HIDE DEF n
<1> QED BY <1>3, <1>4, QuietCover DEF FullHit, sources, diskVars

LEMMA ReuseCovers ==
    ASSUME GraphCacheAssumption, CInv, GInv', NEW s \in Scan, Reuse(s)
    PROVE  CInv'
<1> DEFINE g == FromShards(job[s].hashes)
           n == [job[s] EXCEPT !.pc = "lock", !.persist = "save", !.graph = g]
<1>1. job[s].hashes = Hashes(tree) /\ Held(job[s].hashes, DOMAIN shards)
  BY CoverFacts DEF Reuse, JobOK, Reusable, AllShardsExist, Held
<1>2. Covers(g, job[s].hashes)
  BY <1>1, ShardsTellAll
<1>3. Go(s, n)
  BY DEF Reuse
<1> HIDE DEF g
<1>4. n.pc = "lock" /\ n.graph = g /\ n.hashes = job[s].hashes
  BY CoverFacts DEF Jobs
<1> HIDE DEF n
<1>5. JobCovers(n, s, lock')
  BY <1>2, <1>4 DEF JobCovers
<1> QED BY <1>3, <1>5, QuietCover DEF Reuse, sources, diskVars

LEMMA ColdBuildCovers ==
    ASSUME GraphCacheAssumption, CInv, GInv', NEW s \in Scan, ColdBuild(s)
    PROVE  CInv'
<1> DEFINE g == Parsed(Hashes(tree))
           n == [job[s] EXCEPT !.pc = "lock", !.persist = "save", !.graph = g]
<1>1. job[s].hashes = Hashes(tree)
  BY CoverFacts DEF ColdBuild, JobOK
<1>2. Covers(g, job[s].hashes)
  BY <1>1 DEF Covers
<1>3. Go(s, n)
  BY DEF ColdBuild
<1> HIDE DEF g
<1>4. n.pc = "lock" /\ n.graph = g /\ n.hashes = job[s].hashes
  BY CoverFacts DEF Jobs
<1> HIDE DEF n
<1>5. JobCovers(n, s, lock')
  BY <1>2, <1>4 DEF JobCovers
<1> QED BY <1>3, <1>5, QuietCover DEF ColdBuild, sources, diskVars

(* The steps before a graph is made.                                       *)
LEMMA EarlyCovers ==
    ASSUME GraphCacheAssumption, CInv, GInv', NEW s \in Scan,
           Begin(s) \/ LoadManifest(s) \/ LoadSidecar(s) \/ StartRefresh(s)
    PROVE  CInv'
<1> DEFINE Early(n) == \/ n.pc \in {"load", "sidecar", "choose"}
                       \/ n.pc = "lock" /\ n.persist = "refresh"
           j == job[s]
<1>0. j \in Jobs
  BY CoverFacts
<1>1. PICK n : Go(s, n) /\ Early(n)
  <2>1. CASE Begin(s)
    <3> DEFINE n == [Idle EXCEPT !.pc = "load", !.hashes = Hashes(tree)]
    <3>1. Early(n)
      BY DEF Idle
    <3>2. Go(s, n)
      BY <2>1 DEF Begin
    <3> QED BY <3>1, <3>2
  <2>2. CASE LoadManifest(s)
    <3> DEFINE n == IF manifest = NoIndex THEN [j EXCEPT !.pc = "choose"]
                    ELSE [j EXCEPT !.pc = "sidecar", !.idx = Index(manifest, None)]
    <3>1. Early(n)
      BY <1>0 DEF Jobs
    <3>2. Go(s, n)
      BY <2>2 DEF LoadManifest
    <3> QED BY <3>1, <3>2
  <2>3. CASE LoadSidecar(s)
    <3> DEFINE n == [j EXCEPT !.pc = "choose",
                              !.idx = IF AllShardsExist(j.idx.man)
                                      THEN Index(j.idx.man, sidecar) ELSE NoIndex]
    <3>1. Early(n)
      BY <1>0 DEF Jobs
    <3>2. Go(s, n)
      BY <2>3 DEF LoadSidecar
    <3> QED BY <3>1, <3>2
  <2>4. CASE StartRefresh(s)
    <3> DEFINE n == [j EXCEPT !.pc = "lock", !.persist = "refresh"]
    <3>1. Early(n)
      BY <1>0 DEF Jobs
    <3>2. Go(s, n)
      BY <2>4 DEF StartRefresh
    <3> QED BY <3>1, <3>2
  <2> QED BY <2>1, <2>2, <2>3, <2>4
<1>2. JobCovers(n, s, lock')
  BY <1>1, NothingToCover
<1>3. UNCHANGED <<tree, past, shards, lock>>
  BY DEF Begin, LoadManifest, LoadSidecar, StartRefresh, sources, diskVars
<1> QED BY <1>1, <1>2, <1>3, QuietCover

LEMMA GiveUpCovers ==
    ASSUME GraphCacheAssumption, CInv, GInv', NEW s \in Scan, GiveUpLock(s)
    PROVE  CInv'
<1> DEFINE g == IF job[s].persist = "save" THEN job[s].graph ELSE Parsed(Hashes(tree))
           n == [Idle EXCEPT !.pc = "done", !.graph = g, !.hashes = job[s].hashes,
                             !.stale = FALSE]
<1>1. job[s].hashes = Hashes(tree) /\ job[s].pc = "lock"
  BY CoverFacts DEF GiveUpLock, JobOK
<1>2. Covers(g, job[s].hashes)
  BY <1>1, CoverFacts DEF JobCovers, Covers
<1>3. Go(s, n)
  BY DEF GiveUpLock, Return
<1> HIDE DEF g
<1>4. JobCovers(n, s, lock')
  BY <1>2, ReturnCovers
<1> HIDE DEF n
<1> QED BY <1>3, <1>4, QuietCover DEF GiveUpLock, sources, diskVars

(* Who takes the lock knows every file by its text.                        *)
LEMMA FreshWriter ==
    ASSUME CInv, NEW s \in Scan, NEW n, n.pc = "shards", n.hashes = Hashes(tree),
           Covers(n.graph, n.hashes)
    PROVE  JobCovers(n, s, s)
<1>1. NothingUnseen /\ DOMAIN shards \subseteq Text /\ Absent \notin Text
  BY HeldShards, CallGraphAssumption DEF CInv, GInv, CallGraphAssumption
<1>2. \A p \in DOMAIN n.hashes : p \in Path /\ n.hashes[p] = tree[p]
  BY HashesAre DEF Listed
<1>3. \A p \in Listed : tree[p] \in DOMAIN shards => p \in DOMAIN n.hashes
  BY <1>1, HashesAre
<1> QED BY <1>1, <1>2, <1>3 DEF JobCovers, NothingUnseen

LEMMA LockCovers ==
    ASSUME GraphCacheAssumption, CInv, GInv', NEW s \in Scan,
           LockToSave(s) \/ LockToRefresh(s)
    PROVE  CInv'
<1>1. job[s].hashes = Hashes(tree) /\ job[s].pc = "lock"
  BY CoverFacts DEF LockToSave, LockToRefresh, JobOK
<1>2. PICK n : /\ Go(s, n) /\ n.pc = "shards" /\ n.hashes = job[s].hashes
               /\ Covers(n.graph, n.hashes)
  <2>1. CASE LockToSave(s)
    <3> DEFINE n == [job[s] EXCEPT !.pc = "shards",
                        !.new = Index(job[s].hashes, ReverseRefs(job[s].graph)),
                        !.emit = DOMAIN job[s].hashes]
    <3>1. Covers(job[s].graph, job[s].hashes)
      BY <1>1, <2>1, CoverFacts DEF JobCovers, LockToSave
    <3>2. Go(s, n)
      BY <2>1 DEF LockToSave
    <3>3. n.pc = "shards" /\ n.hashes = job[s].hashes /\ n.graph = job[s].graph
      BY CoverFacts DEF Jobs
    <3> HIDE DEF n
    <3> QED BY <3>1, <3>2, <3>3
  <2>2. CASE LockToRefresh(s)
    <3>1. Covers(Parsed(Hashes(tree)), job[s].hashes)
      BY <1>1 DEF Covers
    <3>2. PICK i, em : Go(s, [job[s] EXCEPT !.pc = "shards", !.graph = Parsed(Hashes(tree)),
                                            !.new = i, !.emit = em])
      BY <2>2 DEF LockToRefresh
    <3> DEFINE n == [job[s] EXCEPT !.pc = "shards", !.graph = Parsed(Hashes(tree)),
                                   !.new = i, !.emit = em]
    <3>3. n.pc = "shards" /\ n.hashes = job[s].hashes /\ n.graph = Parsed(Hashes(tree))
      BY CoverFacts DEF Jobs
    <3>4. Go(s, n)
      BY <3>2
    <3> HIDE DEF n
    <3> QED BY <3>1, <3>3, <3>4
  <2> QED BY <2>1, <2>2
<1>3. JobCovers(n, s, s)
  BY <1>1, <1>2, FreshWriter
<1>4. UNCHANGED <<tree, past, shards>> /\ lock = Nobody /\ lock' = s
  BY DEF LockToSave, LockToRefresh, sources, diskVars
<1>5. JobCovers(n, s, lock')
  BY <1>3, <1>4
<1> QED BY <1>2, <1>4, <1>5, QuietCover

LEMMA WritingCovers ==
    ASSUME GraphCacheAssumption, CInv, GInv', NEW s \in Scan,
           \/ \E p \in Path : WriteShardFails(s, p)
           \/ WriteSidecar(s)
    PROVE  CInv'
<1>1. PICK n : /\ Go(s, n) /\ n.pc \in {"shards", "manifest"} /\ job[s].pc = "shards"
               /\ n.hashes = job[s].hashes /\ n.graph = job[s].graph
  <2>1. CASE WriteSidecar(s)
    <3> DEFINE n == [job[s] EXCEPT !.pc = "manifest"]
    <3>1. n.pc = "manifest" /\ n.hashes = job[s].hashes /\ n.graph = job[s].graph
      BY CoverFacts DEF Jobs
    <3>2. Go(s, n) /\ job[s].pc = "shards"
      BY <2>1 DEF WriteSidecar
    <3> QED BY <3>1, <3>2
  <2>2. ASSUME NEW p \in Path, WriteShardFails(s, p)
        PROVE  \E n : /\ Go(s, n) /\ n.pc \in {"shards", "manifest"} /\ job[s].pc = "shards"
                      /\ n.hashes = job[s].hashes /\ n.graph = job[s].graph
    <3> DEFINE n == [job[s] EXCEPT !.emit = @ \ {p}]
    <3>1. n.pc = job[s].pc /\ n.hashes = job[s].hashes /\ n.graph = job[s].graph
      BY CoverFacts DEF Jobs
    <3>2. Go(s, n) /\ job[s].pc = "shards"
      BY <2>2 DEF WriteShardFails
    <3> QED BY <3>1, <3>2
  <2> QED BY <2>1, <2>2
<1>2. JobCovers(n, s, lock)
  BY <1>1, CoverFacts DEF JobCovers
<1>3. UNCHANGED <<tree, past, shards, lock>>
  BY DEF WriteShardFails, WriteSidecar, sources, diskVars
<1> QED BY <1>1, <1>2, <1>3, QuietCover

LEMMA ReleaseCovers ==
    ASSUME GraphCacheAssumption, CInv, GInv', NEW s \in Scan,
           WriteManifest(s) \/ PersistFails(s) \/ Kill(s)
    PROVE  CInv'
<1>1. PICK n : Go(s, n) /\ JobCovers(n, s, lock')
  <2>1. CASE WriteManifest(s)
    <3>1. Covers(job[s].graph, job[s].hashes)
      BY <2>1, CoverFacts DEF WriteManifest, JobCovers
    <3> QED BY <2>1, <3>1, ReturnCovers DEF WriteManifest, Return
  <2>2. CASE PersistFails(s)
    <3>1. CASE job[s].persist = "save"
      BY <2>2, <3>1, NothingToCover DEF PersistFails, Idle
    <3>2. CASE job[s].persist # "save"
      BY <2>2, <3>2, ReturnCovers DEF PersistFails, Return
    <3> QED BY <3>1, <3>2
  <2>3. CASE Kill(s)
    <3>1. Go(s, Idle) /\ Idle.pc = "idle"
      BY <2>3 DEF Kill, Go, Idle
    <3> QED BY <3>1, NothingToCover
  <2> QED BY <2>1, <2>2, <2>3
<1>2. lock' = lock \/ lock = s
  BY CoverFacts DEF WriteManifest, PersistFails, Kill, JobCovers
<1>3. UNCHANGED <<tree, past, shards>>
  BY DEF WriteManifest, PersistFails, Kill, sources, diskVars
<1> QED BY <1>1, <1>2, <1>3, QuietCover

(* A shard is written by who has the lock, with every call between its     *)
(* file and those that have a shard already: all of them are known by the  *)
(* texts they have.                                                        *)
LEMMA WriteShardCovers ==
    ASSUME DistinctTexts, CInv, GInv', NEW s \in Scan, NEW p \in Path, WriteShard(s, p)
    PROVE  CInv'
<1> DEFINE m == job[s].hashes
           h == m[p]
           g == job[s].graph
           t == Hashes(tree)
<1>0. /\ job[s] \in Jobs /\ JobOK(job[s], tree, DOMAIN shards) /\ lock = s
      /\ job[s].pc = "shards" /\ p \in job[s].emit
  BY CoverFacts DEF WriteShard, JobCovers
<1>1. /\ m \in Maps /\ p \in DOMAIN m /\ job[s].new.man = m
      /\ g.syms = Declared(m)
  BY <1>0 DEF Jobs, JobOK, OfTexts
<1>2. /\ Covers(g, m)
      /\ \A q \in DOMAIN m : m[q] \in past
      /\ \A q \in Listed : tree[q] \in DOMAIN shards => q \in DOMAIN m /\ m[q] = tree[q]
  BY <1>0, CoverFacts DEF JobCovers
<1>3. p \in Listed /\ h \in Text /\ h \in TextsOf(p)
  BY <1>1, MapFacts
<1>4. /\ DOMAIN shards' = DOMAIN shards \cup {h} /\ shards'[h] = EmitDocument(p, g)
      /\ \A k \in DOMAIN shards : k # h => shards'[k] = shards[k]
  BY <1>1 DEF WriteShard, WriteShardOf
<1>5. UNCHANGED <<tree, past, lock>> /\ Go(s, [job[s] EXCEPT !.emit = @ \ {p}])
  BY DEF WriteShard, sources
<1>6. TreeTyped(tree) /\ t \in Maps
  BY HashesTyped, JobFacts DEF CInv
<1>7. \A q \in Listed : tree[q] = h => q = p
  BY <1>3, <1>6, CallGraphAssumption DEF TreeTyped, DistinctTexts, CallGraphAssumption, Listed
<1>8. \A q \in Listed : tree[q] \in DOMAIN shards' => q \in DOMAIN m /\ m[q] = tree[q]
  BY <1>1, <1>2, <1>4, <1>7
<1> HIDE DEF m, h, g, t
<1>9. ShardsCover'
  <2> SUFFICES ASSUME NEW e \in Parsed(t).edges,
                      tree[e[1][1]] \in DOMAIN shards', tree[e[2][1]] \in DOMAIN shards'
               PROVE  e \in shards'[tree[e[1][1]]].edges \cup shards'[tree[e[2][1]]].edges
    BY <1>5 DEF ShardsCover, t, Hashes
  <2>1. /\ e[1][1] \in Listed /\ t[e[1][1]] = tree[e[1][1]]
        /\ e[2][1] \in Listed /\ t[e[2][1]] = tree[e[2][1]]
    BY <1>6, CallEnds, HashesAre DEF t
  <2>2. e \in g.edges /\ e \in Parsed(m).edges
    <3>1. e \in Parsed(m).edges
      BY <1>1, <1>6, <1>8, <2>1, CallOfTwoTexts
    <3> QED BY <3>1, <1>2 DEF Covers
  <2>3. CASE e[1][1] = p \/ e[2][1] = p
    <3>1. SymbolsIn(g, p) = SymbolsOf(p, m[p])
      BY <1>1, OwnSymbols
    <3>2. e[1] \in SymbolsIn(g, p) \/ e[2] \in SymbolsIn(g, p)
      BY <1>1, <2>2, <2>3, <3>1, CallEnds
    <3>3. e \in shards'[h].edges
      BY <1>4, <2>2, <3>2 DEF EmitDocument
    <3> QED BY <2>1, <2>3, <3>3, <1>8 DEF h
  <2>4. CASE e[1][1] # p /\ e[2][1] # p
    <3>1. tree[e[1][1]] # h /\ tree[e[2][1]] # h
      BY <1>7, <2>1, <2>4
    <3> QED BY <1>4, <2>1, <3>1 DEF CInv, ShardsCover, t
  <2> QED BY <2>3, <2>4
<1>10. NothingUnseen'
  BY <1>1, <1>2, <1>4, <1>5 DEF CInv, NothingUnseen, h
<1>11. ASSUME NEW r \in Scan
       PROVE  JobCovers(job[r], r, lock)'
  <2>1. CASE r = s
    <3> DEFINE n == [job[s] EXCEPT !.emit = @ \ {p}]
    <3>1. n.pc = "shards" /\ n.hashes = m /\ n.graph = g
      BY <1>0 DEF Jobs, m, g
    <3>2. job'[s] = n
      BY <1>5 DEF Go, CInv, GInv, Typed
    <3> HIDE DEF n
    <3> QED BY <1>0, <1>2, <1>5, <1>8, <2>1, <3>1, <3>2 DEF JobCovers
  <2>2. CASE r # s
    <3>1. job'[r] = job[r] /\ JobCovers(job[r], r, lock)
      BY <1>5, <2>2 DEF Go, CInv, GInv, Typed
    <3>2. job[r].pc \notin {"shards", "manifest"}
      BY <1>0, <2>2, <3>1 DEF JobCovers
    <3> QED BY <3>1, <3>2 DEF JobCovers
  <2> QED BY <2>1, <2>2
<1> QED BY <1>9, <1>10, <1>11 DEF CInv

(* A new text has no shard, and no build is about to write one.            *)
LEMMA EditCovers ==
    ASSUME CallGraphAssumption, TextsReturn = FALSE, CInv, GInv',
           NEW p \in Path, NEW c \in Text \cup {Absent}, Edit(p, c)
    PROVE  CInv'
<1> DEFINE t == Hashes(tree)
           u == Hashes(tree')
<1>1. /\ tree' = [tree EXCEPT ![p] = c] /\ past' = past \cup {c}
      /\ c = Absent \/ c \notin past
      /\ UNCHANGED <<shards, lock, job>>
  BY DEF Edit, diskVars
<1>2. TreeTyped(tree) /\ TreeTyped(tree') /\ DOMAIN shards \subseteq Text
  BY HeldShards, JobFacts DEF CInv, GInv, Typed
<1>3. c \notin DOMAIN shards
  BY <1>1, <1>2 DEF CInv, NothingUnseen, CallGraphAssumption
<1>4. \A q \in Path : tree'[q] = IF q = p THEN c ELSE tree[q]
  BY <1>1, <1>2 DEF TreeTyped
<1>5. t \in Maps /\ u \in Maps
  BY <1>2, HashesTyped
<1>6. \A q \in DOMAIN u : tree[q] = tree'[q] => q \in DOMAIN t /\ t[q] = u[q]
  BY HashesAre
<1> HIDE DEF t, u
<1>7. ShardsCover'
  <2> SUFFICES ASSUME NEW e \in Parsed(u).edges,
                      tree'[e[1][1]] \in DOMAIN shards, tree'[e[2][1]] \in DOMAIN shards
               PROVE  e \in shards[tree'[e[1][1]]].edges \cup shards[tree'[e[2][1]]].edges
    BY <1>1 DEF ShardsCover, u, Hashes
  <2>1. /\ e[1][1] \in DOMAIN u /\ u[e[1][1]] = tree'[e[1][1]] /\ e[1][1] \in Listed
        /\ e[2][1] \in DOMAIN u /\ u[e[2][1]] = tree'[e[2][1]] /\ e[2][1] \in Listed
    BY <1>5, CallEnds, HashesAre DEF u
  <2>2. tree'[e[1][1]] = tree[e[1][1]] /\ tree'[e[2][1]] = tree[e[2][1]]
    BY <1>3, <1>4, <2>1 DEF Listed
  <2>3. /\ e[1][1] \in DOMAIN t /\ t[e[1][1]] = u[e[1][1]]
        /\ e[2][1] \in DOMAIN t /\ t[e[2][1]] = u[e[2][1]]
    BY <1>6, <2>1, <2>2
  <2>4. e \in Parsed(t).edges
    BY <1>5, <2>3, CallOfTwoTexts
  <2> QED BY <2>2, <2>4 DEF CInv, ShardsCover, t
<1>8. NothingUnseen'
  BY <1>1, <1>4 DEF CInv, NothingUnseen
<1>9. ASSUME NEW s \in Scan
      PROVE  JobCovers(job[s], s, lock)'
  <2>1. JobCovers(job[s], s, lock)
    BY DEF CInv
  <2>2. \A q \in Listed : tree'[q] \in DOMAIN shards => tree[q] = tree'[q]
    BY <1>3, <1>4 DEF Listed
  <2> QED BY <1>1, <2>1, <2>2 DEF JobCovers
<1> QED BY <1>7, <1>8, <1>9 DEF CInv

LEMMA CInvInit ==
    ASSUME GraphCacheAssumption, Init
    PROVE  CInv
<1>1. GInv
  BY GInvInit
<1>2. DOMAIN shards = {}
  BY DEF Init, None
<1>3. ShardsCover /\ NothingUnseen
  BY <1>2 DEF Init, ShardsCover, NothingUnseen
<1>4. \A s \in Scan : job[s] = Idle
  BY DEF Init
<1>5. \A s \in Scan : JobCovers(job[s], s, lock)
  BY <1>4, NothingToCover DEF Idle
<1> QED BY <1>1, <1>3, <1>5 DEF CInv

LEMMA CInvNext ==
    ASSUME CallGraphAssumption, GraphCacheAssumption, EditsDuringBuild = FALSE,
           TextsReturn = FALSE, DistinctTexts, CInv, [Next]_vars
    PROVE  CInv'
<1>0. GInv'
  BY GInvNext DEF CInv
<1>1. CASE UNCHANGED vars
  BY <1>0, <1>1 DEF vars, sources, diskVars, countVars, CInv, ShardsCover, NothingUnseen,
                    JobCovers, Hashes
<1>2. ASSUME NEW p \in Path, NEW c \in Text \cup {Absent}, Edit(p, c)
      PROVE  CInv'
  BY <1>0, <1>2, EditCovers
<1>3. ASSUME NEW s \in Scan, Begin(s) \/ Kill(s)
      PROVE  CInv'
  BY <1>0, <1>3, EarlyCovers, ReleaseCovers
<1>4. ASSUME NEW s \in Scan, Step(s)
      PROVE  CInv'
  <2>1. CASE LoadManifest(s) \/ LoadSidecar(s) \/ StartRefresh(s)
    BY <1>0, <2>1, EarlyCovers
  <2>2. CASE FullHit(s) \/ Reuse(s) \/ ColdBuild(s)
    BY <1>0, <2>2, FullHitCovers, ReuseCovers, ColdBuildCovers
  <2>3. CASE GiveUpLock(s) \/ LockToSave(s) \/ LockToRefresh(s)
    BY <1>0, <2>3, GiveUpCovers, LockCovers
  <2>4. CASE \E p \in Path : WriteShard(s, p) \/ WriteShardFails(s, p)
    BY <1>0, <2>4, WriteShardCovers, WritingCovers
  <2>5. CASE WriteSidecar(s) \/ WriteManifest(s) \/ PersistFails(s)
    BY <1>0, <2>5, WritingCovers, ReleaseCovers
  <2> QED
    BY <1>4, <2>1, <2>2, <2>3, <2>4, <2>5 DEF Step
<1> QED
  BY <1>1, <1>2, <1>3, <1>4 DEF Next

(* A plan and a neighborhood grow with the calls of the graph.             *)
LEMMA PlanGrows ==
    ASSUME CallGraphAssumption, NEW g, NEW h, g.syms = h.syms, g.edges \subseteq h.edges,
           NEW t, NEW changed
    PROVE  Plan(g, t, changed) \subseteq Plan(h, t, changed)
<1> DEFINE S == Seeds(g, t, changed)
<1>1. Seeds(h, t, changed) = S
  BY DEF Seeds, SymbolsIn
<1> HIDE DEF S
<1>2. CallersOf(g, S, Depth) \subseteq CallersOf(h, S, Depth)
  BY CallersGrow DEF CallGraphAssumption
<1> QED BY <1>1, <1>2 DEF Plan, S

LEMMA NeighborsGrow ==
    ASSUME NEW g, NEW h, g.syms = h.syms, g.edges \subseteq h.edges, NEW p
    PROVE  NeighborsOf(g, p) \subseteq NeighborsOf(h, p)
<1>1. SymbolsIn(g, p) = SymbolsIn(h, p)
  BY DEF SymbolsIn
<1>2. \A S : Callers(g, S) \subseteq Callers(h, S) /\ Callees(g, S) \subseteq Callees(h, S)
  BY DEF Callers, Callees
<1> QED BY <1>1, <1>2 DEF NeighborsOf

(* NoDependentMissed for every instance: a graph put together from shards  *)
(* that several builds wrote, or failed to write, has every call between   *)
(* the files it is of, so neither a plan nor the neighbors of a file miss  *)
(* a dependent, whatever has changed.                                      *)
THEOREM DependentsFound ==
    ASSUME EditsDuringBuild = FALSE, TextsReturn = FALSE, DistinctTexts
    PROVE  Spec => []NoDependentMissed
<1>1. Init => CInv
  BY CInvInit, GraphCacheAssumption
<1>2. CInv /\ [Next]_vars => CInv'
  BY CInvNext, CallGraphAssumption, GraphCacheAssumption
<1>3. CInv => NoDependentMissed
  <2> SUFFICES ASSUME CInv, NEW s \in Scan, Done(s), ~job[s].stale
               PROVE  LET fresh == Parsed(job[s].hashes) IN
                      /\ \A changed \in SUBSET Path :
                             Plan(fresh, tree, changed) \subseteq Plan(job[s].graph, tree, changed)
                      /\ \A p \in Path : NeighborsOf(fresh, p) \subseteq NeighborsOf(job[s].graph, p)
    BY DEF NoDependentMissed
  <2> DEFINE fresh == Parsed(job[s].hashes)
             graph == job[s].graph
  <2>1. graph.syms = Declared(job[s].hashes) /\ fresh.edges \subseteq graph.edges
    BY CoverFacts DEF Done, JobOK, OfTexts, JobCovers, Covers
  <2>2. fresh.syms = Declared(job[s].hashes)
    BY DEF Parsed
  <2> HIDE DEF fresh, graph
  <2> QED
    BY <2>1, <2>2, PlanGrows, NeighborsGrow, CallGraphAssumption DEF fresh, graph
<1> QED
  BY <1>1, <1>2, <1>3, PTL DEF Spec
=============================================================================
