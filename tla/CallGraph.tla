------------------------------ MODULE CallGraph ------------------------------
(***************************************************************************)
(* autofix/invalidation: the call graph a scan is planned on (call_graph.  *)
(* py) and the plan itself (planner.py), as operators.                     *)
(*                                                                         *)
(* Abstracted: what a text defines and names (tree-sitter, build_symbol_   *)
(* table) is the constants Defs and Refs, a malformed text has neither.  A *)
(* reference is already what import_resolver.resolve makes of it: a name   *)
(* of the file itself, a name of another file, or a whole module.  A       *)
(* symbol is the pair of its file and its name.                            *)
(***************************************************************************)
EXTENDS Integers, FiniteSets

CONSTANTS Path, Name,
          Text,        \* contents; a text stands for its sha256 as well
          Defs,        \* Defs[c]: the functions and classes c defines
          Refs,        \* Refs[c]: the references c makes
          Absent,      \* the "text" of a file that is not there
          Depth        \* max_depth of the planner

Symbol == Path \X Name
Ref == [kind : {"local", "from", "module"}, path : Path, name : Name]

ASSUME CallGraphAssumption ==
    /\ Defs \in [Text -> SUBSET Name]
    /\ Refs \in [Text -> SUBSET Ref]
    /\ Absent \notin Text
    /\ Depth \in Nat \ {0}

(* A graph: its symbols, and its calls as pairs <<caller, callee>>.  An    *)
(* edge may name a symbol the graph no longer has.                         *)
NoGraph == [syms |-> {}, edges |-> {}]
-----------------------------------------------------------------------------
(* A sources map gives the text of each file it knows.                     *)
SymbolsOf(path, text) == {path} \X Defs[text]

Declared(src) == UNION {SymbolsOf(p, src[p]) : p \in DOMAIN src}

(* The symbols a reference made in path stands for.  `import u` resolves   *)
(* to a file and to no symbol: no edge comes of it.                        *)
Target(path, r) ==
    CASE r.kind = "local"  -> {<<path, r.name>>}
      [] r.kind = "from"   -> {<<r.path, r.name>>}
      [] r.kind = "module" -> {}

(* Every definition of a file is a caller of whatever the file refers to.  *)
Calls(src, p) ==
    LET known   == Declared(src)
        targets == (UNION {Target(p, r) : r \in Refs[src[p]]}) \cap known
    IN {e \in SymbolsOf(p, src[p]) \X targets : e[1] # e[2]}

Parsed(src) ==
    [syms |-> Declared(src), edges |-> UNION {Calls(src, p) : p \in DOMAIN src}]
-----------------------------------------------------------------------------
SymbolsIn(g, p) == {s \in g.syms : s[1] = p}

Callers(g, S) == {e[1] : e \in {x \in g.edges : x[2] \in S}}
Callees(g, S) == {e[2] : e \in {x \in g.edges : x[1] \in S}}

CallersOf(g, seeds, depth) ==
    LET up[k \in 0..depth] ==
            IF k = 0 THEN seeds ELSE up[k - 1] \cup Callers(g, up[k - 1])
    IN up[depth] \ seeds

(* CallGraphPathAdapter.neighbors_of of the crawler: one hop, both ways.   *)
NeighborsOf(g, p) ==
    LET own == SymbolsIn(g, p) IN
    {s[1] : s \in Callers(g, own) \cup Callees(g, own)} \ {p}

(* plan(): a changed file the graph does not know is parsed on the fly.    *)
Seeds(g, tree, changed) ==
    UNION {LET known == SymbolsIn(g, p) IN
           IF known = {} /\ tree[p] # Absent THEN SymbolsOf(p, tree[p]) ELSE known
           : p \in changed}

Plan(g, tree, changed) ==
    LET seeds == Seeds(g, tree, changed) IN
    {s[1] : s \in seeds \cup CallersOf(g, seeds, Depth)} \cup changed

PlanFresh(g) == {s[1] : s \in g.syms}
=============================================================================
