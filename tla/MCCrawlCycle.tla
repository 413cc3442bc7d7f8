---------------------------- MODULE MCCrawlCycle ----------------------------
(* Small instances of CrawlCycle for TLC. *)
EXTENDS CrawlCycle

CONSTANTS a, b

L(kind, id) == [kind |-> kind, id |-> id]

MCSource == a :> <<L("import", 1), L("code", 2)>> @@ b :> <<L("code", 3)>>
(* b is a file that nobody has added. *)
UntrackedSource == a :> <<L("import", 1), L("code", 2)>> @@ b :> Absent
MCContent == Seq(SourceLine)
MCMine == <<L("code", 4)>>

F(id, path, line, rule) == [id |-> id, path |-> path, start |-> line, end |-> line,
                            rule |-> rule, confident |-> TRUE]

(* The two files are a bundle each; "cheap" is the unused-import analyzer. *)
MCBundles == {<<{a}, {b}>>}
MCAnalyzers == {<<"cheap">>, <<"cheap", "llm">>}

MCAnalysis ==
    {a} :> [cheap |-> {<<>>, <<F("d1", a, 1, "deterministic")>>},
            llm   |-> {<<>>, <<F("p2", a, 2, "llm")>>}]
    @@ {b} :> [cheap |-> {<<>>}, llm |-> {<<>>, <<F("p3", b, 1, "llm")>>}]
=============================================================================
