------------------------------ MODULE MCRunLoop ------------------------------
(* Small instances of RunLoop for TLC. *)
EXTENDS RunLoop

CONSTANT a

L(kind, id) == [kind |-> kind, id |-> id]

MCSource == a :> <<L("import", 1), L("code", 2)>>
MCContent == Seq(SourceLine)

F(id, line, rule) == [id |-> id, path |-> a, start |-> line, end |-> line,
                      rule |-> rule, confident |-> TRUE]

(* Nothing; an unused import; a line for the LLM; both. *)
MCReports == {<<>>, <<F("d1", 1, "deterministic")>>, <<F("p2", 2, "llm")>>,
              <<F("d1", 1, "deterministic"), F("p2", 2, "llm")>>}

A(apply, suggest, auto, maxRetries, postFix) ==
    [apply |-> apply, suggest |-> suggest, auto |-> auto,
     maxRetries |-> maxRetries, postFix |-> postFix]

MCArgs == {A(FALSE, FALSE, FALSE, 1, "None"), A(TRUE, FALSE, FALSE, 0, "None"),
            A(TRUE, FALSE, TRUE, 1, "branch-pr"), A(TRUE, TRUE, FALSE, 1, "None"),
            A(TRUE, TRUE, TRUE, 1, "None"), A(FALSE, FALSE, TRUE, 1, "None"),
            A(TRUE, FALSE, FALSE, -1, "None")}
RetryArgs == {A(TRUE, FALSE, FALSE, 3, "None")}
=============================================================================
