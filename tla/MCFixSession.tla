---------------------------- MODULE MCFixSession ----------------------------
(* Small instances of FixSession for TLC. *)
EXTENDS FixSession

CONSTANTS a, b

L(kind, id) == [kind |-> kind, id |-> id]

MCSource == (a :> <<L("import", 1), L("code", 2), L("import", 3), L("code", 8)>>)
         @@ (b :> <<L("noqa", 4), L("import", 5), L("multi", 6)>>)

MCContent == Seq(SourceLine)

F(id, path, start, end, rule, confident) ==
    [id |-> id, path |-> path, start |-> start, end |-> end,
     rule |-> rule, confident |-> confident]

(* Imports first and last in a file, a duplicate span, a span over two     *)
(* lines, noqa and multi-name lines, a stale line number.                  *)
DeterministicReport ==
    << F("a1", a, 1, 1, "deterministic", TRUE), F("a1x", a, 1, 1, "deterministic", TRUE),
       F("b1", b, 1, 1, "deterministic", TRUE), F("a3", a, 3, 3, "deterministic", TRUE),
       F("b2", b, 2, 2, "deterministic", TRUE), F("b3", b, 3, 3, "deterministic", TRUE),
       F("a12", a, 1, 2, "deterministic", TRUE), F("a9", a, 9, 9, "deterministic", TRUE) >>

(* Patches in a file whose lines the deletions shift. *)
MixedReport ==
    << F("a1", a, 1, 1, "deterministic", TRUE), F("a2", a, 2, 2, "llm", TRUE),
       F("b2", b, 2, 2, "llm", TRUE) >>

(* Patches only, and findings nobody should act on. *)
LLMReport ==
    << F("a2", a, 2, 2, "llm", TRUE), F("b1", b, 1, 1, "llm", TRUE),
       F("b3", b, 3, 3, "unmapped", TRUE), F("a23", a, 2, 3, "llm", FALSE) >>

HumanOnlyReport == << F("a1", a, 1, 1, "llm", FALSE), F("b2", b, 2, 2, "unmapped", TRUE) >>

(* One finding more than a pass accepts, before deduplication. *)
LongReport == Append(DeterministicReport, F("a1y", a, 1, 1, "deterministic", TRUE))

MCReports == {<<>>, DeterministicReport, MixedReport, LLMReport, LongReport, HumanOnlyReport}
DeterministicReports == {DeterministicReport}

Flag(apply, force, suggest, auto, captured, cap) ==
    [apply |-> apply, force |-> force, suggest |-> suggest, auto |-> auto,
     captured |-> captured, cap |-> cap]

Apply     == Flag(TRUE, FALSE, FALSE, FALSE, FALSE, NoCap)
Forced    == Flag(TRUE, TRUE, FALSE, FALSE, FALSE, NoCap)
Suggest   == Flag(FALSE, FALSE, TRUE, FALSE, FALSE, 1)
AutoLLM   == Flag(TRUE, FALSE, FALSE, TRUE, FALSE, NoCap)
AutoCap   == Flag(TRUE, TRUE, FALSE, TRUE, TRUE, 1)
Both      == Flag(TRUE, FALSE, TRUE, TRUE, FALSE, NoCap)
AutoOnly  == Flag(FALSE, FALSE, FALSE, TRUE, FALSE, NoCap)
ZeroCap   == Flag(TRUE, FALSE, FALSE, TRUE, FALSE, 0)

MCFlags == {Apply, Forced, Suggest, AutoLLM, AutoCap, Both, AutoOnly, ZeroCap}
ApplyOnly == {Apply}

MCEdited == {<<L("code", 7), L("import", 1), L("code", 2), L("import", 3)>>}
=============================================================================
