----------------------------- MODULE FixSession -----------------------------
(***************************************************************************)
(* Passes of `autofix fix` over one repository, with kills in the middle   *)
(* of a pass and an operator who saves files while it runs.                *)
(***************************************************************************)
EXTENDS FixPass

CONSTANTS Main,           \* the operator's branch
          Source,         \* the committed files: a snapshot
          Reports,        \* the finding lists a scan may hand over
          FlagChoices,    \* the flag combinations tried
          Edited,         \* content the operator may save
          MaxPasses, MaxSaves   \* bounds: passes, saves by the operator

ASSUME SessionAssumption ==
    /\ Main \in Branch \ RecoveryBranch
    /\ Source \in Snapshot
    /\ Reports \subseteq Seq(Finding)
    /\ FlagChoices \subseteq Flags
    /\ Edited \subseteq Content \cup {Absent}
    /\ MaxPasses \in Nat /\ MaxSaves \in Nat

VARIABLES base,           \* the working tree when the pass began
          before,         \* refs when the pass began
          touched,        \* files the operator saved during the pass
          passes, saves

env == <<base, before, touched, passes, saves>>
vars == <<gitVars, fixVars, env>>

Init ==
    /\ head = Main
    /\ refs = [b \in Branch \cup {"HEAD"} |-> IF b = Main THEN Source ELSE NoRef]
    /\ index = Source /\ tree = Source
    /\ fix = FixIdle /\ orphan = {} /\ patchCache = {}
    /\ base = Source /\ before = refs
    /\ touched = {} /\ passes = 0 /\ saves = 0

Begin ==
    /\ passes < MaxPasses
    /\ \E flags \in FlagChoices, report \in Reports : FixStart(flags, report, DOMAIN report)
    /\ base' = tree /\ before' = refs
    /\ touched' = {}
    /\ passes' = passes + 1
    /\ UNCHANGED saves

Step == FixStep /\ UNCHANGED env

Kill == FixCrash /\ UNCHANGED env

(* The command returned; another may be started. *)
Return ==
    /\ fix.pc = "done"
    /\ fix' = FixIdle
    /\ UNCHANGED <<orphan, patchCache, gitVars, env>>

OperatorSaves(f, c) ==
    /\ saves < MaxSaves
    /\ Save(f, c)
    /\ saves' = saves + 1
    /\ touched' = touched \cup {f}
    /\ UNCHANGED <<fixVars, base, before, passes>>

Next == \/ Begin \/ Step \/ Kill \/ Return
        \/ \E f \in File, c \in Edited : OperatorSaves(f, c)

Spec == Init /\ [][Next]_vars
-----------------------------------------------------------------------------
(* Every variable has its type. *)
TypeOK ==
    /\ GitTypeOK /\ FixTypeOK
    /\ base \in Snapshot /\ touched \subseteq File
    /\ passes \in 0..MaxPasses /\ saves \in 0..MaxSaves

Running == fix.pc # "idle"

(* The findings the pass acts on. *)
Acted == {fix.findings[i] : i \in Dedup(fix.findings, DOMAIN fix.findings)}

(* The lines of a file that this pass may delete: plain imports that a     *)
(* single-line finding sits on.                                            *)
Deletable(path) ==
    {f.start : f \in {g \in Acted :
        /\ g.path = path /\ g.start = g.end
        /\ g.start <= Len(base[path]) /\ base[path][g.start].kind = "import"}}

(* e tells where each line of now was: none is new, each is as it was, or  *)
(* patched, and only lines at the positions given are missing.             *)
Traces(e, now, was, missing) ==
    /\ \A i, j \in DOMAIN now : i < j => e[i] < e[j]
    /\ \A i \in DOMAIN now : \/ now[i] = was[e[i]]
                             \/ fix.flags.auto /\ now[i] = Patched(was[e[i]])
    /\ DOMAIN was \ Range(e) \subseteq missing

(* However many lines of a file are deleted and patched, in whichever      *)
(* order the findings came, every other line of it is still there, in its  *)
(* place in the order, none is patched without --auto-llm, and none was    *)
(* added (_apply_deletions indexes into a shrinking list, git apply into a *)
(* file the deletions shifted).                                            *)
OtherLinesKept ==
    Running => \A p \in File \ touched :
        base[p] # Absent =>
            /\ tree[p] # Absent
            /\ \E e \in [DOMAIN tree[p] -> DOMAIN base[p]] :
                  Traces(e, tree[p], base[p], Deletable(p))

(* noqa lines and multi-name imports survive the deletion pass: such a     *)
(* line changes only by a patch for a finding on it.                       *)
GuardedLinesNeverDeleted ==
    Running => \A p \in File \ touched :
        base[p] # Absent =>
            {l.id : l \in {x \in ToSet(base[p]) : x.kind \in {"noqa", "multi", "code"}}}
                \subseteq {l.id : l \in ToSet(tree[p])}

(* The reported ids tell the truth: a deletion that is reported happened,  *)
(* and a planned one not yet reported did not, at every point where the    *)
(* pass can stop or fail.                                                  *)
ReportIsExact ==
    Running => \A i \in Dedup(fix.findings, DOMAIN fix.findings) :
        LET f == fix.findings[i] IN
        (/\ f.path \notin touched /\ Tier(f) # "LLM_PATCH"
         /\ base[f.path] # Absent /\ f.start <= Len(base[f.path]))
            => /\ f.id \in fix.applied => base[f.path][f.start] \notin ToSet(tree[f.path])
               /\ i \in fix.plan => base[f.path][f.start] \in ToSet(tree[f.path])

(* Under --auto-llm a recovery branch at the commit of HEAD exists before  *)
(* the first file changes, unless the caller captured one already.         *)
RecoveryBranchFirst ==
    (Running /\ fix.flags.auto /\ ~fix.flags.captured /\ touched = {} /\ tree # base) =>
        \E b \in RecoveryBranch : before[b] = NoRef /\ refs[b] = before[head]

(* A temporary file left by a kill is gone after the next attempt on its   *)
(* file, which may fail: it never blocks two passes.                       *)
OrphanBlocksOnce ==
    [][fix.pc = "replace" /\ fix'.pc = "done" => NextFile \notin orphan']_vars

-----------------------------------------------------------------------------
(* Module docstring: --apply "deletes safe single-name unused-import       *)
(* lines in place".  A rewrite removes no line of another kind.            *)
OnlyImportsDeleted ==
    [][fix.pc = "replace" /\ fix'.pc = "read" =>
          \A p \in File : tree[p] # Absent =>
              \A l \in ToSet(tree[p]) \ ToSet(tree'[p]) : l.kind = "import"]_vars
=============================================================================
