----------------------------- MODULE CrawlCycle -----------------------------
(***************************************************************************)
(* Crawl cycles, autofix/cli/cycle_runner.py: every (bundle, analyzer)     *)
(* pair of a batch is analyzed and recorded in the ledger, the findings of *)
(* the whole batch go to _dispatch_repair_workflow once: the fix pass      *)
(* (FixPass), the compile check with its revert, the post-fix policy       *)
(* (PostFixPolicy).  Cycles follow each other; the process may be killed   *)
(* at any point and started again; the operator saves files meanwhile.     *)
(*                                                                         *)
(* External: which batch the picker returns, what an analyzer reports, and *)
(* which patches of the LLM leave a file that does not compile (BadPatch). *)
(***************************************************************************)
EXTENDS Repair

CONSTANTS Bundles,        \* the sequences of bundles, sets of files, that may be picked
          AnyFile,        \* a bundle may hold a file git does not track
          Analyzers,      \* the analyzer sequences of the budget tiers
          LLMAnalyzer,    \* those named llm:*
          Analysis,       \* [bundle][analyzer]: finding lists one analysis may give
          BadPatch,       \* lines whose patch breaks the file
          Mine,           \* what the operator saves
          MaxCrawls, MaxSaves   \* bounds: cycles, saves by the operator

(* The pairs that come up. *)
Pairs == [bundle   : UNION {ToSet(bundles) : bundles \in Bundles},
          analyzer : UNION {ToSet(analyzers) : analyzers \in Analyzers}]

(* Lines of kind "patched" are those the LLM wrote, not the operator. *)
Unpatched(lines) == \A l \in ToSet(lines) : l.kind # "patched"

ASSUME CrawlAssumption ==
    /\ Bundles \subseteq Seq(SUBSET File) /\ AnyFile \in BOOLEAN
    /\ \A analyzers \in Analyzers : analyzers \in Seq(ToSet(analyzers))
    /\ \A pair \in Pairs : \A report \in Analysis[pair.bundle][pair.analyzer] :
          report \in Seq(Finding) /\ \A i \in DOMAIN report : report[i].path \in pair.bundle
    /\ Mine \in Content /\ Unpatched(Mine)
    /\ \A f \in File : Source[f] # Absent => Unpatched(Source[f])
    /\ MaxCrawls \in Nat /\ MaxSaves \in Nat

VARIABLES crawl,          \* the frame of the cycle and its dispatcher
          ledger,         \* pairs recorded in the ledger
          begin,          \* the working tree, refs and HEAD when the cycle began
          touched,        \* files the operator saved
          crawls          \* how many cycles there have been

crawlVars == <<crawl, ledger, begin, touched, crawls>>
allVars == <<gitVars, fixVars, post, crawlVars>>

Mode == {"preview", "commit", "pr"}

CrawlIdle == [pc |-> "idle", mode |-> "preview", batch |-> <<>>, next |-> 1,
              findings |-> <<>>, code |-> 0]

CrawlInit ==
    /\ RepairInit
    /\ crawl = CrawlIdle /\ ledger = {}
    /\ begin = [tree |-> tree, refs |-> refs, head |-> head]
    /\ touched = {} /\ crawls = 0
-----------------------------------------------------------------------------
(* Bundles x analyzers, bundle by bundle. *)
Crossed(bundles, analyzers) ==
    [k \in 1..(Len(bundles) * Len(analyzers)) |->
        [bundle   |-> bundles[1 + ((k - 1) \div Len(analyzers))],
         analyzer |-> analyzers[1 + ((k - 1) % Len(analyzers))]]]

(* The candidates are those of git ls-files.  When that fails they are the *)
(* files there are, and the mirror of a test file need only exist.         *)
Candidates == {f \in File : index[f] # Absent \/ (AnyFile /\ tree[f] # Absent)}

(* The cycle's body begins: the batch is picked. *)
CycleStart(mode) ==
    /\ crawl.pc = "idle" /\ crawls < MaxCrawls
    /\ \E bundles \in Bundles, analyzers \in Analyzers :
          /\ \A bundle \in ToSet(bundles) : bundle \subseteq Candidates
          /\ crawl' = [CrawlIdle EXCEPT !.pc = "analyze", !.mode = mode,
                                        !.batch = Crossed(bundles, analyzers)]
    /\ crawls' = crawls + 1
    /\ begin' = [tree |-> tree, refs |-> refs, head |-> head]
    /\ UNCHANGED <<gitVars, fixVars, post, ledger, touched>>

(* analyze_files on one pair, then its ledger row. *)
CycleAnalyze ==
    /\ crawl.pc = "analyze" /\ crawl.next <= Len(crawl.batch)
    /\ \E report \in LET pair == crawl.batch[crawl.next]
                     IN  Analysis[pair.bundle][pair.analyzer] :
          crawl' = [crawl EXCEPT !.findings = @ \o report, !.next = @ + 1]
    /\ ledger' = ledger \cup {crawl.batch[crawl.next]}
    /\ UNCHANGED <<gitVars, fixVars, post, begin, touched, crawls>>

CycleReturn(code) == crawl' = [CrawlIdle EXCEPT !.code = code]

(* An analysis, or the ledger, raises: the loop drops the cycle and with   *)
(* it the findings of the pairs already recorded.                          *)
CycleRaises ==
    /\ crawl.pc = "analyze"
    /\ CycleReturn(1)
    /\ UNCHANGED <<gitVars, fixVars, post, ledger, begin, touched, crawls>>

(* The dispatcher fires for findings in a mode other than preview. *)
WantsDispatch == crawl.findings # <<>> /\ crawl.mode # "preview"

CycleAnalyzed ==
    /\ crawl.pc = "analyze" /\ crawl.next > Len(crawl.batch)
    /\ IF WantsDispatch THEN crawl' = [crawl EXCEPT !.pc = "dispatch"] ELSE CycleReturn(0)
    /\ UNCHANGED <<gitVars, fixVars, post, ledger, begin, touched, crawls>>

HasLLM == \E i \in DOMAIN crawl.batch : crawl.batch[i].analyzer \in LLMAnalyzer

(* _run_fix_core on the findings of the whole batch. *)
DispatchFix ==
    /\ crawl.pc = "dispatch"
    /\ FixStart([NoFlags EXCEPT !.apply = TRUE, !.auto = HasLLM],
                crawl.findings, DOMAIN crawl.findings)
    /\ crawl' = [crawl EXCEPT !.pc = "fixing"]
    /\ UNCHANGED <<post, ledger, begin, touched, crawls>>

DispatchFixing ==
    /\ crawl.pc = "fixing" /\ FixStep
    /\ UNCHANGED <<post, crawlVars>>

DispatchFixed ==
    /\ crawl.pc = "fixing" /\ fix.pc = "done"
    /\ CASE fix.exit # 0     -> CycleReturn(fix.exit)
         [] fix.exit = 0 /\ fix.applied = {} -> CycleReturn(0)
         [] OTHER            -> crawl' = [crawl EXCEPT !.pc = "verify"]
    /\ fix' = FixIdle
    /\ UNCHANGED <<gitVars, orphan, patchCache, post, ledger, begin, touched, crawls>>

Compiles(lines) == \A l \in ToSet(lines) : l.kind = "patched" => l.id \notin BadPatch

(* git diff --name-only, less the files that are gone. *)
Modified == {f \in File : index[f] # Absent /\ tree[f] \notin {index[f], Absent}}

(* Mutant: one file that compiles is enough. *)
VerifiedSome == Modified = {} \/ \E f \in Modified : Compiles(tree[f])

Verified == \A f \in Modified : Compiles(tree[f])

(* _verify_modified_files_compile.  It also fails when git cannot be asked *)
(* or mypy sees an unreachable statement.  The policy starts at once.      *)
DispatchVerify ==
    /\ crawl.pc = "verify"
    /\ \/ /\ Verified
          /\ \E b \in FreshBranch :
                PostStart(TRUE, IF crawl.mode = "pr" THEN "branch-pr" ELSE "branch", "None", b)
          /\ crawl' = [crawl EXCEPT !.pc = "post"]
       \/ /\ crawl' = [crawl EXCEPT !.pc = "revert"]
          /\ UNCHANGED <<post, gitVars>>
    /\ UNCHANGED <<fixVars, ledger, begin, touched, crawls>>

(* _revert_working_tree: git checkout -- . , whose failure is swallowed.   *)
DispatchRevert ==
    /\ crawl.pc = "revert"
    /\ RestoreFromIndex \/ UNCHANGED gitVars
    /\ CycleReturn(1)
    /\ UNCHANGED <<fixVars, post, ledger, begin, touched, crawls>>

DispatchPost ==
    /\ crawl.pc = "post" /\ PostStep
    /\ UNCHANGED <<fixVars, crawlVars>>

(* Whatever the policy came to, the dispatcher returns EXIT_OK. *)
DispatchPosted ==
    /\ crawl.pc = "post" /\ post.pc = "done"
    /\ post' = PostIdle
    /\ CycleReturn(0)
    /\ UNCHANGED <<gitVars, fixVars, ledger, begin, touched, crawls>>

(* SIGTERM, kill -9 or a crash; `autofix start` begins a new process. *)
CrawlKilled ==
    /\ crawl.pc # "idle"
    /\ IF fix.pc \in {"idle", "done"}
       THEN fix' = FixIdle /\ UNCHANGED <<orphan, patchCache, gitVars>>
       ELSE FixCrash
    /\ post' = PostIdle
    /\ CycleReturn(1)
    /\ UNCHANGED <<ledger, begin, touched, crawls>>

OperatorSaves(f) ==
    /\ Cardinality(touched) < MaxSaves
    /\ Save(f, Mine)
    /\ touched' = touched \cup {f}
    /\ UNCHANGED <<fixVars, post, crawl, ledger, begin, crawls>>

CrawlStep ==
    \/ CycleAnalyze \/ CycleRaises \/ CycleAnalyzed
    \/ DispatchFix \/ DispatchFixing \/ DispatchFixed
    \/ DispatchVerify \/ DispatchRevert \/ DispatchPost \/ DispatchPosted

CrawlNext ==
    \/ \E mode \in Mode : CycleStart(mode)
    \/ CrawlStep \/ CrawlKilled
    \/ \E f \in File : OperatorSaves(f)

CrawlSpec == CrawlInit /\ [][CrawlNext]_allVars
-----------------------------------------------------------------------------
(* A file that does not compile is never committed: not by a cycle whose   *)
(* check failed and whose revert failed too, not by the cycles after it,   *)
(* not after a kill in the middle of a pass, whose broken edits the next   *)
(* dispatch finds in the tree.                                             *)
OnlyCompilingCommitted ==
    \A b \in FixesBranch :
        refs[b] # NoRef =>
            \A f \in File : refs[b][f] # Absent => Compiles(refs[b][f])

(* The check before the policy covers every file the pass may have changed *)
(* ("every modified Python file in the working tree").                     *)
CheckCoversTheTree ==
    crawl.pc = "post" => \A f \in File : tree[f] # Absent => Compiles(tree[f])

(* A cycle that commits began on a clean tree: its commit mixes in nothing *)
(* that a killed, refused or failed cycle before it left behind.           *)
CommitIsThisCycles ==
    \A b \in FixesBranch :
        begin.refs[b] = NoRef /\ refs[b] \notin {NoRef, begin.refs[begin.head]} =>
            \A f \in File \ touched : begin.tree[f] = begin.refs[begin.head][f]
=============================================================================
