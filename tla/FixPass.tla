------------------------------- MODULE FixPass -------------------------------
(***************************************************************************)
(* One call of _run_impl in autofix/cli/fix_command.py with preloaded      *)
(* findings, as `autofix run` and the crawl call it: the gates, the        *)
(* classification of each finding against the file, the rewrite of each    *)
(* file and the LLM patches, with repair/coordinator.py and the patch      *)
(* cache of repair/llm_patcher.py.  The variable fix is the call's frame.  *)
(*                                                                         *)
(* A file is a sequence of lines; a line has a kind, which is all that     *)
(* _classify_line looks at, and an identity.  The lists the pass works     *)
(* off, in the order of the findings, are sets of positions in them.       *)
(***************************************************************************)
EXTENDS GitRepo, Integers, Sequences, SequencesExt

CONSTANTS RecoveryBranch, \* candidate names of one pre-fix snapshot
          NoCap,          \* --max-llm-patches is not given
          LineId,         \* identities of lines
          MaxFindings,    \* _MAX_FINDINGS_PER_RUN
          DiskCanFill     \* os.write may write less than it was given

ASSUME FixAssumption == /\ RecoveryBranch \subseteq Branch
                        /\ NoCap \notin Int
                        /\ MaxFindings \in Nat
                        /\ DiskCanFill \in BOOLEAN

VARIABLES fix,
          orphan,         \* files whose <file>.autofix-tmp is on disk
          patchCache      \* envelopes under .autofix/cache/llm_patches

fixVars == <<fix, orphan, patchCache>>

Kind == {"import", "multi", "noqa", "code", "patched"}
SourceLine == [kind : Kind, id : LineId]

ASSUME FilesAreText == Content = Seq(SourceLine)

(* Content of the flags and of a finding; rule stands for the class of     *)
(* rule_id the coordinator's tables tell apart.                            *)
Flags == [apply : BOOLEAN, force : BOOLEAN, suggest : BOOLEAN, auto : BOOLEAN,
          captured : BOOLEAN, cap : Int \cup {NoCap}]

Finding == [id : STRING, path : File, start : Nat \ {0}, end : Nat \ {0},
            rule : {"deterministic", "llm", "unmapped"}, confident : BOOLEAN]

NoFlags == [apply |-> FALSE, force |-> FALSE, suggest |-> FALSE, auto |-> FALSE,
            captured |-> FALSE, cap |-> NoCap]

FixPc == {"idle", "status", "branch", "classify", "read", "replace",
          "produce", "git_apply", "done"}

FixIdle == [pc |-> "idle", flags |-> NoFlags, findings |-> <<>>, todo |-> {},
            plan |-> {}, buffer |-> <<>>, drop |-> {}, deleted |-> 0, applied |-> {},
            tasks |-> {}, misses |-> 0, llm |-> [applied |-> 0, failed |-> 0],
            exit |-> 0]

FixTypeOK ==
    /\ fix.pc \in FixPc
    /\ fix.flags \in Flags
    /\ fix.findings \in Seq(Finding)
    /\ fix.todo \cup fix.plan \cup fix.tasks \subseteq DOMAIN fix.findings
    /\ fix.deleted \in Nat /\ fix.misses \in Nat
    /\ fix.buffer \in Seq(SourceLine) /\ fix.drop \subseteq Nat \ {0}
    /\ fix.llm \in [applied : Nat, failed : Nat]
    /\ fix.applied \subseteq STRING
    /\ fix.exit \in {0, 1, 2}
    /\ orphan \subseteq File
    /\ patchCache \subseteq [id : STRING, base : Content,
                             status : {"ok", "rejected"}]
-----------------------------------------------------------------------------
(* coordinate_repairs: the confidence gate, the exact rules, the prefixes. *)
Tier(f) ==
    CASE f.confident /\ f.rule = "deterministic" -> "DETERMINISTIC"
      [] f.confident /\ f.rule = "llm"           -> "LLM_PATCH"
      [] OTHER                                   -> "HUMAN_ONLY"

(* The findings among those at the positions given that are for the LLM. *)
LLMTasks(findings, given) == {i \in given : Tier(findings[i]) = "LLM_PATCH"}

SameSpan(f, g) == f.path = g.path /\ f.start = g.start /\ f.end = g.end

(* First finding of every (path, start_line, end_line). *)
Dedup(findings, given) ==
    {i \in given : \A j \in given : j < i => ~SameSpan(findings[j], findings[i])}

(* Mutant: any line a single-line finding sits on is safe to delete. *)
ClassifyBySpan(f, line) == IF f.start # f.end THEN "unsafe-multiname" ELSE "safe"

(* _classify_line: noqa first, then the span, then the import shape. *)
Classify(f, line) ==
    CASE line.kind = "noqa"                          -> "noqa"
      [] line.kind = "import" /\ f.start = f.end     -> "safe"
      [] OTHER                                       -> "unsafe-multiname"
-----------------------------------------------------------------------------
FixReturn(code) == fix' = [fix EXCEPT !.pc = "done", !.exit = code]

BadFlags(flags) ==
    \/ flags.suggest /\ flags.auto
    \/ flags.auto /\ ~flags.apply
    \/ flags.cap # NoCap /\ flags.cap <= 0

(* Flag validation, the cap on findings, deduplication, the empty short    *)
(* circuit, coordination; the call gets the findings at the positions      *)
(* given.                                                                  *)
FixStart(flags, findings, given) ==
    LET kept   == Dedup(findings, given)
        called == [FixIdle EXCEPT !.flags = flags, !.findings = findings, !.todo = kept,
                     !.tasks = IF flags.suggest \/ flags.auto
                               THEN LLMTasks(findings, kept) ELSE {}]
    IN  /\ fix.pc = "idle"
        /\ fix' = IF BadFlags(flags) THEN [called EXCEPT !.pc = "done", !.exit = 2]
                  ELSE IF Cardinality(given) > MaxFindings
                       THEN [called EXCEPT !.pc = "done", !.exit = 1]
                  ELSE IF kept = {} THEN [called EXCEPT !.pc = "done"]
                  ELSE [called EXCEPT !.pc = "status"]
        /\ UNCHANGED <<orphan, patchCache, gitVars>>

(* Mutant: the tree is not asked for. *)
FixStatusIgnored ==
    /\ fix.pc = "status"
    /\ fix' = [fix EXCEPT !.pc = "branch"]
    /\ UNCHANGED <<orphan, patchCache, gitVars>>

(* The dirty-tree gate of --apply without --force. *)
FixStatus ==
    /\ fix.pc = "status"
    /\ IF fix.flags.apply /\ ~fix.flags.force
       THEN \/ FixReturn(1)                                 \* git status fails
            \/ FixReturn(2) /\ Dirty
            \/ fix' = [fix EXCEPT !.pc = "branch"] /\ ~Dirty
       ELSE fix' = [fix EXCEPT !.pc = "branch"]
    /\ UNCHANGED <<orphan, patchCache, gitVars>>

(* Mutant: a failed capture does not stop the pass. *)
FixBranchOptional ==
    /\ fix.pc = "branch"
    /\ fix' = [fix EXCEPT !.pc = "classify"]
    /\ UNCHANGED <<orphan, patchCache, gitVars>>

(* The recovery branch of --apply --auto-llm, once per run.  A candidate   *)
(* name that is taken, or that git branch fails on, is followed by the     *)
(* next; a timeout or no name left ends the pass.                          *)
FixBranch ==
    /\ fix.pc = "branch"
    /\ UNCHANGED <<orphan, patchCache>>
    /\ IF fix.flags.apply /\ fix.flags.auto /\ ~fix.flags.captured
       THEN \/ /\ \E b \in RecoveryBranch : CreateBranch(b)
               /\ fix' = [fix EXCEPT !.pc = "classify"]
            \/ FixReturn(1) /\ UNCHANGED gitVars
       ELSE fix' = [fix EXCEPT !.pc = "classify"] /\ UNCHANGED gitVars

(* After classification: the rewrites in apply mode, else the preview. *)
AfterClassify ==
    IF fix.flags.apply THEN "read" ELSE "produce"

(* One finding is classified on the text its file has now.  An unreadable  *)
(* file and a start line past the end of it leave the finding alone.       *)
FixClassify ==
    LET i     == Min(fix.todo)
        f     == fix.findings[i]
        lines == tree[f.path]
        safe  == /\ lines # Absent /\ f.start <= Len(lines)
                 /\ Classify(f, lines[f.start]) = "safe"
    IN  /\ fix.pc = "classify"
        /\ fix' = [fix EXCEPT
                     !.plan = IF safe THEN @ \cup {i} ELSE @,
                     !.todo = @ \ {i},
                     !.pc   = IF fix.todo = {i} THEN AfterClassify ELSE @]
        /\ UNCHANGED <<orphan, patchCache, gitVars>>

(* The planned files come in the order of their first hit. *)
NextFile == fix.findings[Min(fix.plan)].path

Hits == {i \in fix.plan : fix.findings[i].path = NextFile}

(* _apply_deletions reads the file; on any error its handler unlinks the   *)
(* temporary file, whoever left it.                                        *)
FixRead ==
    /\ fix.pc = "read"
    /\ \/ /\ fix.plan = {}
          /\ fix' = [fix EXCEPT !.pc = "produce"]
          /\ UNCHANGED orphan
       \/ /\ fix.plan # {} /\ tree[NextFile] = Absent
          /\ FixReturn(1)
          /\ orphan' = orphan \ {NextFile}
       \/ /\ fix.plan # {} /\ tree[NextFile] # Absent
          /\ fix' = [fix EXCEPT !.pc = "replace", !.buffer = tree[NextFile],
                                !.drop = {fix.findings[i].start : i \in Hits}]
          /\ UNCHANGED orphan
    /\ UNCHANGED <<patchCache, gitVars>>

(* Mutant: the lines are deleted from the top. *)
FixDeleteFromTop ==
    LET line == Min(fix.drop)
    IN  /\ fix.pc = "replace" /\ fix.drop # {}
        /\ fix' = [fix EXCEPT !.drop = @ \ {line},
                     !.buffer = IF line <= Len(@) THEN RemoveAt(@, line) ELSE @]
        /\ UNCHANGED <<orphan, patchCache, gitVars>>

(* One round of the deletion loop, from the bottom of the file up; a line  *)
(* past its end is skipped.                                                *)
FixDelete ==
    LET line == Max(fix.drop)
    IN  /\ fix.pc = "replace" /\ fix.drop # {}
        /\ fix' = [fix EXCEPT !.drop = @ \ {line},
                     !.buffer = IF line <= Len(@) THEN RemoveAt(@, line) ELSE @]
        /\ UNCHANGED <<orphan, patchCache, gitVars>>

(* What reaches the temporary file: the payload or, when the disk is full, *)
(* a prefix of it; os.write's result is not looked at.                     *)
Payloads(lines) ==
    {lines} \cup IF DiskCanFill
                 THEN {SubSeq(lines, 1, n) : n \in 0..(Len(lines) - 1)} ELSE {}

(* Mutant: the ids of the whole plan are reported with the first file. *)
FixReplaceReportsAll ==
    /\ fix.pc = "replace" /\ fix.drop = {} /\ NextFile \notin orphan
    /\ \E payload \in Payloads(fix.buffer) : tree' = [tree EXCEPT ![NextFile] = payload]
    /\ fix' = [fix EXCEPT !.pc = "read", !.plan = @ \ Hits,
                 !.deleted = @ + Cardinality(Hits),
                 !.applied = @ \cup {fix.findings[i].id : i \in fix.plan}]
    /\ UNCHANGED <<head, refs, index, orphan, patchCache>>

(* The temporary file is created exclusively, written and renamed over the *)
(* source.                                                                 *)
FixReplace ==
    /\ fix.pc = "replace" /\ fix.drop = {} /\ NextFile \notin orphan
    /\ \E payload \in Payloads(fix.buffer) : tree' = [tree EXCEPT ![NextFile] = payload]
    /\ fix' = [fix EXCEPT !.pc = "read", !.plan = @ \ Hits,
                 !.deleted = @ + Cardinality(Hits),
                 !.applied = @ \cup {fix.findings[i].id : i \in Hits}]
    /\ UNCHANGED <<head, refs, index, orphan, patchCache>>

(* Mutant: no cleanup in the exception handler. *)
FixReplaceFailsKeepsTemp ==
    /\ fix.pc = "replace" /\ fix.drop = {}
    /\ UNCHANGED orphan
    /\ FixReturn(1)
    /\ UNCHANGED <<patchCache, gitVars>>

(* An OSError on the way, an existing temporary file included: the handler *)
(* unlinks the temporary file and the pass ends with 1.                    *)
FixReplaceFails ==
    /\ fix.pc = "replace" /\ fix.drop = {}
    /\ orphan' = orphan \ {NextFile}
    /\ FixReturn(1)
    /\ UNCHANGED <<patchCache, gitVars>>
-----------------------------------------------------------------------------
(* The cache key hashes the bytes of the file, no bytes when it is gone. *)
FileSha(path) == IF tree[path] = Absent THEN <<>> ELSE tree[path]

Envelope(f) == {e \in patchCache : e.id = f.id /\ e.base = FileSha(f.path)}

(* produce_patch: what it returns, whether the LLM was called, and the     *)
(* cache after it.  A rejection is cached, whatever its cause; a write to  *)
(* the cache may fail unnoticed.  A patch passes git apply --check only if *)
(* the file has the line it is about.                                      *)
Produced(f) ==
    LET key(status) == [id |-> f.id, base |-> FileSha(f.path), status |-> status]
        inFile == tree[f.path] # Absent /\ f.start <= Len(tree[f.path])
        answer(status, called) ==
            {[status |-> status, called |-> called, hit |-> FALSE, cache |-> c] :
                c \in {patchCache, patchCache \cup {key(status)}}}
    IN  CASE tree[f.path] = Absent -> answer("rejected", FALSE)
          [] tree[f.path] # Absent /\ Envelope(f) # {} ->
               {[status |-> e.status, called |-> FALSE, hit |-> TRUE, cache |-> patchCache] :
                   e \in Envelope(f)}
          [] OTHER -> answer("rejected", TRUE)
                      \cup IF inFile THEN answer("ok", TRUE) ELSE {}

(* The cap of --max-llm-patches stops the loop before a call that would    *)
(* miss the cache.                                                         *)
OverCap(f) ==
    /\ fix.flags.cap # NoCap
    /\ Envelope(f) = {}
    /\ fix.misses >= fix.flags.cap

(* The exit code of --auto-llm: 1 only when nothing at all was applied and *)
(* some patch failed to apply.                                             *)
FinalCode(frame) ==
    IF frame.flags.auto /\ frame.llm.applied = 0 /\ frame.llm.failed > 0 /\ frame.deleted = 0
    THEN 1 ELSE 0

Task == fix.findings[Min(fix.tasks)]

TaskDone == fix.tasks \ {Min(fix.tasks)}

LoopEnds == fix.tasks # {} => OverCap(Task)

FixLoopEnds ==
    /\ fix.pc = "produce"
    /\ LoopEnds
    /\ FixReturn(FinalCode(fix))
    /\ UNCHANGED <<orphan, patchCache, gitVars>>

(* One task of _run_llm_preview or _run_llm_apply up to the patch.  A      *)
(* rejection counts as a miss even when it came from the cache.            *)
FixProduce ==
    /\ fix.pc = "produce"
    /\ ~LoopEnds
    /\ \E p \in Produced(Task) :
          LET apply == fix.flags.auto /\ p.status = "ok"
              frame == [fix EXCEPT
                          !.misses = IF fix.flags.cap # NoCap /\ (p.status = "rejected" \/ ~p.hit)
                                     THEN @ + 1 ELSE @]
          IN  /\ patchCache' = p.cache
              /\ fix' = IF apply
                        THEN [frame EXCEPT !.pc = "git_apply",
                                !.buffer = <<tree[Task.path][Task.start]>>]
                        ELSE [frame EXCEPT !.tasks = TaskDone]
    /\ UNCHANGED <<orphan, gitVars>>

Patched(line) == [kind |-> "patched", id |-> line.id]

(* Mutant: an applied patch is not reported. *)
FixGitApplyUnreported ==
    LET f    == Task
        line == fix.buffer[1]
    IN  /\ fix.pc = "git_apply"
        /\ tree[f.path] # Absent /\ line \in ToSet(tree[f.path])
        /\ tree' = [tree EXCEPT ![f.path] =
                      [i \in DOMAIN @ |-> IF @[i] = line THEN Patched(line) ELSE @[i]]]
        /\ fix' = [fix EXCEPT !.pc = "produce", !.tasks = TaskDone, !.llm.applied = @ + 1]
        /\ UNCHANGED <<head, refs, index, orphan, patchCache>>

(* git apply of the patch: it replaces its line wherever the file has it   *)
(* now.                                                                    *)
FixGitApply ==
    LET f    == Task
        line == fix.buffer[1]
    IN  /\ fix.pc = "git_apply"
        /\ tree[f.path] # Absent /\ line \in ToSet(tree[f.path])
        /\ tree' = [tree EXCEPT ![f.path] =
                      [i \in DOMAIN @ |-> IF @[i] = line THEN Patched(line) ELSE @[i]]]
        /\ fix' = [fix EXCEPT !.pc = "produce", !.tasks = TaskDone,
                     !.llm.applied = @ + 1, !.applied = @ \cup {f.id}]
        /\ UNCHANGED <<head, refs, index, orphan, patchCache>>

(* git apply refuses, times out or is missing: report and continue. *)
FixGitApplyFails ==
    /\ fix.pc = "git_apply"
    /\ fix' = [fix EXCEPT !.pc = "produce", !.tasks = TaskDone, !.llm.failed = @ + 1]
    /\ UNCHANGED <<orphan, patchCache, gitVars>>

FixStep ==
    \/ FixStatus \/ FixBranch \/ FixClassify
    \/ FixRead \/ FixDelete \/ FixReplace \/ FixReplaceFails
    \/ FixLoopEnds \/ FixProduce \/ FixGitApply \/ FixGitApplyFails

(* The process is killed.  A temporary file it had created stays. *)
FixCrash ==
    /\ fix.pc \notin {"idle", "done"}
    /\ fix' = FixIdle
    /\ orphan' \in {orphan} \cup IF fix.pc = "replace" /\ fix.drop = {}
                                 THEN {orphan \cup {NextFile}} ELSE {}
    /\ UNCHANGED <<patchCache, gitVars>>
=============================================================================
