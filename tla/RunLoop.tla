------------------------------- MODULE RunLoop -------------------------------
(***************************************************************************)
(* `autofix run`: _run_one_cycle of autofix/cli/run_command.py drives the  *)
(* scan, the coordinator, the patcher, the fix pass (FixPass) and, after   *)
(* DONE, the post-fix policy (PostFixPolicy), and records every phase in   *)
(* the state machine (WorkflowStates).  With --watch one cycle follows the *)
(* other on the same repository.                                           *)
(*                                                                         *)
(* External: what a scan reports, any member of Reports or a failure.      *)
(***************************************************************************)
EXTENDS Repair, WorkflowStates

CONSTANTS Reports,        \* the finding lists a scan may return
          ArgChoices,     \* the command lines tried
          MaxRetries,     \* the highest --max-retries among them
          MaxCycles,      \* bound: cycles of --watch
          MaxCommits      \* bound: commits by the operator

ASSUME RunAssumption ==
    /\ Reports \subseteq Seq(Finding)
    /\ MaxRetries \in Nat
    /\ MaxCycles \in Nat /\ MaxCommits \in Nat

VARIABLES run,            \* the frame of run() and _run_one_cycle
          sm,             \* the StateMachine: rows written and attempt counters
          cycles, commits,
          base, before    \* the working tree and refs when the cycle began

smIdle == [rows |-> <<>>, attempts |-> [s \in State |-> 0]]
runVars == <<run, sm, cycles, commits, base, before>>
vars == <<gitVars, fixVars, post, runVars>>

Args == [apply : BOOLEAN, suggest : BOOLEAN, auto : BOOLEAN,
         maxRetries : Int, postFix : Policy \cup {"None"}]

ASSUME ArgsAssumption == /\ ArgChoices \subseteq Args
                         /\ \A args \in ArgChoices : args.maxRetries <= MaxRetries

RunIdle(args) ==
    [pc |-> "idle", args |-> args, findings |-> <<>>, kept |-> {}, tasks |-> {},
     attempt |-> 0, captured |-> FALSE, applied |-> {}, postIds |-> {},
     fixExit |-> 0, exit |-> 0]

Init ==
    /\ RepairInit
    /\ run \in {RunIdle(args) : args \in ArgChoices}
    /\ sm = smIdle /\ cycles = 0 /\ commits = 0
    /\ base = Source /\ before = refs
-----------------------------------------------------------------------------
Current == sm.rows[Len(sm.rows)].to

RowTo(to) == [from |-> Current, to |-> to, attempt |-> sm.attempts[to] + 1]

(* sm.transition(to_state=to): the row is on disk when it returns. *)
Enter(to) ==
    sm' = [rows |-> Append(sm.rows, RowTo(to)), attempts |-> [sm.attempts EXCEPT ![to] = @ + 1]]

RunReturn(code) == run' = [run EXCEPT !.pc = "returned", !.exit = code]

Fail == Enter("FAILED") /\ RunReturn(1)

BadArgs(args) ==
    \/ args.suggest /\ args.auto
    \/ args.auto /\ ~args.apply
    \/ args.maxRetries < 0

(* run(): flag validation; then a cycle with a fresh StateMachine, whose   *)
(* constructor writes the SCANNING row or raises.                          *)
RunStart ==
    /\ run.pc = "idle" /\ cycles < MaxCycles
    /\ cycles' = cycles + 1
    /\ base' = tree /\ before' = refs
    /\ IF BadArgs(run.args)
       THEN RunReturn(2) /\ sm' = smIdle
       ELSE \/ /\ run' = [RunIdle(run.args) EXCEPT !.pc = "scan"]
               /\ sm' = [rows |-> <<InitialRow>>,
                         attempts |-> [s \in State |-> IF s = "SCANNING" THEN 1 ELSE 0]]
            \/ /\ run' = [RunIdle(run.args) EXCEPT !.pc = "raised"]
               /\ sm' = smIdle
    /\ UNCHANGED <<gitVars, fixVars, post, commits>>

RunScan ==
    /\ run.pc = "scan"
    /\ \/ Fail
       \/ /\ \E report \in Reports :
                run' = [run EXCEPT !.pc = "triage", !.findings = report,
                                   !.kept = Dedup(report, DOMAIN report)]
          /\ UNCHANGED sm
    /\ UNCHANGED <<gitVars, fixVars, post, cycles, commits, base, before>>

(* Mutant: a run with nothing to triage goes straight to PLANNING. *)
RunTriageShortcut ==
    /\ run.pc = "triage"
    /\ IF run.kept = {} THEN UNCHANGED sm ELSE Enter("TRIAGING")
    /\ run' = [run EXCEPT !.pc = "plan", !.tasks = LLMTasks(run.findings, run.kept)]
    /\ UNCHANGED <<gitVars, fixVars, post, cycles, commits, base, before>>

RunTriage ==
    /\ run.pc = "triage"
    /\ Enter("TRIAGING")
    /\ run' = [run EXCEPT !.pc = "plan", !.tasks = LLMTasks(run.findings, run.kept)]
    /\ UNCHANGED <<gitVars, fixVars, post, cycles, commits, base, before>>

RunPlan ==
    /\ run.pc = "plan"
    /\ Enter("PLANNING")
    /\ run' = [run EXCEPT !.pc = "patches"]
    /\ UNCHANGED <<gitVars, fixVars, post, cycles, commits, base, before>>

(* Mutant: a rejected task is tried again. *)
RunPatchesInsists ==
    /\ run.pc = "patches"
    /\ IF run.tasks = {}
       THEN run' = [run EXCEPT !.pc = "decide"] /\ UNCHANGED patchCache
       ELSE \E p \in Produced(run.findings[Min(run.tasks)]) :
               /\ patchCache' = p.cache
               /\ run' = [run EXCEPT !.tasks = IF p.status = "ok" THEN @ \ {Min(@)} ELSE @]
    /\ UNCHANGED <<gitVars, fix, orphan, post, sm, cycles, commits, base, before>>

(* produce_patch for every LLM task; only the cache remembers the patches. *)
RunPatches ==
    /\ run.pc = "patches"
    /\ IF run.tasks = {}
       THEN run' = [run EXCEPT !.pc = "decide"] /\ UNCHANGED patchCache
       ELSE /\ \E p \in Produced(run.findings[Min(run.tasks)]) : patchCache' = p.cache
            /\ run' = [run EXCEPT !.tasks = @ \ {Min(@)}]
    /\ UNCHANGED <<gitVars, fix, orphan, post, sm, cycles, commits, base, before>>

(* Without --apply the run ends in HUMAN_REVIEW with exit code 3. *)
RunReview ==
    /\ run.pc = "decide" /\ ~run.args.apply
    /\ Enter("HUMAN_REVIEW")
    /\ RunReturn(3)
    /\ UNCHANGED <<gitVars, fixVars, post, cycles, commits, base, before>>

(* APPLYING: _run_fix_core with force=False and no cap. *)
RunApply ==
    /\ run.pc = "decide" /\ run.args.apply
    /\ Enter("APPLYING")
    /\ FixStart([NoFlags EXCEPT !.apply = TRUE, !.auto = run.args.auto,
                                !.captured = run.captured],
                run.findings, run.kept)
    /\ run' = [run EXCEPT !.pc = "fixing"]
    /\ UNCHANGED <<post, cycles, commits, base, before>>

RunFixing ==
    /\ run.pc = "fixing" /\ FixStep
    /\ UNCHANGED <<post, runVars>>

(* Mutant: the recovery branch is not remembered across retries. *)
RunFixedForgetsBranch ==
    /\ run.pc = "fixing" /\ fix.pc = "done"
    /\ fix' = FixIdle
    /\ IF fix.exit # 0
       THEN /\ Enter("FAILED")
            /\ run' = [run EXCEPT !.pc = "returned", !.exit = 1, !.fixExit = fix.exit]
       ELSE /\ Enter("VERIFYING")
            /\ run' = [run EXCEPT !.pc = "rescan", !.applied = @ \cup fix.applied]
    /\ UNCHANGED <<gitVars, orphan, patchCache, post, cycles, commits, base, before>>

(* The fix pass returned: FAILED on a nonzero code, else VERIFYING. *)
RunFixed ==
    /\ run.pc = "fixing" /\ fix.pc = "done"
    /\ fix' = FixIdle
    /\ IF fix.exit # 0
       THEN /\ Enter("FAILED")
            /\ run' = [run EXCEPT !.pc = "returned", !.exit = 1, !.fixExit = fix.exit,
                                  !.captured = @ \/ run.args.auto]
       ELSE /\ Enter("VERIFYING")
            /\ run' = [run EXCEPT !.pc = "rescan", !.captured = @ \/ run.args.auto,
                                  !.applied = @ \cup fix.applied]
    /\ UNCHANGED <<gitVars, orphan, patchCache, post, cycles, commits, base, before>>

Exhausted == run.attempt >= run.args.maxRetries

(* Mutant: the last attempt is taken for a success. *)
UnresolvedUnlessLast(ids) == IF Exhausted THEN {} ELSE run.applied \cap ids

(* The applied findings the re-scan still reports. *)
Unresolved(ids) == run.applied \cap ids

(* The verification re-scan: DONE when no applied finding is reported any  *)
(* more, RETRY while attempts are left, else FAILED.                       *)
RunRescan ==
    /\ run.pc = "rescan"
    /\ UNCHANGED <<fixVars, cycles, commits, base, before>>
    /\ \/ Fail /\ UNCHANGED <<post, gitVars>>
       \/ \E report \in Reports :
            LET ids == {f.id : f \in ToSet(report)}
                unresolved == Unresolved(ids)
            IN  CASE unresolved = {} /\ run.applied = {} ->
                       /\ Enter("DONE")
                       /\ run' = [run EXCEPT !.pc = "returned", !.exit = 0, !.postIds = ids]
                       /\ UNCHANGED <<post, gitVars>>
                  [] unresolved = {} /\ run.applied # {} ->
                       /\ Enter("DONE")
                       /\ \E b \in FreshBranch : PostStart(TRUE, run.args.postFix, "None", b)
                       /\ run' = [run EXCEPT !.pc = "post", !.postIds = ids]
                  [] unresolved # {} /\ Exhausted ->
                       Fail /\ UNCHANGED <<post, gitVars>>
                  [] OTHER ->
                       /\ Enter("RETRY")
                       /\ run' = [run EXCEPT !.pc = "triage", !.attempt = @ + 1,
                                             !.findings = report,
                                             !.kept = Dedup(report, DOMAIN report)]
                       /\ UNCHANGED <<post, gitVars>>

RunPost ==
    /\ run.pc = "post" /\ PostStep
    /\ UNCHANGED <<fixVars, runVars>>

(* Mutant: a policy that fell back turns the run into a failure. *)
RunPostedFails ==
    /\ run.pc = "post" /\ post.pc = "done"
    /\ post' = PostIdle
    /\ RunReturn(IF post.outcome = post.resolved THEN 0 ELSE 1)
    /\ UNCHANGED <<gitVars, fixVars, sm, cycles, commits, base, before>>

(* The policy never raises: the run still ends with exit code 0. *)
RunPosted ==
    /\ run.pc = "post" /\ post.pc = "done"
    /\ post' = PostIdle
    /\ RunReturn(0)
    /\ UNCHANGED <<gitVars, fixVars, sm, cycles, commits, base, before>>

(* The states the next sm.transition may enter. *)
NextStates ==
    CASE run.pc = "scan"   -> {"FAILED"}
      [] run.pc = "triage" -> {"TRIAGING"}
      [] run.pc = "plan"   -> {"PLANNING"}
      [] run.pc = "decide" -> {IF run.args.apply THEN "APPLYING" ELSE "HUMAN_REVIEW"}
      [] run.pc = "fixing" /\ fix.pc = "done" ->
                              {IF fix.exit = 0 THEN "VERIFYING" ELSE "FAILED"}
      [] run.pc = "rescan" -> {"FAILED", "DONE", "RETRY"}
      [] OTHER             -> {}

(* The log cannot be written: the OSError leaves _run_one_cycle.  The      *)
(* attempt was counted already.                                            *)
RunRaises ==
    /\ \E to \in NextStates : sm' = [sm EXCEPT !.attempts[to] = @ + 1]
    /\ run' = [run EXCEPT !.pc = "raised"]
    /\ fix' = FixIdle
    /\ UNCHANGED <<gitVars, orphan, patchCache, post, cycles, commits, base, before>>

(* --watch: the dispatcher survives the cycle and waits for the next batch; *)
(* a usage error ends the command instead.                                 *)
RunNextCycle ==
    /\ run.pc = "raised" \/ (run.pc = "returned" /\ run.exit # 2)
    /\ cycles < MaxCycles
    /\ run' = RunIdle(run.args) /\ sm' = smIdle
    /\ UNCHANGED <<gitVars, fixVars, post, cycles, commits, base, before>>

(* The operator may commit the working tree at any time. *)
OperatorCommits ==
    /\ Dirty /\ commits < MaxCommits
    /\ commits' = commits + 1
    /\ index' = tree /\ refs' = [refs EXCEPT ![head] = tree]
    /\ UNCHANGED <<head, tree, fixVars, post, run, sm, cycles, base, before>>

RunStep ==
    \/ RunScan \/ RunTriage \/ RunPlan \/ RunPatches \/ RunReview \/ RunApply
    \/ RunFixing \/ RunFixed \/ RunRescan \/ RunPost \/ RunPosted \/ RunRaises

Next == RunStart \/ RunStep \/ RunNextCycle \/ OperatorCommits

(* One sequential program: while a step is possible it is taken. *)
Spec == Init /\ [][Next]_vars /\ WF_vars(RunStep)
-----------------------------------------------------------------------------
Over == run.pc \in {"returned", "raised"}

(* The exit code and the last row of the run's log tell the same story: 0  *)
(* for DONE, 1 for FAILED, 3 for HUMAN_REVIEW, 2 before any row.           *)
ExitMatchesLog ==
    run.pc = "returned" =>
        IF run.exit = 2 THEN sm.rows = <<>>
        ELSE Current = CASE run.exit = 0 -> "DONE"
                         [] run.exit = 1 -> "FAILED"
                         [] run.exit = 3 -> "HUMAN_REVIEW"

WL == INSTANCE WorkflowLog WITH
        MaxLines <- 6 + 5 * MaxRetries, MaxAttempt <- MaxRetries + 1,
        log <- sm.rows, history <- sm.rows, terminated <- TRUE,
        live <- sm.rows # <<>>,
        currentState <- IF sm.rows = <<>> THEN "SCANNING" ELSE Current,
        attempts <- sm.attempts

(* The run loop uses the state machine as its module allows: the log of    *)
(* every cycle is a behaviour of WorkflowLog, so that every row it writes  *)
(* is a legal transition, whatever fails (a refused pair would raise       *)
(* InvalidTransition out of the run), and a new log begins only when the   *)
(* cycle before it is over.  The bounds are those of --max-retries: five   *)
(* rows for each attempt and the first one.                                *)
ImplementsWorkflowLog ==
    /\ WL!Init
    /\ [][WL!Next \/ UNCHANGED WL!vars \/ (Over /\ WL!Init')]_vars

NewRecovery == {b \in RecoveryBranch : before[b] = NoRef /\ refs[b] # NoRef}

(* Under --auto-llm one recovery branch at most is captured per cycle,     *)
(* however many passes it takes, it holds the files as they were when the  *)
(* cycle began, and it is there before the first of them changes.          *)
OneRecoveryBranch ==
    (run.pc # "idle" /\ run.args.auto) =>
        /\ Cardinality(NewRecovery) <= 1
        /\ \A b \in NewRecovery : refs[b] = base
        /\ tree # base => NewRecovery # {}

(* Nothing is committed to a fixes branch before the run is DONE, and then *)
(* only for findings that some pass applied and the last scan no longer    *)
(* reports: a failed or exhausted run leaves the repository's branches to  *)
(* the operator.                                                           *)
OnlyVerifiedFixesCommitted ==
    (run.pc # "idle" /\ \E b \in FixesBranch : before[b] = NoRef /\ refs[b] # NoRef) =>
        /\ Current = "DONE"
        /\ run.applied # {} /\ run.applied \cap run.postIds = {}

(* Every change is accounted for: a cycle that says it succeeded and       *)
(* applied nothing leaves the files as it found them.                      *)
ChangeIsAccountedFor ==
    (run.pc = "returned" /\ run.exit = 0 /\ run.applied = {}) => tree = base

(* Every cycle that starts ends: the retry loop, the LLM loop and the      *)
(* policy all terminate, whatever the scans report.                        *)
EveryCycleEnds == (run.pc = "scan") ~> Over

(* docs/workflow.md: a retry re-enters TRIAGING, "Up to `--max-retries`    *)
(* (default 3) iterations".  The fix pass of a retry is not refused for    *)
(* the changes the run itself made.                                        *)
RetryIsNotRefused == ~(run.pc = "returned" /\ run.attempt > 0 /\ run.fixExit = 2)
=============================================================================
