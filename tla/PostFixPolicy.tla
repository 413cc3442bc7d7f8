---------------------------- MODULE PostFixPolicy ----------------------------
(***************************************************************************)
(* apply_post_fix_policy of autofix/cli/post_fix_policy.py: the git and gh *)
(* commands run, one step each, after fixes were applied to the working    *)
(* tree.  Any command may fail; the handler then goes back to the branch   *)
(* it started from, best effort.  The variable post is the call's frame.   *)
(***************************************************************************)
EXTENDS GitRepo

CONSTANT FixesBranch      \* names autofix/fixes-<run_id>, one for each run

ASSUME FixesBranchAssumption == FixesBranch \subseteq Branch

VARIABLE post

Policy == {"working-tree", "branch", "branch-pr"}

PostPc == {"idle", "rev_parse", "checkout_b", "add", "commit", "checkout_back",
           "gh", "push", "pr_create", "recover", "done"}

PostIdle == [pc |-> "idle", resolved |-> "working-tree",
             branch |-> "None", original |-> "None",
             pushed |-> FALSE, pr |-> FALSE, outcome |-> "None"]

PostTypeOK ==
    post \in [pc : PostPc, resolved : Policy,
              branch : FixesBranch \cup {"None"},
              original : Branch \cup {"HEAD", "None"},
              pushed : BOOLEAN, pr : BOOLEAN, outcome : Policy \cup {"None"}]
-----------------------------------------------------------------------------
(* _resolve_policy: the flag, then the config, then the default; a value   *)
(* that is not a policy resolves to the default.  "None" is not given.     *)
Resolve(cli, config) ==
    LET asked == IF cli # "None" THEN cli ELSE config
    IN  IF asked \in Policy THEN asked ELSE "working-tree"

PostReturn(outcome) == post' = [post EXCEPT !.pc = "done", !.outcome = outcome]

(* The call for the run whose branch this is, up to the first command. *)
PostStart(anyApplied, cli, config, branch) ==
    LET resolved == Resolve(cli, config)
        quick    == ~anyApplied \/ resolved = "working-tree"
    IN  /\ post.pc = "idle"
        /\ post' = IF quick
                   THEN [PostIdle EXCEPT !.pc = "done", !.outcome = "working-tree"]
                   ELSE [PostIdle EXCEPT !.pc = "rev_parse", !.resolved = resolved,
                                          !.branch = branch]
        /\ UNCHANGED gitVars

PostGoto(pc) == post' = [post EXCEPT !.pc = pc]

PostRevParse ==
    /\ post.pc = "rev_parse"
    /\ post' = [post EXCEPT !.pc = "checkout_b", !.original = head]
    /\ UNCHANGED gitVars

(* Mutant: the commit lands on the branch the run started from. *)
PostCheckoutBStays ==
    /\ post.pc = "checkout_b"
    /\ CreateBranch(post.branch)
    /\ PostGoto("add")

PostCheckoutB ==
    /\ post.pc = "checkout_b"
    /\ CheckoutNew(post.branch)
    /\ PostGoto("add")

PostAdd ==
    /\ post.pc = "add"
    /\ AddAll
    /\ PostGoto("commit")

PostCommit ==
    /\ post.pc = "commit"
    /\ Commit
    /\ PostGoto("checkout_back")

(* Mutant: checkout --force, which discards local changes. *)
PostCheckoutBackForced ==
    /\ post.pc = "checkout_back"
    /\ post.original # "HEAD"
    /\ head' = post.original
    /\ index' = refs[post.original] /\ tree' = refs[post.original]
    /\ UNCHANGED refs
    /\ IF post.resolved = "branch" THEN PostReturn("branch") ELSE PostGoto("gh")

PostCheckoutBack ==
    /\ post.pc = "checkout_back"
    /\ Checkout(post.original)
    /\ IF post.resolved = "branch" THEN PostReturn("branch") ELSE PostGoto("gh")

(* shutil.which("gh"): without it the policy degrades to branch. *)
PostFindGh(found) ==
    /\ post.pc = "gh"
    /\ IF found THEN PostGoto("push") ELSE PostReturn("branch")
    /\ UNCHANGED gitVars

PostPush ==
    /\ post.pc = "push"
    /\ post' = [post EXCEPT !.pc = "pr_create", !.pushed = TRUE]
    /\ UNCHANGED gitVars

PostPrCreate ==
    /\ post.pc = "pr_create"
    /\ post' = [post EXCEPT !.pc = "done", !.pr = TRUE, !.outcome = "branch-pr"]
    /\ UNCHANGED gitVars

(* Mutant: the failure handler reports the policy it was asked for. *)
PostFailSilently ==
    /\ post.pc \in PostPc \ {"idle", "gh", "recover", "done"}
    /\ PostReturn(post.resolved)
    /\ UNCHANGED gitVars

(* Any command raises CalledProcessError or OSError; a command git refuses *)
(* (a dirty path in the way, nothing to commit) fails this way too.  The   *)
(* branch to go back to is not known before rev-parse answered.            *)
PostFail ==
    /\ post.pc \in PostPc \ {"idle", "gh", "recover", "done"}
    /\ IF post.original = "None" THEN PostReturn("working-tree") ELSE PostGoto("recover")
    /\ UNCHANGED gitVars

(* Mutant: the handler restores the branch with git reset --hard. *)
PostRecoverHard ==
    /\ post.pc = "recover"
    /\ PostReturn("working-tree")
    /\ index' = refs[head] /\ tree' = refs[head]
    /\ UNCHANGED <<head, refs>>

(* The best-effort checkout of the handler, and its swallowed failure. *)
PostRecover ==
    /\ post.pc = "recover"
    /\ PostReturn("working-tree")
    /\ \/ Checkout(post.original)
       \/ UNCHANGED gitVars

PostStep ==
    \/ PostRevParse \/ PostCheckoutB \/ PostAdd \/ PostCommit \/ PostCheckoutBack
    \/ \E found \in BOOLEAN : PostFindGh(found)
    \/ PostPush \/ PostPrCreate
    \/ PostFail \/ PostRecover
=============================================================================
