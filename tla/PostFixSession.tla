--------------------------- MODULE PostFixSession ---------------------------
(***************************************************************************)
(* One call of apply_post_fix_policy in a working tree that holds applied  *)
(* fixes, while the operator keeps saving files.  The repository may be on *)
(* a branch or on a detached HEAD and may hold untracked files, which the  *)
(* dirty-tree gate of the fix command lets through.                        *)
(***************************************************************************)
EXTENDS PostFixPolicy

CONSTANTS Main,              \* the operator's branch
          Before, After,     \* a tracked file before and after its fix
          Mine,              \* what the operator saves
          Source,            \* the tracked files autofix fixed
          CliValues, ConfigValues, \* values of --post-fix and of the config
          MaxSaves           \* bound: saves by the operator

ASSUME SessionAssumption ==
    /\ Main \in Branch \ FixesBranch
    /\ {Before, After, Mine} \subseteq Content /\ Before # After
    /\ Source \subseteq File
    /\ MaxSaves \in Nat

VARIABLES saved,             \* what the operator saved last, Absent for never
          saves              \* how often

vars == <<head, refs, index, tree, post, saved, saves>>

Committed == [f \in File |-> IF f \in Source THEN Before ELSE Absent]

Init ==
    /\ head \in {Main, "HEAD"}
    /\ refs = [b \in Branch \cup {"HEAD"} |->
                  IF b = Main \/ (b = "HEAD" /\ head = "HEAD") THEN Committed ELSE NoRef]
    /\ index = Committed
    /\ saved \in [File -> {Mine, Absent}]
    /\ \A f \in Source : saved[f] = Absent
    /\ tree = [f \in File |-> IF f \in Source THEN After ELSE saved[f]]
    /\ post = PostIdle
    /\ saves = 0

Begin ==
    /\ \E cli \in CliValues, config \in ConfigValues, branch \in FixesBranch :
          PostStart(TRUE, cli, config, branch)
    /\ UNCHANGED <<saved, saves>>

Run == PostStep /\ UNCHANGED <<saved, saves>>

OperatorSaves(f) ==
    /\ saves < MaxSaves
    /\ Save(f, Mine)
    /\ saved' = [saved EXCEPT ![f] = Mine]
    /\ saves' = saves + 1
    /\ UNCHANGED post

Next == Begin \/ Run \/ \E f \in File : OperatorSaves(f)

Spec == Init /\ [][Next]_vars
-----------------------------------------------------------------------------
(* Every variable has its type; the frame has only the states of the code. *)
TypeOK == /\ GitTypeOK /\ PostTypeOK
          /\ saved \in [File -> {Mine, Absent}]
          /\ saves \in 0..MaxSaves

OnFixesBranch(f, c) == \E b \in FixesBranch : refs[b] # NoRef /\ refs[b][f] = c

(* Whatever command fails, the content of every applied fix is in the      *)
(* working tree or in the commit of the fixes branch, unless the operator  *)
(* saved over it.                                                          *)
FixNotLost ==
    \A f \in Source :
        saved[f] = Absent => tree[f] = After \/ OnFixesBranch(f, After)

(* The branch dance destroys nothing the operator saved, at whichever step *)
(* it was saved: it is still in the tree or in the fixes commit.           *)
OperatorWorkKept ==
    \A f \in File :
        saved[f] = Mine => tree[f] = Mine \/ OnFixesBranch(f, Mine)

(* What the return value promises: with "branch" or "branch-pr" the fixes  *)
(* are committed on the fixes branch, a PR was opened only for a pushed    *)
(* branch, and on a named branch HEAD is back and the tree holds nothing   *)
(* but the operator's own later saves.                                     *)
OutcomeIsHonest ==
    post.outcome \in {"branch", "branch-pr"} =>
        /\ \A f \in Source : saved[f] = Absent => OnFixesBranch(f, After)
        /\ (post.outcome = "branch-pr") = post.pr
        /\ post.pr => post.pushed
        /\ post.original # "HEAD" =>
              /\ head = Main
              /\ \A f \in File : tree[f] # refs[Main][f] => saved[f] = Mine

(* Only the fixes branch ever gets a commit: the branch the run started    *)
(* from, or the detached commit, stays where it was.                       *)
OtherBranchesUntouched ==
    [][\A b \in (Branch \cup {"HEAD"}) \ FixesBranch : refs'[b] = refs[b]]_vars
=============================================================================
