------------------------------- MODULE Repair -------------------------------
(***************************************************************************)
(* What `autofix run` and a crawl cycle have in common: a repository with  *)
(* a branch of the operator, in which a fix pass (FixPass) is followed by  *)
(* the post-fix policy (PostFixPolicy).  RunLoop and CrawlCycle add who    *)
(* calls them, and when.                                                   *)
(***************************************************************************)
EXTENDS FixPass, PostFixPolicy

CONSTANTS Main, Source    \* the operator's branch and the committed files

ASSUME RepairAssumption ==
    /\ Main \in Branch \ (RecoveryBranch \cup FixesBranch)
    /\ RecoveryBranch \cap FixesBranch = {}   \* autofix/pre-fix-, autofix/fixes-
    /\ Source \in Snapshot

RepairInit ==
    /\ head = Main
    /\ refs = [b \in Branch \cup {"HEAD"} |-> IF b = Main THEN Source ELSE NoRef]
    /\ index = Source /\ tree = Source
    /\ fix = FixIdle /\ orphan = {} /\ patchCache = {}
    /\ post = PostIdle

(* The run id in the name of a fixes branch makes it a new one. *)
FreshBranch == {b \in FixesBranch : refs[b] = NoRef}
=============================================================================
