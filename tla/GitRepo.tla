------------------------------- MODULE GitRepo -------------------------------
(***************************************************************************)
(* External: the git repository as the commands in autofix/cli drive it.   *)
(* A snapshot maps each file to its content or to Absent.  refs maps each  *)
(* branch to the snapshot of its tip; the entry "HEAD" holds the commit of *)
(* a detached HEAD, so that head = "HEAD" is the detached state, which is  *)
(* also what `git rev-parse --abbrev-ref HEAD` prints in it.               *)
(***************************************************************************)
EXTENDS Naturals, FiniteSets

CONSTANTS File, Content, Branch,
          Absent,       \* the file does not exist
          NoRef         \* the branch does not exist

ASSUME GitAssumption == /\ Absent \notin Content
                        /\ "HEAD" \notin Branch
                        /\ NoRef \notin [File -> Content \cup {Absent}]

VARIABLES head, refs, index, tree

gitVars == <<head, refs, index, tree>>

Snapshot == [File -> Content \cup {Absent}]

GitTypeOK ==
    /\ head \in Branch \cup {"HEAD"}
    /\ refs \in [Branch \cup {"HEAD"} -> Snapshot \cup {NoRef}]
    /\ index \in Snapshot
    /\ tree \in Snapshot
    /\ refs[head] # NoRef

(* A line of `git status --porcelain` that does not start with "??". *)
DirtyPath(f) ==
    \/ index[f] # refs[head][f]
    \/ index[f] # Absent /\ tree[f] # index[f]

Dirty == \E f \in File : DirtyPath(f)

(* git branch <b> *)
CreateBranch(b) ==
    /\ refs[b] = NoRef
    /\ refs' = [refs EXCEPT ![b] = refs[head]]
    /\ UNCHANGED <<head, index, tree>>

(* git checkout -b <b>: the working tree and the index are carried along. *)
CheckoutNew(b) ==
    /\ refs[b] = NoRef
    /\ refs' = [refs EXCEPT ![b] = refs[head]]
    /\ head' = b
    /\ UNCHANGED <<index, tree>>

(* git add -A *)
AddAll ==
    /\ index' = tree
    /\ UNCHANGED <<head, refs, tree>>

(* git commit; it fails when nothing is staged. *)
Commit ==
    /\ index # refs[head]
    /\ refs' = [refs EXCEPT ![head] = index]
    /\ UNCHANGED <<head, index, tree>>

(* git checkout <b>.  A path that differs between the two commits must be  *)
(* as HEAD has it, in the index and in the working tree; every other path  *)
(* keeps its local change.  `git checkout HEAD` never moves HEAD.          *)
Differs(b) == {f \in File : refs[b][f] # refs[head][f]}

CanCheckout(b) ==
    /\ refs[b] # NoRef
    /\ \A f \in Differs(b) : index[f] = refs[head][f] /\ tree[f] = index[f]

Checkout(b) ==
    IF b = "HEAD" THEN UNCHANGED gitVars
    ELSE /\ CanCheckout(b)
         /\ head' = b
         /\ index' = [f \in File |-> IF f \in Differs(b) THEN refs[b][f] ELSE index[f]]
         /\ tree' = [f \in File |-> IF f \in Differs(b) THEN refs[b][f] ELSE tree[f]]
         /\ UNCHANGED refs

(* git checkout -- . : every path of the index is restored from it. *)
RestoreFromIndex ==
    /\ tree' = [f \in File |-> IF index[f] # Absent THEN index[f] ELSE tree[f]]
    /\ UNCHANGED <<head, refs, index>>

(* A program other than autofix, or the operator, saves a file. *)
Save(f, c) ==
    /\ tree' = [tree EXCEPT ![f] = c]
    /\ UNCHANGED <<head, refs, index>>
=============================================================================
