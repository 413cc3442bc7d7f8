---------------------------- MODULE PostFixProofs ----------------------------
(***************************************************************************)
(* What apply_post_fix_policy keeps and what its return value promises,    *)
(* for any files, contents, branch names, policies and saves of the        *)
(* operator, whichever commands fail.                                      *)
(***************************************************************************)
EXTENDS PostFixSession, TLAPS

(* What a file should contain: what the operator saved last, else its fix. *)
Expected == [f \in File |-> IF saved[f] = Mine THEN Mine
                            ELSE IF f \in Source THEN After ELSE Absent]

BeforeCommit == {"idle", "rev_parse", "checkout_b", "add", "commit"}

Landed == \/ post.pc \in {"checkout_back", "gh", "push", "pr_create"}
          \/ post.outcome \in {"branch", "branch-pr"}

(* Where HEAD is at each command.                                          *)
HeadPlace ==
    /\ post.pc \in {"idle", "rev_parse"} => post.original = "None" /\ head \in {Main, "HEAD"}
    /\ post.pc \notin {"idle", "done"} => post.branch \in FixesBranch
    /\ post.pc \notin {"idle", "rev_parse", "done"} => post.original \in {Main, "HEAD"}
    /\ post.pc = "checkout_b" => head = post.original
    /\ post.pc \in {"add", "commit", "checkout_back"} => head = post.branch
    /\ post.pc \in {"gh", "push", "pr_create", "recover"} => head \in {post.original, post.branch}

(* The operator's branch stays; a fixes branch is empty until the commit,  *)
(* which is the only one.                                                  *)
RefsPlace ==
    /\ head = Main \/ post.original = Main => refs[Main] = Committed
    /\ post.pc \in BeforeCommit => refs[head] = Committed
    /\ post.pc \in BeforeCommit => \A b \in FixesBranch : refs[b] \in {NoRef, Committed}

(* The tree is as expected until the policy leaves the fixes branch; what  *)
(* it takes out of the tree then is in the commit.                         *)
TreePlace ==
    /\ post.pc \in BeforeCommit \cup {"checkout_back"} => tree = Expected
    /\ \A f \in File : tree[f] = Expected[f] \/ OnFixesBranch(f, Expected[f])
    /\ post.pc = "commit" => \A f \in File : saved[f] = Absent => index[f] = Expected[f]

(* What the commit holds once it succeeded, and what is left in the tree   *)
(* once HEAD is back.                                                      *)
CommitPlace ==
    /\ Landed => /\ post.branch \in FixesBranch /\ refs[post.branch] # NoRef
                 /\ \A f \in File : saved[f] = Absent => refs[post.branch][f] = Expected[f]
    /\ Landed /\ post.pc # "checkout_back" /\ post.original # "HEAD" =>
          /\ head = Main /\ post.original = Main
          /\ \A f \in File : saved[f] = Absent => tree[f] = Committed[f]

OutcomePlace ==
    /\ post.outcome # "None" => post.pc = "done"
    /\ post.pr = (post.outcome = "branch-pr")
    /\ post.pc = "pr_create" \/ post.pr => post.pushed

IInv == /\ TypeOK /\ HeadPlace /\ RefsPlace /\ TreePlace /\ CommitPlace /\ OutcomePlace
-----------------------------------------------------------------------------

LEMMA Contents ==
    /\ Absent # Mine /\ Absent # After /\ Before # After
    /\ Main \in Branch /\ Main \notin FixesBranch /\ Main # "HEAD"
    /\ FixesBranch \subseteq Branch /\ "HEAD" \notin FixesBranch
    /\ Committed \in Snapshot /\ Committed # NoRef
  BY SessionAssumption, FixesBranchAssumption, GitAssumption DEF Committed, Snapshot

LEMMA Resolved == \A cli, config : Resolve(cli, config) \in Policy
  BY DEF Resolve, Policy

LEMMA InitialPlace == Init => IInv
<1> SUFFICES ASSUME Init PROVE IInv
  OBVIOUS
<1> USE Contents DEF Init
<1>1. TypeOK
  <2>1. tree \in Snapshot
    BY SessionAssumption DEF Snapshot
  <2>2. refs \in [Branch \cup {"HEAD"} -> Snapshot \cup {NoRef}] /\ refs[head] # NoRef
    OBVIOUS
  <2>3. PostTypeOK
    BY DEF PostTypeOK, PostIdle, PostPc, Policy
  <2>4. saves \in 0..MaxSaves
    BY SessionAssumption
  <2> QED BY <2>1, <2>2, <2>3, <2>4 DEF TypeOK, GitTypeOK
<1>2. HeadPlace /\ OutcomePlace
  BY DEF HeadPlace, OutcomePlace, PostIdle
<1>3. RefsPlace
  BY DEF RefsPlace, PostIdle
<1>4. tree = Expected
  BY DEF Expected
<1>5. TreePlace /\ CommitPlace
  BY <1>4 DEF TreePlace, CommitPlace, Landed, PostIdle, Expected
<1> QED BY <1>1, <1>2, <1>3, <1>5 DEF IInv
-----------------------------------------------------------------------------
(* What a checkout of an existing branch does to a file: it is as HEAD had *)
(* it and becomes as the branch has it, or it stays.                       *)
LEMMA CheckoutMoves ==
    ASSUME GitTypeOK, NEW b \in Branch, b # "HEAD", Checkout(b)
    PROVE  /\ GitTypeOK' /\ refs' = refs /\ head' = b
           /\ \A f \in File :
                 IF refs[b][f] # refs[head][f]
                 THEN tree'[f] = refs[b][f] /\ tree[f] = refs[head][f]
                 ELSE tree'[f] = tree[f]
<1>1. /\ refs[b] \in Snapshot /\ refs' = refs /\ head' = b /\ refs[b] # NoRef
      /\ index' = [f \in File |-> IF f \in Differs(b) THEN refs[b][f] ELSE index[f]]
      /\ tree' = [f \in File |-> IF f \in Differs(b) THEN refs[b][f] ELSE tree[f]]
      /\ \A f \in Differs(b) : tree[f] = refs[head][f]
  BY DEF Checkout, CanCheckout, GitTypeOK
<1>2. tree' \in Snapshot /\ index' \in Snapshot
  BY <1>1 DEF GitTypeOK, Snapshot
<1> QED BY <1>1, <1>2 DEF GitTypeOK, Differs

(* A command that touches neither the repository nor the operator's files. *)
LEMMA QuietPlace ==
    ASSUME IInv, UNCHANGED <<gitVars, saved, saves>>, PostTypeOK', HeadPlace', OutcomePlace',
           post'.pc \in BeforeCommit => post.pc \in BeforeCommit,
           post'.pc \notin {"commit", "checkout_back"},
           post'.original \in {post.original, head},
           Landed' => /\ Landed /\ post.pc # "checkout_back"
                      /\ post'.branch = post.branch /\ post'.original = post.original
    PROVE  IInv'
<1> USE DEF IInv, gitVars
<1>1. TypeOK'
  BY DEF TypeOK, GitTypeOK
<1>2. RefsPlace'
  BY DEF RefsPlace
<1>3. TreePlace'
  BY DEF TreePlace, Expected, OnFixesBranch, BeforeCommit
<1>4. CommitPlace'
  BY DEF CommitPlace, Expected
<1> QED BY <1>1, <1>2, <1>3, <1>4

LEMMA QuietSteps ==
    ASSUME IInv, UNCHANGED <<saved, saves>>,
           \/ \E cli, config : \E branch \in FixesBranch : PostStart(TRUE, cli, config, branch)
           \/ PostRevParse \/ \E found \in BOOLEAN : PostFindGh(found)
           \/ PostPush \/ PostPrCreate \/ PostFail
    PROVE  IInv'
<1> USE DEF IInv, PostTypeOK, HeadPlace, OutcomePlace, BeforeCommit, Landed
<1>0. PostTypeOK
  BY DEF TypeOK
<1>1. CASE \E cli, config : \E branch \in FixesBranch : PostStart(TRUE, cli, config, branch)
  <2>1. PICK cli, config : \E branch \in FixesBranch : PostStart(TRUE, cli, config, branch)
    BY <1>1
  <2>2. PICK branch \in FixesBranch : PostStart(TRUE, cli, config, branch)
    BY <2>1
  <2>3. post.pc = "idle" /\ UNCHANGED gitVars
    BY <2>2 DEF PostStart
  <2>4. PICK resolved \in Policy :
            post' \in {[PostIdle EXCEPT !.pc = "done", !.outcome = "working-tree"],
                       [PostIdle EXCEPT !.pc = "rev_parse", !.resolved = resolved,
                                        !.branch = branch]}
    BY <2>2, Resolved DEF PostStart
  <2>5. PostTypeOK'
    BY <2>4 DEF PostIdle, Policy, PostPc
  <2>6. HeadPlace' /\ OutcomePlace' /\ post'.pc \in {"done", "rev_parse"} /\ ~Landed'
        /\ post'.original = post.original
    BY <2>3, <2>4 DEF PostIdle, gitVars
  <2> QED BY <2>3, <2>5, <2>6, QuietPlace
<1>2. CASE PostRevParse
  <2>1. UNCHANGED gitVars /\ post.pc = "rev_parse" /\ post'.pc = "checkout_b"
        /\ post'.original = head /\ post'.branch = post.branch /\ post'.outcome = post.outcome
        /\ post'.pr = post.pr /\ post'.pushed = post.pushed /\ PostTypeOK'
    BY <1>0, <1>2 DEF PostRevParse, PostPc, TypeOK, GitTypeOK
  <2>2. HeadPlace' /\ OutcomePlace' /\ ~Landed'
    BY <2>1 DEF gitVars
  <2> QED BY <2>1, <2>2, QuietPlace
<1>3. CASE \E found \in BOOLEAN : PostFindGh(found)
  <2>1. UNCHANGED gitVars /\ post.pc = "gh" /\ PostTypeOK'
        /\ post'.original = post.original /\ post'.branch = post.branch
        /\ post'.pr = post.pr /\ post'.pushed = post.pushed
        /\ \/ post'.pc = "push" /\ post'.outcome = post.outcome
           \/ post'.pc = "done" /\ post'.outcome = "branch"
    BY <1>0, <1>3 DEF PostFindGh, PostGoto, PostReturn, PostPc, Policy
  <2>2. HeadPlace' /\ OutcomePlace'
    BY <2>1 DEF gitVars
  <2> QED BY <2>1, <2>2, QuietPlace
<1>4. CASE PostPush \/ PostPrCreate
  <2>1. UNCHANGED gitVars /\ PostTypeOK'
        /\ post'.original = post.original /\ post'.branch = post.branch /\ post'.pushed
        /\ \/ /\ post.pc = "push" /\ post'.pc = "pr_create"
              /\ post'.outcome = post.outcome /\ post'.pr = post.pr
           \/ /\ post.pc = "pr_create" /\ post'.pc = "done"
              /\ post'.outcome = "branch-pr" /\ post'.pr = TRUE
    BY <1>0, <1>4 DEF PostPush, PostPrCreate, PostPc, Policy
  <2>2. HeadPlace' /\ OutcomePlace'
    BY <2>1 DEF gitVars
  <2> QED BY <2>1, <2>2, QuietPlace
<1>5. CASE PostFail
  <2>1. UNCHANGED gitVars /\ post.pc \in PostPc \ {"idle", "gh", "recover", "done"} /\ PostTypeOK'
        /\ post'.original = post.original /\ post'.branch = post.branch
        /\ post'.pr = post.pr /\ post'.pushed = post.pushed
        /\ \/ /\ post.original # "None" /\ post'.pc = "recover" /\ post'.outcome = post.outcome
           \/ post.original = "None" /\ post'.pc = "done" /\ post'.outcome = "working-tree"
    BY <1>0, <1>5 DEF PostFail, PostGoto, PostReturn, PostPc, Policy
  <2>2. HeadPlace' /\ OutcomePlace' /\ ~Landed'
    BY <2>1, Contents DEF gitVars, PostPc
  <2> QED BY <2>1, <2>2, QuietPlace
<1> QED BY <1>1, <1>2, <1>3, <1>4, <1>5

(* git checkout -b: the fixes branch starts where HEAD is.                 *)
LEMMA BranchPlace ==
    ASSUME IInv, UNCHANGED <<saved, saves>>, PostCheckoutB
    PROVE  IInv'
<1> USE DEF IInv
<1> DEFINE b == post.branch
<1>1. /\ b \in FixesBranch /\ post.original = head /\ head \in {Main, "HEAD"}
      /\ post.pc = "checkout_b" /\ PostTypeOK
  BY DEF PostCheckoutB, HeadPlace, TypeOK
<1>2. PostTypeOK' /\ post'.pc = "add" /\ UNCHANGED <<saved, saves, index, tree>>
      /\ post'.original = post.original /\ post'.branch = b /\ post'.outcome = post.outcome
      /\ post'.pr = post.pr /\ post'.pushed = post.pushed
  BY <1>1 DEF PostCheckoutB, PostGoto, PostTypeOK, PostPc, CheckoutNew
<1>3. refs[b] = NoRef /\ refs' = [refs EXCEPT ![b] = refs[head]] /\ head' = b
  BY DEF PostCheckoutB, CheckoutNew
<1> HIDE DEF b
<1>4. refs[head] = Committed /\ refs[head] \in Snapshot /\ b \in Branch /\ b # Main
  BY <1>1, Contents DEF RefsPlace, BeforeCommit
<1>5. /\ GitTypeOK' /\ refs'[b] = Committed
      /\ \A c \in Branch \cup {"HEAD"} : c # b => refs'[c] = refs[c]
  BY <1>2, <1>3, <1>4, Contents DEF TypeOK, GitTypeOK
<1>6. HeadPlace' /\ OutcomePlace' /\ TypeOK'
  BY <1>1, <1>2, <1>3, <1>5 DEF HeadPlace, OutcomePlace, TypeOK
<1>7. RefsPlace'
  BY <1>1, <1>2, <1>3, <1>4, <1>5, Contents DEF RefsPlace, BeforeCommit
<1>8. TreePlace'
  BY <1>1, <1>2 DEF TreePlace, BeforeCommit, Expected
<1>9. ~Landed'
  BY <1>1, <1>2 DEF Landed, OutcomePlace
<1> QED BY <1>6, <1>7, <1>8, <1>9 DEF CommitPlace

LEMMA AddPlace ==
    ASSUME IInv, UNCHANGED <<saved, saves>>, PostAdd
    PROVE  IInv'
<1> USE DEF IInv
<1>1. PostTypeOK /\ post.pc = "add" /\ UNCHANGED <<saved, saves, head, refs, tree>> /\ index' = tree
  BY DEF PostAdd, TypeOK, AddAll
<1>2. PostTypeOK' /\ post'.pc = "commit"
      /\ post'.original = post.original /\ post'.branch = post.branch /\ post'.outcome = post.outcome
      /\ post'.pr = post.pr /\ post'.pushed = post.pushed
  BY <1>1 DEF PostAdd, PostGoto, PostTypeOK, PostPc
<1>3. HeadPlace' /\ OutcomePlace' /\ TypeOK'
  BY <1>1, <1>2 DEF HeadPlace, OutcomePlace, TypeOK, GitTypeOK
<1>4. RefsPlace'
  BY <1>1, <1>2 DEF RefsPlace, BeforeCommit
<1>5. TreePlace'
  BY <1>1, <1>2 DEF TreePlace, BeforeCommit, Expected
<1>6. ~Landed'
  BY <1>1, <1>2 DEF Landed, OutcomePlace
<1> QED BY <1>3, <1>4, <1>5, <1>6 DEF CommitPlace

(* The one commit: it holds what was staged, all of which was expected.    *)
LEMMA LandingPlace ==
    ASSUME IInv, UNCHANGED <<saved, saves>>, PostCommit
    PROVE  IInv'
<1> USE DEF IInv
<1> DEFINE b == post.branch
<1>1. PostTypeOK /\ post.pc = "commit" /\ UNCHANGED <<saved, saves, head, index, tree>>
      /\ refs' = [refs EXCEPT ![head] = index]
  BY DEF PostCommit, TypeOK, Commit
<1>2. PostTypeOK' /\ post'.pc = "checkout_back"
      /\ post'.original = post.original /\ post'.branch = b /\ post'.outcome = post.outcome
      /\ post'.pr = post.pr /\ post'.pushed = post.pushed
  BY <1>1 DEF PostCommit, PostGoto, PostTypeOK, PostPc
<1>3. head = b /\ b \in FixesBranch /\ b \in Branch /\ b # Main
  BY <1>1, Contents DEF HeadPlace
<1> HIDE DEF b
<1>4. /\ GitTypeOK' /\ refs'[b] = index /\ index \in Snapshot /\ index # NoRef
      /\ \A c \in Branch \cup {"HEAD"} : c # b => refs'[c] = refs[c]
  BY <1>1, <1>3, GitAssumption DEF TypeOK, GitTypeOK, Snapshot
<1>5. HeadPlace' /\ OutcomePlace' /\ TypeOK'
  BY <1>1, <1>2, <1>3, <1>4 DEF HeadPlace, OutcomePlace, TypeOK, b
<1>6. RefsPlace'
  BY <1>1, <1>2, <1>3, <1>4, Contents DEF RefsPlace, BeforeCommit
<1>7. TreePlace'
  BY <1>1, <1>2 DEF TreePlace, BeforeCommit, Expected
<1>8. CommitPlace'
  BY <1>1, <1>2, <1>3, <1>4 DEF CommitPlace, Landed, TreePlace, Expected
<1> QED BY <1>5, <1>6, <1>7, <1>8

(* Back from the fixes branch, after the commit or in the handler: a file  *)
(* the checkout takes out of the tree was as the fixes branch has it.      *)
LEMMA BackPlace ==
    ASSUME IInv, UNCHANGED <<saved, saves>>, PostCheckoutBack \/ PostRecover
    PROVE  IInv'
<1> USE DEF IInv
<1>1. /\ PostTypeOK /\ GitTypeOK /\ post.pc \in {"checkout_back", "recover"}
      /\ post.original \in {Main, "HEAD"} /\ post.branch \in FixesBranch
      /\ head \in {post.original, post.branch}
  BY DEF PostCheckoutBack, PostRecover, TypeOK, HeadPlace
<1>2. /\ PostTypeOK' /\ post'.original = post.original /\ post'.branch = post.branch
      /\ post'.pr = post.pr /\ post'.pushed = post.pushed
      /\ \/ post.pc = "checkout_back" /\ post'.pc = "gh" /\ post'.outcome = post.outcome
         \/ post.pc = "checkout_back" /\ post'.pc = "done" /\ post'.outcome = "branch"
         \/ post.pc = "recover" /\ post'.pc = "done" /\ post'.outcome = "working-tree"
  BY <1>1 DEF PostCheckoutBack, PostRecover, PostGoto, PostReturn, PostTypeOK, PostPc, Policy
<1>3. CASE UNCHANGED gitVars /\ (post.original = "HEAD" \/ post.pc = "recover")
  <2>1. TypeOK' /\ OutcomePlace'
    BY <1>2, <1>3 DEF TypeOK, GitTypeOK, gitVars, OutcomePlace
  <2>2. HeadPlace'
    BY <1>1, <1>2, <1>3 DEF HeadPlace, gitVars
  <2>3. RefsPlace' /\ TreePlace'
    BY <1>2, <1>3 DEF RefsPlace, TreePlace, BeforeCommit, gitVars, Expected, OnFixesBranch
  <2>4. CommitPlace'
    BY <1>1, <1>2, <1>3 DEF CommitPlace, Landed, gitVars, Expected
  <2> QED BY <2>1, <2>2, <2>3, <2>4
<1>4. CASE post.original = Main /\ Checkout(Main)
  <2>1. /\ GitTypeOK' /\ refs' = refs /\ head' = Main /\ refs[Main] = Committed
        /\ \A f \in File :
              IF Committed[f] # refs[head][f]
              THEN tree'[f] = Committed[f] /\ tree[f] = refs[head][f]
              ELSE tree'[f] = tree[f]
    BY <1>1, <1>4, Contents, CheckoutMoves DEF RefsPlace
  <2>2. TypeOK' /\ OutcomePlace' /\ HeadPlace'
    BY <1>1, <1>2, <1>4, <2>1 DEF TypeOK, OutcomePlace, HeadPlace
  <2>3. RefsPlace'
    BY <1>2, <2>1 DEF RefsPlace, BeforeCommit
  <2>4. ASSUME NEW f \in File
        PROVE  tree'[f] = Expected'[f] \/ OnFixesBranch(f, Expected[f])'
    <3>1. Expected' = Expected /\ (tree[f] = Expected[f] \/ OnFixesBranch(f, Expected[f]))
      BY DEF TreePlace, Expected
    <3>2. CASE tree'[f] = tree[f] \/ OnFixesBranch(f, Expected[f])
      BY <2>1, <3>1, <3>2 DEF OnFixesBranch
    <3>3. CASE Committed[f] # refs[head][f] /\ tree[f] = refs[head][f] /\ tree[f] = Expected[f]
      <4>1. head \in FixesBranch /\ refs[head] # NoRef
        BY <1>1, <1>4, <2>1, <3>3 DEF GitTypeOK
      <4> QED BY <2>1, <3>1, <3>3, <4>1 DEF OnFixesBranch
    <3> QED BY <2>1, <3>1, <3>2, <3>3
  <2>5. TreePlace'
    BY <1>2, <2>4 DEF TreePlace, BeforeCommit
  <2>6. CASE post.pc = "recover"
    <3>1. ~Landed'
      BY <1>2, <2>6 DEF Landed
    <3> QED BY <2>2, <2>3, <2>5, <3>1 DEF CommitPlace
  <2>7. CASE post.pc = "checkout_back"
    <3>1. /\ Landed /\ refs[post.branch] # NoRef /\ head = post.branch /\ tree = Expected
          /\ \A f \in File : saved[f] = Absent => refs[post.branch][f] = Expected[f]
      BY <2>7 DEF Landed, CommitPlace, HeadPlace, TreePlace
    <3>2. ASSUME NEW f \in File, saved[f] = Absent PROVE tree'[f] = Committed[f]
      BY <2>1, <3>1, <3>2
    <3> QED BY <1>1, <1>2, <1>4, <2>1, <2>2, <2>3, <2>5, <3>1, <3>2 DEF CommitPlace, Expected
  <2> QED BY <1>1, <2>6, <2>7
<1> QED BY <1>1, <1>3, <1>4 DEF PostCheckoutBack, PostRecover, Checkout

LEMMA SavePlace ==
    ASSUME IInv, NEW g \in File, OperatorSaves(g)
    PROVE  IInv'
<1> USE DEF IInv
<1>1. /\ UNCHANGED <<post, head, refs, index>> /\ tree' = [tree EXCEPT ![g] = Mine]
      /\ saved' = [saved EXCEPT ![g] = Mine] /\ saves' = saves + 1 /\ saves < MaxSaves
  BY DEF OperatorSaves, Save
<1>2. TypeOK'
  <2>1. tree' \in Snapshot /\ saved' \in [File -> {Mine, Absent}] /\ saves' \in 0..MaxSaves
    BY <1>1, SessionAssumption DEF TypeOK, GitTypeOK, Snapshot
  <2> QED BY <1>1, <2>1 DEF TypeOK, GitTypeOK, PostTypeOK
<1>3. HeadPlace' /\ OutcomePlace' /\ RefsPlace' /\ Landed' = Landed
  BY <1>1 DEF HeadPlace, OutcomePlace, RefsPlace, Landed
<1>4. /\ DOMAIN tree = File /\ DOMAIN saved = File
      /\ Expected' = [Expected EXCEPT ![g] = Mine]
  BY <1>1 DEF TypeOK, GitTypeOK, Snapshot, Expected
<1>5. tree'[g] = Mine /\ saved'[g] = Mine /\ Expected'[g] = Mine
      /\ \A f \in File : f # g => tree'[f] = tree[f] /\ saved'[f] = saved[f] /\ Expected'[f] = Expected[f]
  BY <1>1, <1>4 DEF Expected
<1>6. TreePlace'
  <2>1. tree = Expected => tree' = Expected'
    BY <1>1, <1>4
  <2>2. \A f \in File : tree'[f] = Expected'[f] \/ OnFixesBranch(f, Expected'[f])
    BY <1>5 DEF TreePlace
  <2>3. \A f \in File : OnFixesBranch(f, Expected'[f]) = OnFixesBranch(f, Expected[f])'
    BY <1>1 DEF OnFixesBranch
  <2> QED BY <1>1, <1>5, <2>1, <2>2, <2>3, Contents DEF TreePlace
<1>7. CommitPlace'
  BY <1>1, <1>3, <1>5, Contents DEF CommitPlace
<1> QED BY <1>2, <1>3, <1>6, <1>7
-----------------------------------------------------------------------------
LEMMA InductivePlace ==
    ASSUME IInv, [Next]_vars
    PROVE  IInv'
<1>1. CASE Begin
  BY <1>1, QuietSteps DEF Begin
<1>2. CASE Run
  BY <1>2, QuietSteps, BranchPlace, AddPlace, LandingPlace, BackPlace DEF Run, PostStep
<1>3. CASE \E f \in File : OperatorSaves(f)
  BY <1>3, SavePlace
<1>4. CASE UNCHANGED vars
  <2> USE <1>4 DEF vars, IInv
  <2>1. TypeOK'
    BY DEF TypeOK, GitTypeOK, PostTypeOK
  <2>2. HeadPlace' /\ RefsPlace' /\ OutcomePlace'
    BY DEF HeadPlace, RefsPlace, OutcomePlace
  <2>3. TreePlace' /\ CommitPlace'
    BY DEF TreePlace, CommitPlace, Landed, Expected, OnFixesBranch
  <2> QED BY <2>1, <2>2, <2>3
<1> QED BY <1>1, <1>2, <1>3, <1>4 DEF Next

LEMMA IInvHolds == Spec => []IInv
<1> QED BY InitialPlace, InductivePlace, PTL DEF Spec

(* Every variable has its type: the call's frame has only the states of    *)
(* the code, whatever branch names, policies and files there are.          *)
THEOREM PostFixTypeCorrect == Spec => []TypeOK
<1>1. IInv => TypeOK
  BY DEF IInv
<1> QED BY <1>1, IInvHolds, PTL

(* The content of every applied fix is in the working tree or in a fixes   *)
(* commit unless the operator saved over it, whichever git or gh command   *)
(* failed.                                                                 *)
THEOREM FixesKept == Spec => []FixNotLost
<1>1. IInv => FixNotLost
  BY Contents, SessionAssumption DEF IInv, TreePlace, FixNotLost, Expected
<1> QED BY <1>1, IInvHolds, PTL

(* Nothing the operator saved before or during the call is lost by it.     *)
THEOREM SavesKept == Spec => []OperatorWorkKept
<1>1. IInv => OperatorWorkKept
  BY DEF IInv, TreePlace, OperatorWorkKept, Expected
<1> QED BY <1>1, IInvHolds, PTL

(* The value apply_post_fix_policy returns is true of the repository.      *)
THEOREM OutcomeTrue == Spec => []OutcomeIsHonest
<1>1. IInv => OutcomeIsHonest
  <2> SUFFICES ASSUME IInv, post.outcome \in {"branch", "branch-pr"} PROVE OutcomeIsHonest
    BY DEF OutcomeIsHonest
  <2>1. Landed /\ post.pc = "done"
    BY DEF Landed, IInv, OutcomePlace
  <2>2. \A f \in Source : saved[f] = Absent => OnFixesBranch(f, After)
    BY <2>1, Contents, SessionAssumption DEF IInv, CommitPlace, Expected, OnFixesBranch
  <2>3. post.original # "HEAD" =>
           head = Main /\ refs[Main] = Committed /\ \A f \in File : saved[f] = Absent => tree[f] = Committed[f]
    BY <2>1 DEF IInv, CommitPlace, RefsPlace
  <2>4. \A f \in File : saved[f] \in {Mine, Absent}
    BY DEF IInv, TypeOK
  <2> QED BY <2>2, <2>3, <2>4 DEF IInv, OutcomePlace, OutcomeIsHonest
<1> QED BY <1>1, IInvHolds, PTL

(* No command of the policy, and no failure of one, moves any ref but the  *)
(* fixes branches: the operator's branch stays where it was.               *)
THEOREM OnlyFixesBranchesMove == Spec => OtherBranchesUntouched
<1>1. ASSUME IInv, [Next]_vars, NEW b \in (Branch \cup {"HEAD"}) \ FixesBranch
      PROVE  refs'[b] = refs[b]
  <2>1. CASE UNCHANGED refs
    BY <2>1
  <2>0. refs \in [Branch \cup {"HEAD"} -> Snapshot \cup {NoRef}]
    BY <1>1 DEF IInv, TypeOK, GitTypeOK
  <2>2. CASE PostCheckoutB
    <3>1. post.branch \in FixesBranch /\ refs' = [refs EXCEPT ![post.branch] = refs[head]]
      BY <1>1, <2>2 DEF PostCheckoutB, CheckoutNew, IInv, HeadPlace
    <3> QED BY <1>1, <2>0, <3>1
  <2>3. CASE PostCommit
    <3>1. head \in FixesBranch /\ refs' = [refs EXCEPT ![head] = index]
      BY <1>1, <2>3 DEF PostCommit, Commit, IInv, HeadPlace
    <3> QED BY <1>1, <2>0, <3>1
  <2> QED
    BY <1>1, <2>1, <2>2, <2>3
    DEF Next, vars, Begin, PostStart, Run, PostStep, PostRevParse, PostAdd, AddAll, PostCheckoutBack,
        Checkout, PostFindGh, PostPush, PostPrCreate, PostFail, PostRecover, OperatorSaves, Save, gitVars
<1>2. IInv /\ [Next]_vars =>
          [\A b \in (Branch \cup {"HEAD"}) \ FixesBranch : refs'[b] = refs[b]]_vars
  BY <1>1
<1> QED BY <1>2, IInvHolds, PTL DEF Spec, OtherBranchesUntouched
=============================================================================
