---------------------------- MODULE RepairProofs -----------------------------
(***************************************************************************)
(* What a repair leaves behind, for any files, findings, failing commands  *)
(* and processes killed half-way: a cycle of `autofix run` (RunLoop), with *)
(* its retries, its log and the operator's commits in between; and the     *)
(* crawl cycles of the daemon (CrawlCycle), with files saved meanwhile.    *)
(***************************************************************************)
EXTENDS RunLoop, CrawlCycle, SequenceTheorems, FiniteSetTheorems, WellFoundedInduction, TLAPS

(* The phases of a cycle that may still write a row, in order.             *)
Live == {"scan", "triage", "plan", "patches", "decide", "fixing", "rescan"}

RunPc == Live \cup {"idle", "post", "returned", "raised"}

RunType ==
    /\ run \in [pc : RunPc, args : ArgChoices, findings : Seq(Finding),
                kept : SUBSET Nat, tasks : SUBSET Nat, attempt : Nat,
                captured : BOOLEAN, applied : {run.applied}, postIds : {run.postIds},
                fixExit : {run.fixExit}, exit : {run.exit}]
    /\ run.kept \subseteq DOMAIN run.findings

FixType ==
    /\ fix \in [pc : FixPc, flags : Flags, findings : Seq(Finding),
                todo : SUBSET Nat, plan : SUBSET Nat, buffer : {fix.buffer},
                drop : SUBSET Nat, deleted : {fix.deleted}, applied : {fix.applied},
                tasks : SUBSET Nat, misses : {fix.misses},
                llm : {fix.llm}, exit : {fix.exit}]
    /\ fix.todo \cup fix.plan \cup fix.tasks \subseteq DOMAIN fix.findings

(* Git creates and deletes no file here: every snapshot has those of the   *)
(* source.                                                                 *)
SameFiles(s) == \A f \in File : s[f] = Absent <=> Source[f] = Absent

Place == Branch \cup {"HEAD"}

Repo ==
    /\ GitTypeOK /\ head \notin RecoveryBranch
    /\ SameFiles(tree) /\ SameFiles(index)
    /\ \A b \in Place : refs[b] # NoRef => SameFiles(refs[b])

GitPlace ==
    /\ Repo /\ base \in Snapshot
    /\ \A b \in RecoveryBranch : refs[b] = NoRef => before[b] = NoRef

(* What a rewrite or a patch is about to write is about a file that exists. *)
FixPlace ==
    /\ FixType
    /\ fix.pc \in {"status", "branch"} => fix.applied = {}
    /\ fix.pc \in {"status", "branch", "classify"} => fix.todo # {}
    /\ fix.pc = "replace" => /\ fix.plan # {} /\ IsFiniteSet(fix.drop)
                             /\ fix.buffer \in Seq(SourceLine)
                             /\ tree[NextFile] # Absent
    /\ fix.pc = "git_apply" => fix.tasks # {}

PostPlace ==
    /\ PostTypeOK
    /\ post.pc \notin {"idle", "done"} => post.branch \in FixesBranch
    /\ post.pc = "rev_parse" => post.original = "None"
    /\ post.pc \notin {"idle", "rev_parse", "done"} => post.original \in Place \ RecoveryBranch

(* Which frame is open, and what the fix pass was called with.             *)
RunPlace ==
    /\ RunType
    /\ run.pc = "scan" => ~run.captured /\ run.applied = {}
    /\ run.pc \in Live /\ run.args.auto /\ ~run.captured => run.applied = {}
    /\ run.pc # "fixing" => fix = FixIdle
    /\ run.pc # "post" => post = PostIdle
    /\ run.pc = "fixing" =>
          fix.pc # "idle" /\ fix.flags = [NoFlags EXCEPT !.apply = TRUE, !.auto = run.args.auto,
                                                         !.captured = run.captured]
    /\ run.pc = "post" => run.applied # {} /\ run.applied \cap run.postIds = {}

(* The log in attempt n: its rows, its last state, and the states of the   *)
(* attempt entered so far, which count one more than those still ahead.    *)
Counters(n, entered) ==
    [s \in State |-> IF s \in {"DONE", "FAILED", "HUMAN_REVIEW"} THEN 0
                     ELSE IF s = "SCANNING" THEN 1
                     ELSE IF s \in entered THEN n + 1 ELSE n]

At(n, rows, state, entered) ==
    /\ n <= MaxRetries
    /\ Len(sm.rows) = rows /\ Current = state
    /\ sm.attempts = Counters(n, entered)

LogPlace ==
    LET n == run.attempt IN
    /\ sm \in [rows : Seq(Row), attempts : [State -> Nat]]
    /\ run.pc = "idle" => sm = smIdle
    /\ run.pc = "scan" => n = 0 /\ At(0, 1, "SCANNING", {})
    /\ run.pc = "triage" => At(n, 5 * n + 1, IF n = 0 THEN "SCANNING" ELSE "RETRY", {})
    /\ run.pc = "plan" => At(n, 5 * n + 2, "TRIAGING", {"TRIAGING"})
    /\ run.pc \in {"patches", "decide"} =>
          At(n, 5 * n + 3, "PLANNING", {"TRIAGING", "PLANNING"})
    /\ run.pc = "fixing" => At(n, 5 * n + 4, "APPLYING", {"TRIAGING", "PLANNING", "APPLYING"})
    /\ run.pc = "rescan" =>
          At(n, 5 * n + 5, "VERIFYING", {"TRIAGING", "PLANNING", "APPLYING", "VERIFYING"})
    /\ run.pc = "post" => sm.rows # <<>> /\ Current = "DONE"
    /\ run.pc = "returned" => run.exit \in 0..3 /\ (run.exit # 2 => sm.rows # <<>>)
    /\ ExitMatchesLog

(* Where the recovery branch of --auto-llm comes in: after it the new      *)
(* branch is there, before it nothing has changed.                         *)
Captured ==
    \/ run.pc \in {"triage", "plan", "patches", "decide", "fixing"} /\ run.captured
    \/ run.pc = "fixing" /\ fix.pc \in {"classify", "read", "replace", "produce", "git_apply"}
    \/ run.pc = "fixing" /\ fix.pc = "done" /\ fix.applied # {}
    \/ run.pc \in {"rescan", "post"} /\ run.applied # {}

NotCaptured ==
    /\ ~run.captured
    /\ \/ run.pc \in {"scan", "triage", "plan", "patches", "decide"}
       \/ run.pc = "fixing" /\ fix.pc \in {"status", "branch"}

RecoveryPlace ==
    run.pc # "idle" /\ run.args.auto =>
        /\ \A b \in NewRecovery : refs[b] = base
        /\ \A b, c \in NewRecovery : b = c
        /\ tree # base => NewRecovery # {}
        /\ Captured => NewRecovery # {}
        /\ NotCaptured => NewRecovery = {}
        /\ NotCaptured /\ run.pc = "fixing" /\ fix.pc = "branch" => refs[head] = base

FixesPlace ==
    run.pc # "idle" /\ (\E b \in FixesBranch : before[b] = NoRef /\ refs[b] # NoRef) =>
        /\ run.pc = "post" \/ (run.pc = "returned" /\ run.exit = 0)
        /\ run.applied # {} /\ run.applied \cap run.postIds = {}

ChangePlace ==
    (/\ run.pc \in Live \/ (run.pc = "returned" /\ run.exit = 0)
     /\ run.applied = {} /\ fix.applied = {}) => tree = base

IInv == GitPlace /\ FixPlace /\ PostPlace /\ RunPlace /\ LogPlace
        /\ RecoveryPlace /\ FixesPlace /\ ChangePlace
-----------------------------------------------------------------------------
(* A set of positions has a first one, and a last one when it is finite.   *)
LEMMA LeastNat ==
    ASSUME NEW S, S \subseteq Nat, S # {}
    PROVE  \E i \in S : \A j \in S : i <= j
<1> DEFINE R == OpToRel(<, Nat)
<1>1. IsWellFoundedOn(R, Nat)
  BY NatLessThanWellFounded
<1>2. \A x, y \in S : y < x => <<y, x>> \in R
  BY DEF OpToRel
<1> HIDE DEF R
<1>3. PICK x \in S : \A y \in S : ~(<<y, x>> \in R)
  BY <1>1, WFMin
<1>4. \A y \in S : ~(y < x)
  BY <1>2, <1>3
<1> QED BY <1>4

LEMMA MinIn ==
    ASSUME NEW S, S \subseteq Nat, S # {}
    PROVE  Min(S) \in S /\ \A j \in S : Min(S) <= j
BY LeastNat DEF Min

LEMMA MaxIn ==
    ASSUME NEW S, S \subseteq Nat, S # {}, IsFiniteSet(S)
    PROVE  Max(S) \in S /\ \A j \in S : j <= Max(S)
<1> DEFINE Unbounded(T) == T \subseteq S /\ T # {} /\ \A x \in T : \E y \in T : x < y
           Sizes == {Cardinality(T) : T \in {T \in SUBSET S : Unbounded(T)}}
<1>1. \A T \in SUBSET S : IsFiniteSet(T) /\ Cardinality(T) \in Nat
  BY FS_Subset, FS_CardinalityType
<1>2. ~Unbounded(S)
  <2> SUFFICES ASSUME Unbounded(S) PROVE FALSE
    OBVIOUS
  <2>1. Sizes \subseteq Nat /\ Sizes # {}
    BY <1>1
  <2>2. PICK n \in Sizes : \A m \in Sizes : n <= m
    BY <2>1, LeastNat
  <2>3. PICK T \in SUBSET S : Unbounded(T) /\ Cardinality(T) = n
    BY <2>2
  <2>4. PICK x \in T : TRUE
    BY <2>3
  <2> DEFINE U == {y \in T : x < y}
  <2>5. Unbounded(U)
    <3>1. U # {}
      BY <2>3, <2>4
    <3>2. ASSUME NEW y \in U PROVE \E z \in U : y < z
      <4>1. PICK z \in T : y < z
        BY <2>3
      <4>2. x \in Nat /\ y \in Nat /\ z \in Nat /\ x < y
        BY <2>3, <2>4
      <4> QED BY <4>1, <4>2
    <3> QED BY <3>1, <3>2
  <2>6. U \subseteq T \ {x} /\ x \in Nat
    BY <2>3, <2>4
  <2>7. Cardinality(U) <= Cardinality(T \ {x}) /\ Cardinality(T \ {x}) = n - 1
    BY <1>1, <2>3, <2>4, <2>6, FS_Subset, FS_RemoveElement
  <2>8. Cardinality(U) \in Sizes
    BY <2>5
  <2>9. n <= Cardinality(U) /\ n \in Nat /\ Cardinality(U) \in Nat
    BY <2>1, <2>2, <2>8
  <2> HIDE DEF U
  <2> QED BY <2>7, <2>9
<1>3. \E x \in S : \A y \in S : x >= y
  BY <1>2
<1> QED BY <1>3 DEF Max

(* The lines to drop in a file are a finite set.                           *)
LEMMA FiniteLines ==
    ASSUME NEW n \in Nat, NEW I \in SUBSET (1..n), NEW f
    PROVE  IsFiniteSet({f[i].start : i \in I})
<1> DEFINE T == {f[i].start : i \in I}
           g == [i \in I |-> f[i].start]
<1>0. 1 \in Int /\ n \in Int
  OBVIOUS
<1>1. IsFiniteSet(1..n)
  BY <1>0, FS_Interval
<1>9. IsFiniteSet(I)
  BY <1>1, FS_Subset
<1>2. g \in Surjection(I, T)
  BY DEF Surjection
<1> HIDE DEF g, T
<1>3. IsFiniteSet(T)
  BY <1>9, <1>2, FS_Surjection
<1> QED BY <1>3 DEF T
-----------------------------------------------------------------------------
(* What one step of the fix pass may do to the repository, and when.       *)
Beyond == {"classify", "read", "replace", "produce", "git_apply"}

FixQuiet == UNCHANGED <<refs, tree>> /\ fix'.applied = fix.applied

FixBranches ==
    /\ fix.pc = "branch" /\ fix'.pc = "classify"
    /\ fix'.applied = fix.applied /\ tree' = tree
    /\ fix.flags.auto /\ ~fix.flags.captured
    /\ \E b \in RecoveryBranch : refs[b] = NoRef /\ refs' = [refs EXCEPT ![b] = refs[head]]

FixWrites ==
    /\ fix.pc \in {"replace", "git_apply"} /\ fix'.pc \in {"read", "produce"}
    /\ fix'.applied # {} /\ refs' = refs
    /\ \E p \in File, c \in Content :
          /\ \E i \in DOMAIN fix.findings : p = fix.findings[i].path
          /\ tree[p] # Absent /\ tree' = [tree EXCEPT ![p] = c]

FixOutcome ==
    /\ FixPlace'
    /\ UNCHANGED <<head, index>>
    /\ fix'.flags = fix.flags /\ fix'.findings = fix.findings
    /\ fix'.pc \notin {"idle", "status"}
    /\ FixQuiet \/ FixBranches \/ FixWrites
    /\ fix'.pc = "branch" =>
          fix.pc = "status" /\ (fix.flags.apply /\ ~fix.flags.force => ~Dirty)
    /\ fix'.pc \in Beyond /\ fix.flags.apply /\ fix.flags.auto /\ ~fix.flags.captured =>
          fix.pc \in Beyond \/ FixBranches
    /\ fix'.pc = "done" /\ fix'.applied # {} => fix.pc \in Beyond

LEMMA Findings ==
    ASSUME FixType
    PROVE  /\ DOMAIN fix.findings = 1..Len(fix.findings) /\ Len(fix.findings) \in Nat
           /\ \A i \in DOMAIN fix.findings : /\ i \in Nat \ {0}
                                             /\ fix.findings[i].path \in File
                                             /\ fix.findings[i].start \in Nat \ {0}
           /\ fix.todo # {} => Min(fix.todo) \in fix.todo
           /\ fix.plan # {} => Min(fix.plan) \in fix.plan
           /\ fix.tasks # {} => Min(fix.tasks) \in fix.tasks
<1>1. fix.findings \in Seq(Finding)
  BY DEF FixType
<1>2. /\ DOMAIN fix.findings = 1..Len(fix.findings) /\ Len(fix.findings) \in Nat
      /\ \A i \in DOMAIN fix.findings : i \in Nat \ {0} /\ fix.findings[i] \in Finding
  BY <1>1
<1>3. fix.todo \subseteq Nat /\ fix.plan \subseteq Nat /\ fix.tasks \subseteq Nat
  BY DEF FixType
<1> QED BY <1>2, <1>3, MinIn DEF Finding

(* A step that only moves the pass on, or ends it.                         *)
LEMMA Moves ==
    ASSUME FixType, NEW p \in FixPc,
           \/ fix' = [fix EXCEPT !.pc = p]
           \/ \E code : fix' = [fix EXCEPT !.pc = p, !.exit = code]
    PROVE  /\ FixType' /\ fix'.pc = p
           /\ fix'.flags = fix.flags /\ fix'.findings = fix.findings /\ fix'.todo = fix.todo
           /\ fix'.plan = fix.plan /\ fix'.tasks = fix.tasks /\ fix'.applied = fix.applied
<1>1. CASE fix' = [fix EXCEPT !.pc = p]
  BY <1>1 DEF FixType
<1>2. CASE \E code : fix' = [fix EXCEPT !.pc = p, !.exit = code]
  <2>1. PICK code : fix' = [fix EXCEPT !.pc = p, !.exit = code]
    BY <1>2
  <2> QED BY <2>1 DEF FixType
<1> QED BY <1>1, <1>2

(* The pass is called: it ends at once, or has findings to work on.         *)
LEMMA FixStartOutcome ==
    ASSUME NEW flags \in Flags, NEW findings \in Seq(Finding),
           NEW given \in SUBSET DOMAIN findings, FixStart(flags, findings, given)
    PROVE  /\ FixPlace' /\ UNCHANGED gitVars
           /\ fix'.pc \in {"done", "status"} /\ fix'.applied = {}
           /\ fix'.flags = flags /\ fix'.findings = findings
<1> DEFINE kept  == Dedup(findings, given)
           tasks == IF flags.suggest \/ flags.auto THEN LLMTasks(findings, kept) ELSE {}
<1>1. /\ kept \in SUBSET Nat /\ tasks \in SUBSET Nat
      /\ kept \cup tasks \subseteq DOMAIN findings
  BY DEF Dedup, LLMTasks
<1> DEFINE Frames ==
             [pc : FixPc, flags : {flags}, findings : {findings}, todo : {kept},
              plan : {{}}, buffer : {<<>>}, drop : {{}}, deleted : {0}, applied : {{}},
              tasks : {tasks}, misses : {0}, llm : {FixIdle.llm}, exit : {0, 1, 2}]
           called == [FixIdle EXCEPT !.flags = flags, !.findings = findings,
                                     !.todo = kept, !.tasks = tasks]
<1>2. \/ fix' = [called EXCEPT !.pc = "done", !.exit = 2]
      \/ fix' = [called EXCEPT !.pc = "done", !.exit = 1]
      \/ fix' = [called EXCEPT !.pc = "done"]
      \/ fix' = [called EXCEPT !.pc = "status"] /\ kept # {}
  BY DEF FixStart
<1> HIDE DEF kept, tasks
<1>3. called \in Frames
  BY DEF FixIdle, FixPc
<1> HIDE DEF called
<1>4. fix' \in Frames /\ fix'.pc \in {"done", "status"} /\ (fix'.pc = "status" => kept # {})
  BY <1>2, <1>3 DEF FixPc
<1>5. /\ fix'.todo = kept /\ fix'.applied = {} /\ fix'.flags = flags
      /\ fix'.findings = findings /\ fix'.plan = {} /\ fix'.tasks = tasks
  BY <1>4
<1>6. FixType'
  BY <1>1, <1>4, <1>5 DEF FixType
<1> HIDE DEF Frames
<1>7. UNCHANGED gitVars
  BY DEF FixStart
<1> QED BY <1>4, <1>5, <1>6, <1>7 DEF FixPlace

LEMMA StatusOutcome ==
    ASSUME FixPlace, FixStatus PROVE FixOutcome
<1> USE DEF FixStatus, FixPlace, gitVars
<1>1. fix.pc = "status" /\ UNCHANGED <<head, refs, index, tree>>
  OBVIOUS
<1>2. FixType' /\ fix'.todo = fix.todo /\ fix'.flags = fix.flags /\ fix'.findings = fix.findings /\ fix'.applied = fix.applied
      /\ \/ fix'.pc = "done"
         \/ fix'.pc = "branch" /\ (fix.flags.apply /\ ~fix.flags.force => ~Dirty)
  <2>1. CASE \E code : FixReturn(code)
    BY <2>1, Moves DEF FixReturn, FixPc
  <2>2. CASE fix' = [fix EXCEPT !.pc = "branch"]
    <3>1. fix.flags.apply /\ ~fix.flags.force => ~Dirty
      BY <2>2 DEF FixType, FixReturn
    <3>2. "branch" \in FixPc /\ FixType
      BY DEF FixPc
    <3>3. /\ FixType' /\ fix'.pc = "branch"
          /\ fix'.flags = fix.flags /\ fix'.findings = fix.findings /\ fix'.todo = fix.todo /\ fix'.applied = fix.applied
      BY <2>2, <3>2, Moves
    <3> QED BY <3>1, <3>3
  <2> QED BY <2>1, <2>2
<1> QED BY <1>1, <1>2 DEF FixOutcome, FixQuiet, Beyond

LEMMA BranchOutcome ==
    ASSUME FixPlace, FixBranch PROVE FixOutcome
<1> USE DEF FixBranch, FixPlace, gitVars
<1>1. fix.pc = "branch" /\ UNCHANGED <<head, index, tree>>
  BY DEF CreateBranch
<1>2. FixType' /\ fix'.todo = fix.todo /\ fix'.flags = fix.flags /\ fix'.findings = fix.findings /\ fix'.applied = fix.applied
  BY Moves DEF FixReturn, FixPc
<1>3. \/ refs' = refs /\ fix'.pc = "done"
      \/ refs' = refs /\ fix'.pc = "classify" /\ ~(fix.flags.apply /\ fix.flags.auto /\ ~fix.flags.captured)
      \/ FixBranches
  BY <1>1, <1>2 DEF FixBranches, CreateBranch, FixReturn, FixType
<1>4. fix'.pc \in {"done", "classify"}
  BY <1>3 DEF FixBranches
<1> QED BY <1>1, <1>2, <1>3, <1>4 DEF FixOutcome, FixQuiet, Beyond

LEMMA ClassifyOutcome ==
    ASSUME FixPlace, FixClassify PROVE FixOutcome
<1> USE DEF FixPlace, gitVars
<1> DEFINE i == Min(fix.todo)
<1>1. fix.pc = "classify" /\ UNCHANGED <<head, refs, index, tree>> /\ i \in fix.todo
  BY Findings DEF FixClassify
<1> HIDE DEF i
<1>2. /\ fix' \in {[fix EXCEPT !.plan = p, !.todo = @ \ {i},
                              !.pc = IF fix.todo = {i} THEN AfterClassify ELSE @] :
                   p \in {fix.plan, fix.plan \cup {i}}}
  BY DEF FixClassify, i
<1>3. AfterClassify \in {"read", "produce"}
  BY DEF AfterClassify
<1>4. i \in Nat /\ i \in DOMAIN fix.findings
  BY <1>1 DEF FixType
<1>6. PICK p \in {fix.plan, fix.plan \cup {i}}, pc \in {"read", "produce", "classify"} :
         /\ fix' = [fix EXCEPT !.plan = p, !.todo = @ \ {i}, !.pc = pc]
         /\ pc = "classify" => fix.todo # {i}
  BY <1>1, <1>2, <1>3 DEF FixType
<1>5. FixType' /\ fix'.flags = fix.flags /\ fix'.findings = fix.findings /\ fix'.applied = fix.applied
      /\ (fix'.pc \in {"read", "produce"} \/ (fix'.pc = "classify" /\ fix'.todo # {}))
  <2>1. p \subseteq Nat /\ p \subseteq DOMAIN fix.findings
    BY <1>4 DEF FixType
  <2>2. fix.todo # {i} => fix.todo \ {i} # {}
    BY <1>1
  <2>3. /\ fix.todo \ {i} \subseteq Nat
        /\ (fix.todo \ {i}) \cup p \cup fix.tasks \subseteq DOMAIN fix.findings
    BY <2>1 DEF FixType
  <2>4. FixType'
    BY <1>6, <2>1, <2>3 DEF FixType, FixPc
  <2>5. /\ fix'.flags = fix.flags /\ fix'.findings = fix.findings /\ fix'.applied = fix.applied
        /\ fix'.pc = pc /\ fix'.todo = fix.todo \ {i}
    BY <1>6 DEF FixType
  <2> QED BY <1>6, <2>2, <2>4, <2>5
<1> QED BY <1>1, <1>5 DEF FixOutcome, FixQuiet, Beyond

LEMMA ReadOutcome ==
    ASSUME FixPlace, GitTypeOK, FixRead PROVE FixOutcome
<1> USE DEF FixPlace, gitVars
<1>1. fix.pc = "read" /\ UNCHANGED <<head, refs, index, tree>>
  BY DEF FixRead
<1>2. CASE fix.plan = {} \/ tree[NextFile] = Absent
  <2>1. FixType' /\ fix'.pc \in {"produce", "done"} /\ fix'.flags = fix.flags /\ fix'.findings = fix.findings
        /\ fix'.applied = fix.applied
    BY <1>2 DEF FixRead, FixReturn, FixType, FixPc
  <2> QED BY <1>1, <2>1 DEF FixOutcome, FixQuiet, Beyond
<1>3. CASE fix.plan # {} /\ tree[NextFile] # Absent
  <2> DEFINE lines == {fix.findings[i].start : i \in Hits}
  <2>1. fix' = [fix EXCEPT !.pc = "replace", !.buffer = tree[NextFile], !.drop = lines]
    BY <1>3 DEF FixRead
  <2>2. Hits \subseteq DOMAIN fix.findings
    BY DEF Hits, FixType
  <2>3. IsFiniteSet(lines)
    <3>1. Len(fix.findings) \in Nat /\ Hits \in SUBSET (1..Len(fix.findings))
      BY <2>2, Findings
    <3> QED BY <3>1, FiniteLines
  <2>4. lines \in SUBSET Nat
    BY <2>2, Findings
  <2>5. NextFile \in File
    BY <1>3, Findings DEF NextFile, FixType
  <2>6. tree[NextFile] \in Seq(SourceLine)
    BY <1>3, <2>5, FilesAreText DEF GitTypeOK, Snapshot
  <2> HIDE DEF lines
  <2>7. FixType' /\ fix'.pc = "replace" /\ fix'.flags = fix.flags /\ fix'.findings = fix.findings /\ fix'.applied = fix.applied
        /\ fix'.plan = fix.plan /\ fix'.drop = lines /\ fix'.buffer = tree[NextFile]
    BY <2>1, <2>4 DEF FixType, FixPc
  <2>8. NextFile' = NextFile
    BY <2>7 DEF NextFile
  <2> QED BY <1>1, <1>3, <2>3, <2>6, <2>7, <2>8 DEF FixOutcome, FixQuiet, Beyond
<1> QED BY <1>2, <1>3

LEMMA DeleteOutcome ==
    ASSUME FixPlace, FixDelete PROVE FixOutcome
<1> USE DEF FixPlace, gitVars
<1> DEFINE line == Max(fix.drop)
<1>1. fix.pc = "replace" /\ fix.drop # {} /\ UNCHANGED <<head, refs, index, tree>>
      /\ fix.drop \subseteq Nat /\ IsFiniteSet(fix.drop) /\ fix.buffer \in Seq(SourceLine)
  BY DEF FixDelete, FixType
<1>2. line \in Nat
  BY <1>1, MaxIn
<1> HIDE DEF line
<1>3. ASSUME line <= Len(fix.buffer) PROVE RemoveAt(fix.buffer, line) \in Seq(SourceLine)
  <2>1. SubSeq(fix.buffer, 1, line - 1) \in Seq(SourceLine)
    BY <1>1, <1>2, <1>3
  <2>2. SubSeq(fix.buffer, line + 1, Len(fix.buffer)) \in Seq(SourceLine)
    BY <1>1, <1>2, <1>3
  <2> QED BY <2>1, <2>2, ConcatProperties DEF RemoveAt
<1>4. PICK kept \in Seq(SourceLine) :
         fix' = [fix EXCEPT !.drop = @ \ {line}, !.buffer = kept]
  BY <1>1, <1>3 DEF FixDelete, line, FixType
<1>5. FixType' /\ fix'.flags = fix.flags /\ fix'.findings = fix.findings /\ fix'.applied = fix.applied /\ fix'.plan = fix.plan
      /\ fix'.pc = "replace" /\ fix'.drop = fix.drop \ {line} /\ fix'.buffer = kept
  BY <1>1, <1>4 DEF FixType
<1>6. IsFiniteSet(fix'.drop) /\ NextFile' = NextFile
  <2>1. IsFiniteSet(fix.drop \ {line})
    BY <1>1, FS_RemoveElement
  <2> QED BY <1>5, <2>1 DEF NextFile
<1> QED BY <1>1, <1>5, <1>6 DEF FixOutcome, FixQuiet, Beyond

LEMMA ReplaceOutcome ==
    ASSUME FixPlace, FixReplace PROVE FixOutcome
<1> USE DEF FixPlace, gitVars
<1>1. /\ fix.pc = "replace" /\ UNCHANGED <<head, refs, index>>
      /\ fix.plan # {} /\ fix.buffer \in Seq(SourceLine) /\ tree[NextFile] # Absent
  BY DEF FixReplace
<1>2. PICK payload \in Payloads(fix.buffer) : tree' = [tree EXCEPT ![NextFile] = payload]
  BY DEF FixReplace
<1>3. payload \in Content
  <2>1. \A n \in 0..(Len(fix.buffer) - 1) : SubSeq(fix.buffer, 1, n) \in Seq(SourceLine)
    BY <1>1
  <2> QED BY <1>1, <2>1, FilesAreText DEF Payloads
<1>4. NextFile \in File /\ Min(fix.plan) \in Hits
  BY <1>1, Findings DEF NextFile, FixType, Hits
<1>5. FixType' /\ fix'.pc = "read" /\ fix'.flags = fix.flags /\ fix'.findings = fix.findings
  BY DEF FixReplace, FixType, FixPc
<1>6. fix'.applied # {}
  <2>1. fix'.applied = fix.applied \cup {fix.findings[i].id : i \in Hits}
    BY DEF FixReplace, FixType
  <2>2. {fix.findings[i].id : i \in Hits} # {}
    BY <1>4
  <2> QED BY <2>1, <2>2
<1>8. \E i \in DOMAIN fix.findings : NextFile = fix.findings[i].path
  BY <1>1, Findings DEF NextFile, FixType
<1>7. FixWrites
  BY <1>1, <1>2, <1>3, <1>4, <1>5, <1>6, <1>8 DEF FixWrites
<1> QED BY <1>1, <1>5, <1>7 DEF FixOutcome, Beyond

LEMMA QuietOutcome ==
    ASSUME FixPlace, FixReplaceFails \/ FixLoopEnds \/ FixGitApplyFails PROVE FixOutcome
<1> USE DEF FixPlace, gitVars, FixReplaceFails, FixLoopEnds, FixGitApplyFails
<1>1. fix.pc \in {"replace", "produce", "git_apply"} /\ UNCHANGED <<head, refs, index, tree>>
  OBVIOUS
<1>2. FixType' /\ fix'.flags = fix.flags /\ fix'.findings = fix.findings /\ fix'.applied = fix.applied
      /\ fix'.pc \in {"done", "produce"}
  <2>1. CASE FixReplaceFails \/ FixLoopEnds
    BY <2>1, Moves DEF FixReturn, FixPc
  <2>2. CASE FixGitApplyFails
    <3>1. fix.tasks \ {Min(fix.tasks)} \subseteq fix.tasks
      OBVIOUS
    <3> QED BY <2>2, <3>1 DEF FixType, FixPc, TaskDone
  <2> QED BY <2>1, <2>2
<1> QED BY <1>1, <1>2 DEF FixOutcome, FixQuiet, Beyond

LEMMA ProduceOutcome ==
    ASSUME FixPlace, FixProduce PROVE FixOutcome
<1> USE DEF FixPlace, gitVars
<1>1. fix.pc = "produce" /\ UNCHANGED <<head, refs, index, tree>> /\ fix.tasks # {}
  BY DEF FixProduce, LoopEnds
<1>2. \E misses, lines : \/ fix' = [fix EXCEPT !.misses = misses, !.pc = "git_apply", !.buffer = lines]
                         \/ fix' = [fix EXCEPT !.misses = misses, !.tasks = TaskDone]
  <2>1. PICK p \in Produced(Task) :
           LET frame == [fix EXCEPT
                          !.misses = IF fix.flags.cap # NoCap /\ (p.status = "rejected" \/ ~p.hit)
                                     THEN @ + 1 ELSE @]
           IN  \/ fix' = [frame EXCEPT !.pc = "git_apply", !.buffer = <<tree[Task.path][Task.start]>>]
               \/ fix' = [frame EXCEPT !.tasks = TaskDone]
    BY DEF FixProduce
  <2> QED BY <2>1 DEF FixType
<1>4. PICK misses, lines : \/ fix' = [fix EXCEPT !.misses = misses, !.pc = "git_apply", !.buffer = lines]
                          \/ fix' = [fix EXCEPT !.misses = misses, !.tasks = TaskDone]
  BY <1>2
<1>3. FixType' /\ fix'.flags = fix.flags /\ fix'.findings = fix.findings /\ fix'.applied = fix.applied
      /\ (fix'.pc = "produce" \/ (fix'.pc = "git_apply" /\ fix'.tasks = fix.tasks))
  <2>1. CASE fix' = [fix EXCEPT !.misses = misses, !.pc = "git_apply", !.buffer = lines]
    BY <2>1 DEF FixType, FixPc
  <2>2. CASE fix' = [fix EXCEPT !.misses = misses, !.tasks = TaskDone]
    <3>1. /\ TaskDone \subseteq Nat
          /\ fix.todo \cup fix.plan \cup TaskDone \subseteq DOMAIN fix.findings
      BY DEF FixType, TaskDone
    <3>2. FixType'
      BY <2>2, <3>1 DEF FixType
    <3>3. fix'.flags = fix.flags /\ fix'.findings = fix.findings /\ fix'.applied = fix.applied /\ fix'.pc = fix.pc
      BY <2>2 DEF FixType
    <3> QED BY <1>1, <3>2, <3>3
  <2> QED BY <1>4, <2>1, <2>2
<1> QED BY <1>1, <1>3 DEF FixOutcome, FixQuiet, Beyond

LEMMA GitApplyOutcome ==
    ASSUME FixPlace, GitTypeOK, FixGitApply PROVE FixOutcome
<1> USE DEF FixPlace, gitVars
<1> DEFINE path  == Task.path
           old   == fix.buffer[1]
           lines == [i \in DOMAIN tree[path] |->
                        IF tree[path][i] = old THEN Patched(old) ELSE tree[path][i]]
<1>1. /\ fix.pc = "git_apply" /\ UNCHANGED <<head, refs, index>> /\ fix.tasks # {}
      /\ tree[path] # Absent /\ old \in ToSet(tree[path])
      /\ tree' = [tree EXCEPT ![path] = [i \in DOMAIN @ |-> IF @[i] = old THEN Patched(old) ELSE @[i]]]
  BY DEF FixGitApply
<1>2. path \in File
  BY <1>1, Findings DEF Task, FixType
<1>3. tree' = [tree EXCEPT ![path] = lines]
  BY <1>1, <1>2 DEF GitTypeOK, Snapshot
<1>4. tree[path] \in Seq(SourceLine)
  BY <1>1, <1>2, FilesAreText DEF GitTypeOK, Snapshot
<1>5. Patched(old) \in SourceLine
  <2>1. old \in SourceLine
    BY <1>1, <1>4 DEF ToSet
  <2> QED BY <2>1 DEF Patched, SourceLine, Kind
<1>6. lines \in Content
  <2> HIDE DEF path, old
  <2> QED BY <1>4, <1>5, FilesAreText
<1>7. FixType' /\ fix'.pc = "produce" /\ fix'.flags = fix.flags /\ fix'.findings = fix.findings /\ fix'.applied # {}
  BY <1>1 DEF FixGitApply, FixType, FixPc, TaskDone
<1>9. \E i \in DOMAIN fix.findings : path = fix.findings[i].path
  BY <1>1, Findings DEF Task, FixType
<1> HIDE DEF path, lines
<1>8. FixWrites
  BY <1>1, <1>2, <1>3, <1>6, <1>7, <1>9 DEF FixWrites
<1> QED BY <1>1, <1>7, <1>8 DEF FixOutcome, Beyond

LEMMA FixStepOutcome ==
    ASSUME FixPlace, GitTypeOK, FixStep PROVE FixOutcome
BY StatusOutcome, BranchOutcome, ClassifyOutcome, ReadOutcome, DeleteOutcome, ReplaceOutcome,
   QuietOutcome, ProduceOutcome, GitApplyOutcome DEF FixStep
-----------------------------------------------------------------------------
LEMMA Names ==
    /\ RecoveryBranch \subseteq Branch /\ FixesBranch \subseteq Branch
    /\ RecoveryBranch \cap FixesBranch = {} /\ "HEAD" \notin Branch
    /\ Main \in Branch /\ Main \notin RecoveryBranch /\ Main \notin FixesBranch
    /\ Source \in Snapshot /\ Source # NoRef
  BY RepairAssumption, FixAssumption, FixesBranchAssumption, GitAssumption DEF Snapshot

(* What one command of the post-fix policy may do to the repository: one   *)
(* git command, or none.                                                   *)
GitCommand ==
    \/ UNCHANGED gitVars
    \/ \E b \in FixesBranch : CheckoutNew(b)
    \/ AddAll
    \/ Commit
    \/ \E b \in Place \ RecoveryBranch : Checkout(b)

LEMMA PolicyStep ==
    ASSUME GitTypeOK, head \notin RecoveryBranch, PostPlace, PostStep
    PROVE  PostPlace' /\ post'.pc # "idle" /\ GitCommand
<1> USE DEF PostPlace
<1>1. CASE PostRevParse
  <2>1. UNCHANGED gitVars /\ post.pc = "rev_parse" /\ post' = [post EXCEPT !.pc = "checkout_b", !.original = head]
        /\ head \in Place \ RecoveryBranch
    BY <1>1 DEF PostRevParse, GitTypeOK, Place
  <2> QED BY <2>1 DEF PostTypeOK, PostPc, Place, GitCommand
<1>2. CASE PostCheckoutB
  <2>1. post.pc = "checkout_b" /\ CheckoutNew(post.branch) /\ post' = [post EXCEPT !.pc = "add"]
    BY <1>2 DEF PostCheckoutB, PostGoto
  <2>2. PostPlace' /\ post'.pc # "idle"
    BY <2>1 DEF PostTypeOK, PostPc
  <2> QED BY <2>1, <2>2 DEF GitCommand
<1>3. CASE PostAdd
  <2>1. post.pc = "add" /\ AddAll /\ post' = [post EXCEPT !.pc = "commit"]
    BY <1>3 DEF PostAdd, PostGoto
  <2>2. PostPlace' /\ post'.pc # "idle"
    BY <2>1 DEF PostTypeOK, PostPc
  <2> QED BY <2>1, <2>2 DEF GitCommand
<1>4. CASE PostCommit
  <2>1. post.pc = "commit" /\ Commit /\ post' = [post EXCEPT !.pc = "checkout_back"]
    BY <1>4 DEF PostCommit, PostGoto
  <2>2. PostPlace' /\ post'.pc # "idle"
    BY <2>1 DEF PostTypeOK, PostPc
  <2> QED BY <2>1, <2>2 DEF GitCommand
<1>5. CASE PostCheckoutBack
  <2>1. post.pc = "checkout_back" /\ Checkout(post.original)
        /\ \/ post' = [post EXCEPT !.pc = "done", !.outcome = "branch"]
           \/ post' = [post EXCEPT !.pc = "gh"]
    BY <1>5 DEF PostCheckoutBack, PostGoto, PostReturn
  <2>2. PostPlace' /\ post'.pc # "idle"
    BY <2>1 DEF PostTypeOK, PostPc, Policy
  <2> QED BY <2>1, <2>2 DEF GitCommand
<1>6. CASE PostPush \/ PostPrCreate \/ \E found \in BOOLEAN : PostFindGh(found)
  <2>1. UNCHANGED gitVars
    BY <1>6 DEF PostPush, PostPrCreate, PostFindGh
  <2>3. \/ post' = [post EXCEPT !.pc = "push"]
        \/ post' = [post EXCEPT !.pc = "done", !.outcome = "branch"]
        \/ post' = [post EXCEPT !.pc = "pr_create", !.pushed = TRUE]
        \/ post' = [post EXCEPT !.pc = "done", !.pr = TRUE, !.outcome = "branch-pr"]
    BY <1>6 DEF PostPush, PostPrCreate, PostFindGh, PostGoto, PostReturn
  <2>2. PostTypeOK' /\ post'.branch = post.branch /\ post'.original = post.original
        /\ post.pc \in {"gh", "push", "pr_create"} /\ post'.pc \in {"push", "pr_create", "done"}
    BY <1>6, <2>3 DEF PostPush, PostPrCreate, PostFindGh, PostTypeOK, PostPc, Policy
  <2> QED BY <2>1, <2>2 DEF GitCommand
<1>7. CASE PostFail
  <2>1. UNCHANGED gitVars /\ post.pc \notin {"idle", "done"}
    BY <1>7 DEF PostFail
  <2>3. \/ post' = [post EXCEPT !.pc = "done", !.outcome = "working-tree"]
        \/ post' = [post EXCEPT !.pc = "recover"] /\ post.original # "None"
    BY <1>7 DEF PostFail, PostGoto, PostReturn
  <2>2. PostTypeOK' /\ post'.branch = post.branch /\ post'.original = post.original
        /\ (post'.pc = "done" \/ (post'.pc = "recover" /\ post.original # "None"))
    BY <2>3 DEF PostTypeOK, PostPc, Policy
  <2> QED BY <2>1, <2>2 DEF GitCommand
<1>8. CASE PostRecover
  <2>1. post.pc = "recover" /\ (Checkout(post.original) \/ UNCHANGED gitVars)
        /\ post' = [post EXCEPT !.pc = "done", !.outcome = "working-tree"]
    BY <1>8 DEF PostRecover, PostReturn
  <2>2. PostPlace' /\ post'.pc # "idle"
    BY <2>1 DEF PostTypeOK, PostPc, Policy
  <2>3. post.original \in Place \ RecoveryBranch
    BY <2>1
  <2> QED BY <2>1, <2>2, <2>3 DEF GitCommand
<1> QED BY <1>1, <1>2, <1>3, <1>4, <1>5, <1>6, <1>7, <1>8 DEF PostStep

PostOutcome == Repo' /\ PostPlace' /\ post'.pc # "idle"
               /\ \A b \in RecoveryBranch : refs'[b] = refs[b]

LEMMA RepoQuiet == ASSUME Repo, UNCHANGED gitVars PROVE Repo'
BY DEF Repo, GitTypeOK, gitVars, SameFiles, Place

LEMMA CheckoutOutcome ==
    ASSUME Repo, NEW b \in Place \ RecoveryBranch, Checkout(b)
    PROVE  Repo' /\ refs' = refs
<1>1. CASE b = "HEAD"
  <2>1. UNCHANGED gitVars
    BY <1>1 DEF Checkout
  <2> QED BY <2>1, RepoQuiet DEF gitVars
<1>2. CASE b # "HEAD"
  <2>1. /\ refs[b] \in Snapshot /\ refs' = refs /\ head' = b /\ refs[b] # NoRef
        /\ index' = [f \in File |-> IF f \in Differs(b) THEN refs[b][f] ELSE index[f]]
        /\ tree' = [f \in File |-> IF f \in Differs(b) THEN refs[b][f] ELSE tree[f]]
    BY <1>2 DEF Checkout, CanCheckout, GitTypeOK, Repo, Place
  <2>2. tree' \in Snapshot /\ index' \in Snapshot
    BY <2>1 DEF GitTypeOK, Snapshot, Repo
  <2>3. SameFiles(refs[b]) /\ SameFiles(tree) /\ SameFiles(index)
    BY <2>1 DEF Repo
  <2>4. SameFiles(tree)' /\ SameFiles(index)'
    BY <2>1, <2>3 DEF SameFiles
  <2>5. GitTypeOK'
    BY <1>2, <2>1, <2>2 DEF GitTypeOK, Repo, Place
  <2>6. \A c \in Place : refs'[c] # NoRef => SameFiles(refs'[c])
    BY <2>1 DEF Repo
  <2> QED BY <2>1, <2>4, <2>5, <2>6 DEF Repo, SameFiles
<1> QED BY <1>1, <1>2

(* A branch other than a recovery branch moves.                            *)
LEMMA RefMoves ==
    ASSUME Repo, NEW b \in Place \ RecoveryBranch, NEW s \in Snapshot, SameFiles(s),
           refs' = [refs EXCEPT ![b] = s], head' \in {head, b}, tree' = tree,
           index' \in {index, tree}
    PROVE  Repo' /\ \A c \in RecoveryBranch : refs'[c] = refs[c]
<1> USE DEF Repo, Place
<1>1. refs' \in [Branch \cup {"HEAD"} -> Snapshot \cup {NoRef}] /\ s # NoRef
  BY GitAssumption DEF GitTypeOK, Snapshot
<1>2. refs'[b] = s /\ \A c \in Place : c # b => refs'[c] = refs[c]
  BY DEF GitTypeOK
<1>3. GitTypeOK'
  BY <1>1, <1>2 DEF GitTypeOK
<1>4. SameFiles(tree)' /\ SameFiles(index)'
  BY DEF SameFiles
<1>5. \A c \in Place : refs'[c] # NoRef => SameFiles(refs'[c])
  BY <1>2
<1>6. RecoveryBranch \subseteq Place
  BY Names
<1> QED BY <1>2, <1>3, <1>4, <1>5, <1>6 DEF SameFiles

LEMMA PostStepOutcome ==
    ASSUME Repo, PostPlace, PostStep PROVE PostOutcome
<1>1. PostPlace' /\ post'.pc # "idle" /\ GitCommand
  BY PolicyStep DEF Repo
<1>2. CASE UNCHANGED gitVars
  BY <1>1, <1>2, RepoQuiet DEF PostOutcome, gitVars
<1>3. CASE \E b \in FixesBranch : CheckoutNew(b)
  <2>1. PICK b \in FixesBranch : CheckoutNew(b)
    BY <1>3
  <2>2. b \in Place \ RecoveryBranch
    BY Names DEF Place
  <2>3. refs[head] \in Snapshot /\ SameFiles(refs[head])
    BY DEF Repo, GitTypeOK, Place
  <2> QED BY <1>1, <2>1, <2>2, <2>3, RefMoves DEF PostOutcome, CheckoutNew
<1>4. CASE AddAll
  <2>1. Repo'
    BY <1>4 DEF Repo, AddAll, GitTypeOK, SameFiles, Place
  <2> QED BY <1>1, <1>4, <2>1 DEF PostOutcome, AddAll
<1>5. CASE Commit
  <2>1. head \in Place \ RecoveryBranch /\ index \in Snapshot /\ SameFiles(index)
    BY DEF Repo, GitTypeOK, Place
  <2> QED BY <1>1, <1>5, <2>1, RefMoves DEF PostOutcome, Commit
<1>6. CASE \E b \in Place \ RecoveryBranch : Checkout(b)
  BY <1>1, <1>6, CheckoutOutcome DEF PostOutcome
<1> QED BY <1>1, <1>2, <1>3, <1>4, <1>5, <1>6 DEF GitCommand
-----------------------------------------------------------------------------
(* The frames and the log as the run moves on.                             *)
NewFixes == \E b \in FixesBranch : before[b] = NoRef /\ refs[b] # NoRef

LEMMA Arguments ==
    ASSUME NEW args \in ArgChoices
    PROVE  /\ args.apply \in BOOLEAN /\ args.auto \in BOOLEAN
           /\ args.maxRetries \in Int /\ args.maxRetries <= MaxRetries /\ MaxRetries \in Nat
           /\ \A captured \in BOOLEAN :
                 [NoFlags EXCEPT !.apply = TRUE, !.auto = args.auto, !.captured = captured] \in Flags
  BY ArgsAssumption, RunAssumption DEF Args, NoFlags, Flags

LEMMA IdleFrames ==
    /\ fix' = FixIdle => FixPlace' /\ fix'.applied = {} /\ fix'.pc = "idle"
    /\ post' = PostIdle => PostPlace'
<1>1. ASSUME fix' = FixIdle PROVE FixPlace' /\ fix'.applied = {} /\ fix'.pc = "idle"
  <2>1. NoFlags \in Flags
    BY DEF NoFlags, Flags
  <2>2. FixType' /\ fix'.pc = "idle" /\ fix'.applied = {}
    BY <1>1, <2>1 DEF FixIdle, FixType, FixPc
  <2> QED BY <2>2 DEF FixPlace
<1>2. ASSUME post' = PostIdle PROVE PostPlace'
  BY <1>2 DEF PostIdle, PostPlace, PostTypeOK, PostPc, Policy
<1> QED BY <1>1, <1>2

LEMMA EnterRow ==
    ASSUME LogPlace, NEW to \in State, Enter(to), sm.rows # <<>>
    PROVE  /\ sm' \in [rows : Seq(Row), attempts : [State -> Nat]]
           /\ sm'.rows = Append(sm.rows, RowTo(to))
           /\ Len(sm'.rows) = Len(sm.rows) + 1 /\ Current' = to /\ sm'.rows # <<>>
           /\ sm'.attempts = [sm.attempts EXCEPT ![to] = @ + 1]
<1>1. sm.rows \in Seq(Row) /\ sm.attempts \in [State -> Nat]
  BY DEF LogPlace
<1>2. Current \in State
  <2>1. Len(sm.rows) \in 1..Len(sm.rows)
    BY <1>1
  <2>2. sm.rows[Len(sm.rows)] \in Row
    BY <1>1, <2>1, ElementOfSeq
  <2> QED BY <2>2 DEF Current, Row
<1>3. RowTo(to) \in Row
  BY <1>1, <1>2 DEF RowTo, Row
<1>4. sm'.rows = Append(sm.rows, RowTo(to)) /\ sm'.attempts = [sm.attempts EXCEPT ![to] = @ + 1]
      /\ sm' = [rows |-> sm'.rows, attempts |-> sm'.attempts]
  BY DEF Enter
<1>5. sm'.rows \in Seq(Row) /\ sm'.attempts \in [State -> Nat]
  <2>1. sm'.rows \in Seq(Row)
    BY <1>1, <1>3, <1>4, AppendProperties
  <2> QED BY <1>1, <1>4, <2>1
<1>6. Len(sm'.rows) = Len(sm.rows) + 1 /\ sm'.rows[Len(sm'.rows)] = RowTo(to) /\ sm'.rows # <<>>
  <2> DEFINE row == RowTo(to)
  <2> HIDE DEF row
  <2>1. row \in Row /\ sm'.rows = Append(sm.rows, row)
    BY <1>3, <1>4 DEF row
  <2>2. Len(Append(sm.rows, row)) = Len(sm.rows) + 1 /\ Append(sm.rows, row) # <<>>
        /\ Append(sm.rows, row)[Len(sm.rows) + 1] = row
    BY <1>1, <2>1, AppendProperties
  <2> QED BY <2>1, <2>2 DEF row
<1>7. Current' = to
  BY <1>6 DEF Current, RowTo
<1> QED BY <1>4, <1>5, <1>6, <1>7

LEMMA Rows ==
    ASSUME LogPlace, RunType, run.pc \in Live
    PROVE  sm.rows # <<>> /\ sm.rows \in Seq(Row) /\ sm.attempts \in [State -> Nat]
           /\ run.attempt \in Nat /\ sm = [rows |-> sm.rows, attempts |-> sm.attempts]
<1>1. sm.rows \in Seq(Row) /\ sm.attempts \in [State -> Nat] /\ run.attempt \in Nat
      /\ sm = [rows |-> sm.rows, attempts |-> sm.attempts]
  BY DEF LogPlace, RunType
<1>2. Len(sm.rows) \in {1, 5 * run.attempt + 1, 5 * run.attempt + 2, 5 * run.attempt + 3,
                        5 * run.attempt + 4, 5 * run.attempt + 5}
  BY DEF LogPlace, Live, At
<1>3. Len(sm.rows) # 0
  <2>1. \A n \in Nat : 0 \notin {1, 5 * n + 1, 5 * n + 2, 5 * n + 3, 5 * n + 4, 5 * n + 5}
    OBVIOUS
  <2> QED BY <1>1, <1>2, <2>1
<1> QED BY <1>1, <1>3, EmptySeq

LEMMA CountersType ==
    ASSUME NEW n \in Nat, NEW entered
    PROVE  Counters(n, entered) \in [State -> Nat]
  BY DEF Counters

LEMMA EnterAt ==
    ASSUME LogPlace, sm.rows # <<>>, NEW n \in Nat, NEW rows \in Nat, NEW state, NEW entered,
           At(n, rows, state, entered),
           NEW to \in {"TRIAGING", "PLANNING", "APPLYING", "VERIFYING"} \ entered, Enter(to)
    PROVE  /\ At(n, rows + 1, to, entered \cup {to})' /\ sm'.rows # <<>>
           /\ sm' \in [rows : Seq(Row), attempts : [State -> Nat]]
<1>1. to \in State
  BY DEF State
<1>2. sm'.attempts = [Counters(n, entered) EXCEPT ![to] = @ + 1]
      /\ Len(sm'.rows) = rows + 1 /\ Current' = to
  BY <1>1, EnterRow DEF At
<1>3. [Counters(n, entered) EXCEPT ![to] = @ + 1] = Counters(n, entered \cup {to})
  BY <1>1 DEF Counters
<1> QED BY <1>1, <1>2, <1>3, EnterRow DEF At

(* The cycle ends without success: nothing has to be shown but the log.    *)
LEMMA EndPlace ==
    ASSUME IInv, run.pc \in Live, UNCHANGED <<gitVars, post, base, before>>,
           fix' = FixIdle, RunType', run'.args = run.args,
           run'.pc = "raised" \/ (run'.pc = "returned" /\ run'.exit # 0),
           LogPlace'
    PROVE  IInv'
<1> USE DEF IInv
<1>1. GitPlace'
  BY RepoQuiet DEF GitPlace, gitVars
<1>2. FixPlace' /\ PostPlace'
  BY IdleFrames DEF PostPlace, PostTypeOK
<1>3. RunPlace'
  BY DEF RunPlace, Live
<1>4. ~NewFixes /\ ~NewFixes'
  BY DEF FixesPlace, NewFixes, Live, gitVars
<1>5. FixesPlace' /\ ChangePlace'
  BY <1>4 DEF FixesPlace, NewFixes, ChangePlace, Live
<1>6. RecoveryPlace'
  BY DEF RecoveryPlace, NewRecovery, Captured, NotCaptured, gitVars, Live
<1> QED BY <1>1, <1>2, <1>3, <1>5, <1>6

(* The cycle moves on to its next phase before anything was changed in it. *)
Early == {"scan", "triage", "plan", "patches", "decide"}

LEMMA EarlyPlace ==
    ASSUME IInv, run.pc \in Early, UNCHANGED <<gitVars, fix, post, base, before>>,
           RunType', run'.pc \in Early \ {"scan"}, run'.args = run.args,
           run'.captured = run.captured, run'.applied = run.applied, LogPlace'
    PROVE  IInv'
<1> USE DEF IInv, Early
<1>1. GitPlace'
  BY RepoQuiet DEF GitPlace, gitVars
<1>2. FixPlace' /\ PostPlace'
  BY IdleFrames DEF RunPlace, PostPlace, PostTypeOK
<1>3. RunPlace'
  BY DEF RunPlace, Live
<1>4. ~NewFixes /\ ~NewFixes'
  BY DEF FixesPlace, NewFixes, gitVars
<1>5. FixesPlace' /\ ChangePlace'
  BY <1>4 DEF FixesPlace, NewFixes, ChangePlace, Live, gitVars
<1>6. RecoveryPlace'
  <2>1. NewRecovery' = NewRecovery
    BY DEF NewRecovery, gitVars
  <2>2. Captured' => Captured
    BY DEF Captured, RunPlace
  <2>3. NotCaptured' => NotCaptured
    BY DEF NotCaptured
  <2> QED BY <2>1, <2>2, <2>3 DEF RecoveryPlace, gitVars
<1> QED BY <1>1, <1>2, <1>3, <1>5, <1>6
-----------------------------------------------------------------------------
(* The phases before the fix pass.                                         *)
LEMMA FailPlace ==
    ASSUME IInv, run.pc \in {"scan", "rescan"}, Fail, UNCHANGED <<gitVars, fix, post, base, before>>
    PROVE  IInv'
<1>1. run' = [run EXCEPT !.pc = "returned", !.exit = 1] /\ Enter("FAILED") /\ fix = FixIdle
  BY DEF Fail, RunReturn, IInv, RunPlace
<1>2. RunType' /\ run'.pc = "returned" /\ run'.exit = 1 /\ run'.args = run.args
  BY <1>1 DEF IInv, RunPlace, RunType, RunPc, Live
<1>3. sm.rows # <<>> /\ "FAILED" \in State
  BY Rows DEF IInv, RunPlace, Live, State
<1>4. /\ sm' \in [rows : Seq(Row), attempts : [State -> Nat]]
      /\ Current' = "FAILED" /\ sm'.rows # <<>>
  BY <1>1, <1>3, EnterRow DEF IInv
<1>5. LogPlace'
  BY <1>2, <1>4 DEF LogPlace, ExitMatchesLog, Live
<1> QED BY <1>1, <1>2, <1>5, EndPlace DEF Live

LEMMA RaisesPlace ==
    ASSUME IInv, RunRaises PROVE IInv'
<1>1. PICK to \in NextStates : sm' = [sm EXCEPT !.attempts[to] = @ + 1]
  BY DEF RunRaises
<1>2. run' = [run EXCEPT !.pc = "raised"] /\ fix' = FixIdle
      /\ UNCHANGED <<gitVars, post, base, before>>
  BY DEF RunRaises
<1>3. run.pc \in Live /\ to \in State
  BY <1>1 DEF NextStates, Live, State
<1>4. RunType' /\ run'.pc = "raised" /\ run'.args = run.args
  BY <1>2 DEF IInv, RunPlace, RunType, RunPc, Live
<1>5. sm' \in [rows : Seq(Row), attempts : [State -> Nat]]
  <2>1. sm \in [rows : Seq(Row), attempts : [State -> Nat]] /\ sm.attempts[to] + 1 \in Nat
    BY <1>3 DEF IInv, LogPlace
  <2> QED BY <1>1, <1>3, <2>1
<1>6. LogPlace'
  BY <1>4, <1>5 DEF LogPlace, ExitMatchesLog, Live
<1> QED BY <1>2, <1>3, <1>4, <1>6, EndPlace

LEMMA ReportType ==
    ASSUME NEW report \in Reports
    PROVE  /\ report \in Seq(Finding) /\ Dedup(report, DOMAIN report) \subseteq DOMAIN report
           /\ Dedup(report, DOMAIN report) \in SUBSET Nat
  BY RunAssumption DEF Dedup

LEMMA ScanPlace ==
    ASSUME IInv, RunScan PROVE IInv'
<1>1. run.pc = "scan" /\ UNCHANGED <<gitVars, fix, post, base, before>>
  BY DEF RunScan, fixVars
<1>2. CASE Fail
  BY <1>1, <1>2, FailPlace
<1>3. CASE ~Fail
  <2>1. PICK report \in Reports :
            run' = [run EXCEPT !.pc = "triage", !.findings = report,
                               !.kept = Dedup(report, DOMAIN report)]
    BY <1>3 DEF RunScan
  <2>2. sm' = sm
    BY <1>3 DEF RunScan
  <2>3. RunType' /\ run'.pc = "triage" /\ run'.args = run.args /\ run'.attempt = run.attempt
        /\ run'.captured = run.captured /\ run'.applied = run.applied
    BY <2>1, ReportType DEF IInv, RunPlace, RunType, RunPc, Live
  <2>4. /\ sm \in [rows : Seq(Row), attempts : [State -> Nat]]
        /\ run.attempt = 0 /\ At(0, 1, "SCANNING", {})
    BY <1>1 DEF IInv, LogPlace
  <2>5. At(0, 1, "SCANNING", {})'
    BY <2>2, <2>4 DEF At, Current
  <2>6. LogPlace'
    BY <2>2, <2>3, <2>4, <2>5 DEF LogPlace, ExitMatchesLog
  <2> QED BY <1>1, <2>3, <2>6, EarlyPlace DEF Early
<1> QED BY <1>2, <1>3

LEMMA TriagePlace ==
    ASSUME IInv, RunTriage \/ RunPlan PROVE IInv'
<1>1. RunType /\ LogPlace /\ UNCHANGED <<gitVars, fix, post, base, before>>
  BY DEF IInv, RunPlace, RunTriage, RunPlan, fixVars
<1>2. CASE RunTriage
  <2>1. run.pc = "triage" /\ Enter("TRIAGING")
        /\ run' = [run EXCEPT !.pc = "plan", !.tasks = LLMTasks(run.findings, run.kept)]
    BY <1>2 DEF RunTriage
  <2>2. LLMTasks(run.findings, run.kept) \in SUBSET Nat
    BY <1>1 DEF LLMTasks, RunType
  <2>3. RunType' /\ run'.pc = "plan" /\ run'.args = run.args /\ run'.attempt = run.attempt
        /\ run'.captured = run.captured /\ run'.applied = run.applied
    BY <1>1, <2>1, <2>2 DEF RunType, RunPc, Live
  <2>4. run.attempt \in Nat /\ sm.rows # <<>>
    BY <1>1, <2>1, Rows DEF Live
  <2>9. PICK n \in Nat : n = run.attempt
    BY <2>4
  <2>8. PICK state : state = IF n = 0 THEN "SCANNING" ELSE "RETRY"
    OBVIOUS
  <2>10. At(n, 5 * n + 1, state, {}) /\ 5 * n + 1 \in Nat
    <3>1. At(run.attempt, 5 * run.attempt + 1,
             IF run.attempt = 0 THEN "SCANNING" ELSE "RETRY", {})
      BY <1>1, <2>1 DEF LogPlace
    <3> QED BY <2>8, <2>9, <3>1
  <2>5. PICK rows, entered :
           /\ rows \in Nat /\ rows = 5 * n + 1 /\ entered = {}
           /\ At(n, rows, state, entered)
    BY <2>10
  <2>6. /\ At(n, 5 * n + 2, "TRIAGING", {"TRIAGING"})'
        /\ sm' \in [rows : Seq(Row), attempts : [State -> Nat]]
    <3>1. "TRIAGING" \in {"TRIAGING", "PLANNING", "APPLYING", "VERIFYING"} \ entered
      BY <2>5
    <3>2. /\ At(n, rows + 1, "TRIAGING", entered \cup {"TRIAGING"})'
          /\ sm' \in [rows : Seq(Row), attempts : [State -> Nat]]
      BY <1>1, <2>1, <2>4, <2>5, <3>1, EnterAt
    <3>3. rows + 1 = 5 * n + 2 /\ entered \cup {"TRIAGING"} = {"TRIAGING"}
      BY <2>5
    <3> QED BY <3>2, <3>3
  <2>7. LogPlace'
    BY <2>3, <2>6, <2>9 DEF LogPlace, ExitMatchesLog
  <2> QED BY <1>1, <2>1, <2>3, <2>7, EarlyPlace DEF Early
<1>3. CASE RunPlan
  <2>1. run.pc = "plan" /\ Enter("PLANNING") /\ run' = [run EXCEPT !.pc = "patches"]
    BY <1>3 DEF RunPlan
  <2>3. RunType' /\ run'.pc = "patches" /\ run'.args = run.args /\ run'.attempt = run.attempt
        /\ run'.captured = run.captured /\ run'.applied = run.applied
    BY <1>1, <2>1 DEF RunType, RunPc, Live
  <2>4. run.attempt \in Nat /\ sm.rows # <<>>
    BY <1>1, <2>1, Rows DEF Live
  <2>9. PICK n \in Nat : n = run.attempt
    BY <2>4
  <2>8. PICK state : state = "TRIAGING"
    OBVIOUS
  <2>10. At(n, 5 * n + 2, state, {"TRIAGING"}) /\ 5 * n + 2 \in Nat
    BY <1>1, <2>1, <2>8, <2>9 DEF LogPlace
  <2>5. PICK rows, entered :
           /\ rows \in Nat /\ rows = 5 * n + 2 /\ entered = {"TRIAGING"}
           /\ At(n, rows, state, entered)
    BY <2>10
  <2>6. /\ At(n, 5 * n + 3, "PLANNING", {"TRIAGING", "PLANNING"})'
        /\ sm' \in [rows : Seq(Row), attempts : [State -> Nat]]
    <3>1. "PLANNING" \in {"TRIAGING", "PLANNING", "APPLYING", "VERIFYING"} \ entered
      BY <2>5
    <3>2. /\ At(n, rows + 1, "PLANNING", entered \cup {"PLANNING"})'
          /\ sm' \in [rows : Seq(Row), attempts : [State -> Nat]]
      BY <1>1, <2>1, <2>4, <2>5, <3>1, EnterAt
    <3>3. rows + 1 = 5 * n + 3 /\ entered \cup {"PLANNING"} = {"TRIAGING", "PLANNING"}
      BY <2>5
    <3> QED BY <3>2, <3>3
  <2>7. LogPlace'
    BY <2>3, <2>6, <2>9 DEF LogPlace, ExitMatchesLog
  <2> QED BY <1>1, <2>1, <2>3, <2>7, EarlyPlace DEF Early
<1> QED BY <1>2, <1>3

LEMMA PatchesPlace ==
    ASSUME IInv, RunPatches PROVE IInv'
<1>1. RunType /\ LogPlace /\ UNCHANGED <<gitVars, fix, post, sm, base, before>>
      /\ run.pc = "patches"
  BY DEF IInv, RunPlace, RunPatches
<1>2. \/ run' = [run EXCEPT !.pc = "decide"]
      \/ run' = [run EXCEPT !.tasks = @ \ {Min(@)}]
  BY DEF RunPatches
<1>3. run.tasks \ {Min(run.tasks)} \in SUBSET Nat
  BY <1>1 DEF RunType
<1>4. RunType' /\ run'.pc \in {"patches", "decide"} /\ run'.args = run.args
      /\ run'.attempt = run.attempt
      /\ run'.captured = run.captured /\ run'.applied = run.applied
  <2>1. CASE run' = [run EXCEPT !.pc = "decide"]
    BY <1>1, <2>1 DEF RunType, RunPc, Live
  <2>2. CASE run' = [run EXCEPT !.tasks = @ \ {Min(@)}]
    BY <1>1, <1>3, <2>2 DEF RunType, RunPc, Live
  <2> QED BY <1>2, <2>1, <2>2
<1>5. LogPlace'
  <2>1. At(run.attempt, 5 * run.attempt + 3, "PLANNING", {"TRIAGING", "PLANNING"})
        /\ sm \in [rows : Seq(Row), attempts : [State -> Nat]]
    BY <1>1 DEF LogPlace
  <2>2. At(run.attempt, 5 * run.attempt + 3, "PLANNING", {"TRIAGING", "PLANNING"})'
    BY <1>1, <1>4, <2>1 DEF At, Current
  <2> QED BY <1>1, <1>4, <2>1, <2>2 DEF LogPlace, ExitMatchesLog
<1> QED BY <1>1, <1>4, <1>5, EarlyPlace DEF Early

LEMMA ReviewPlace ==
    ASSUME IInv, RunReview PROVE IInv'
<1>1. run.pc = "decide" /\ Enter("HUMAN_REVIEW") /\ run' = [run EXCEPT !.pc = "returned", !.exit = 3]
      /\ UNCHANGED <<gitVars, fix, post, base, before>> /\ fix = FixIdle
  BY DEF RunReview, RunReturn, fixVars, IInv, RunPlace
<1>2. RunType' /\ run'.pc = "returned" /\ run'.exit = 3 /\ run'.args = run.args
  BY <1>1 DEF IInv, RunPlace, RunType, RunPc, Live
<1>4. /\ sm' \in [rows : Seq(Row), attempts : [State -> Nat]]
      /\ Current' = "HUMAN_REVIEW" /\ sm'.rows # <<>>
  BY <1>1, Rows, EnterRow DEF IInv, RunPlace, Live, State
<1>5. LogPlace'
  BY <1>2, <1>4 DEF LogPlace, ExitMatchesLog, Live
<1> QED BY <1>1, <1>2, <1>5, EndPlace DEF Live
-----------------------------------------------------------------------------
(* A cycle begins and ends.                                                *)
LEMMA IdleLog ==
    /\ smIdle \in [rows : Seq(Row), attempts : [State -> Nat]]
    /\ smIdle.rows = <<>>
  BY DEF smIdle

LEMMA StartPlace ==
    ASSUME IInv, RunStart PROVE IInv'
<1> USE DEF IInv
<1>1. /\ run.pc = "idle" /\ UNCHANGED <<gitVars, fix, post>> /\ base' = tree /\ before' = refs
      /\ fix = FixIdle /\ post = PostIdle /\ run.args \in ArgChoices
  BY DEF RunStart, fixVars, RunPlace, RunType
<1>2. GitPlace'
  BY <1>1, RepoQuiet DEF GitPlace, Repo, GitTypeOK, gitVars
<1>3. FixPlace' /\ PostPlace'
  BY <1>1, IdleFrames
<1>4. PICK pc \in {"returned", "scan", "raised"} :
         /\ pc = "returned" => run' = [run EXCEPT !.pc = "returned", !.exit = 2] /\ sm' = smIdle
         /\ pc # "returned" => run' = [RunIdle(run.args) EXCEPT !.pc = pc]
         /\ pc = "raised" => sm' = smIdle
         /\ pc = "scan" => sm' = [rows |-> <<InitialRow>>,
                                  attempts |-> [s \in State |-> IF s = "SCANNING" THEN 1 ELSE 0]]
  BY DEF RunStart, RunReturn
<1>5. RunType' /\ run'.pc = pc /\ (pc = "returned" => run'.exit = 2)
      /\ (pc = "scan" => run'.applied = {} /\ ~run'.captured /\ run'.attempt = 0)
  <2>1. CASE pc = "returned"
    BY <1>4, <2>1 DEF RunPlace, RunType, RunPc
  <2>2. CASE pc # "returned"
    <3>1. run' = [pc |-> pc, args |-> run.args, findings |-> <<>>, kept |-> {}, tasks |-> {},
                  attempt |-> 0, captured |-> FALSE, applied |-> {}, postIds |-> {},
                  fixExit |-> 0, exit |-> 0]
      BY <1>4, <2>2 DEF RunIdle
    <3>2. pc \in RunPc /\ <<>> \in Seq(Finding)
      BY DEF RunPc, Live
    <3> QED BY <1>1, <2>2, <3>1, <3>2 DEF RunType
  <2> QED BY <2>1, <2>2
<1>6. LogPlace'
  <2>1. CASE pc = "scan"
    <3>1. sm' \in [rows : Seq(Row), attempts : [State -> Nat]]
      <4>1. InitialRow \in Row
        BY DEF InitialRow, Row, State, None
      <4>2. <<InitialRow>> \in Seq(Row)
        BY <4>1
      <4>3. [s \in State |-> IF s = "SCANNING" THEN 1 ELSE 0] \in [State -> Nat]
        OBVIOUS
      <4> QED BY <1>4, <2>1, <4>2, <4>3
    <3>2. At(0, 1, "SCANNING", {})'
      <4>1. sm'.attempts = Counters(0, {})
        BY <1>4, <2>1 DEF Counters
      <4>2. Len(sm'.rows) = 1 /\ Current' = "SCANNING"
        BY <1>4, <2>1 DEF Current, InitialRow
      <4>3. 0 <= MaxRetries
        BY RunAssumption
      <4> QED BY <4>1, <4>2, <4>3 DEF At
    <3> QED BY <1>5, <2>1, <3>1, <3>2 DEF LogPlace, ExitMatchesLog
  <2>2. CASE pc # "scan"
    BY <1>4, <1>5, <2>2, IdleLog DEF LogPlace, ExitMatchesLog
  <2> QED BY <2>1, <2>2
<1>7. RunPlace'
  BY <1>1, <1>5 DEF RunPlace, Live
<1>8. NewRecovery' = {} /\ tree' = base' /\ ~NewFixes'
  BY <1>1 DEF NewRecovery, NewFixes, gitVars
<1>9. RecoveryPlace'
  BY <1>1, <1>5, <1>8 DEF RecoveryPlace, Captured, NotCaptured
<1>10. FixesPlace' /\ ChangePlace'
  BY <1>8 DEF FixesPlace, ChangePlace, NewFixes
<1> QED BY <1>2, <1>3, <1>6, <1>7, <1>9, <1>10

LEMMA NextCyclePlace ==
    ASSUME IInv, RunNextCycle PROVE IInv'
<1> USE DEF IInv
<1>1. /\ run.pc \in {"raised", "returned"} /\ UNCHANGED <<gitVars, fix, post, base, before>>
      /\ run' = RunIdle(run.args) /\ sm' = smIdle
      /\ fix = FixIdle /\ post = PostIdle /\ run.args \in ArgChoices
  BY DEF RunNextCycle, fixVars, RunPlace, RunType
<1>2. GitPlace'
  BY <1>1, RepoQuiet DEF GitPlace, gitVars
<1>3. FixPlace' /\ PostPlace'
  BY <1>1, IdleFrames
<1>4. RunType' /\ run'.pc = "idle"
  BY <1>1 DEF RunIdle, RunType, RunPc
<1>5. LogPlace'
  BY <1>1, <1>4, IdleLog DEF LogPlace, ExitMatchesLog
<1>6. RunPlace' /\ RecoveryPlace' /\ FixesPlace' /\ ChangePlace'
  BY <1>1, <1>4 DEF RunPlace, RecoveryPlace, FixesPlace, ChangePlace, Live
<1> QED BY <1>2, <1>3, <1>5, <1>6

LEMMA PostedPlace ==
    ASSUME IInv, RunPosted PROVE IInv'
<1> USE DEF IInv
<1>1. /\ run.pc = "post" /\ UNCHANGED <<gitVars, fix, sm, base, before>>
      /\ post' = PostIdle /\ run' = [run EXCEPT !.pc = "returned", !.exit = 0]
      /\ fix = FixIdle
  BY DEF RunPosted, RunReturn, fixVars, RunPlace
<1>2. GitPlace'
  BY <1>1, RepoQuiet DEF GitPlace, gitVars
<1>3. FixPlace' /\ PostPlace'
  BY <1>1, IdleFrames
<1>4. RunType' /\ run'.pc = "returned" /\ run'.exit = 0 /\ run'.args = run.args
      /\ run'.applied = run.applied /\ run'.postIds = run.postIds
  BY <1>1 DEF RunPlace, RunType, RunPc
<1>5. LogPlace'
  <2>1. sm.rows # <<>> /\ Current = "DONE" /\ sm \in [rows : Seq(Row), attempts : [State -> Nat]]
    BY <1>1 DEF LogPlace
  <2> QED BY <1>1, <1>4, <2>1 DEF LogPlace, ExitMatchesLog, Current
<1>6. RunPlace'
  BY <1>1, <1>4 DEF RunPlace, Live
<1>7. run.applied # {} /\ run.applied \cap run.postIds = {}
  BY <1>1 DEF RunPlace
<1>8. FixesPlace' /\ ChangePlace'
  BY <1>4, <1>7 DEF FixesPlace, ChangePlace
<1>9. RecoveryPlace'
  BY <1>1, <1>4 DEF RecoveryPlace, NewRecovery, Captured, NotCaptured, gitVars
<1> QED BY <1>2, <1>3, <1>5, <1>6, <1>8, <1>9

LEMMA PostingPlace ==
    ASSUME IInv, RunPost PROVE IInv'
<1> USE DEF IInv
<1>1. run.pc = "post" /\ PostStep /\ UNCHANGED <<fix, run, sm, base, before>> /\ fix = FixIdle
  BY DEF RunPost, fixVars, runVars, RunPlace
<1>2. PostOutcome
  BY <1>1, PostStepOutcome DEF GitPlace
<1>3. GitPlace' /\ PostPlace'
  BY <1>1, <1>2 DEF GitPlace, PostOutcome
<1>4. FixPlace'
  BY <1>1, IdleFrames
<1>5. LogPlace'
  BY <1>1 DEF LogPlace, At, Current, ExitMatchesLog
<1>6. RunPlace'
  BY <1>1 DEF RunPlace, RunType
<1>7. FixesPlace' /\ ChangePlace'
  BY <1>1 DEF FixesPlace, ChangePlace, RunPlace, Live
<1>8. RecoveryPlace'
  <2>1. NewRecovery' = NewRecovery /\ \A b \in NewRecovery : refs'[b] = refs[b]
    BY <1>1, <1>2 DEF NewRecovery, PostOutcome
  <2>2. run.applied # {}
    BY <1>1 DEF RunPlace
  <2> QED BY <1>1, <2>1, <2>2 DEF RecoveryPlace, Captured, NotCaptured
<1> QED BY <1>3, <1>4, <1>5, <1>6, <1>7, <1>8

LEMMA CommitsPlace ==
    ASSUME IInv, OperatorCommits PROVE IInv'
<1> USE DEF IInv
<1>1. /\ index' = tree /\ refs' = [refs EXCEPT ![head] = tree]
      /\ UNCHANGED <<head, tree, fix, post, run, sm, base, before>>
  BY DEF OperatorCommits, fixVars
<1>2. head \in Place \ RecoveryBranch /\ refs[head] # NoRef /\ tree \in Snapshot /\ SameFiles(tree)
  BY DEF GitPlace, Repo, GitTypeOK, Place
<1>3. Repo' /\ \A b \in RecoveryBranch : refs'[b] = refs[b]
  BY <1>1, <1>2, RefMoves DEF GitPlace
<1>4. GitPlace'
  BY <1>1, <1>3 DEF GitPlace
<1>5. FixPlace' /\ PostPlace'
  BY <1>1 DEF FixPlace, FixType, NextFile, PostPlace, PostTypeOK
<1>6. LogPlace' /\ RunPlace'
  BY <1>1 DEF LogPlace, At, Current, ExitMatchesLog, RunPlace, RunType
<1>7. FixesPlace' /\ ChangePlace'
  <2>1. \A b \in FixesBranch : refs'[b] # NoRef => refs[b] # NoRef
    BY <1>1, <1>2, Names DEF GitPlace, Repo, GitTypeOK
  <2> QED BY <1>1, <2>1 DEF FixesPlace, ChangePlace
<1>8. RecoveryPlace'
  <2>1. NewRecovery' = NewRecovery /\ \A b \in NewRecovery : refs'[b] = refs[b]
    BY <1>1, <1>3 DEF NewRecovery
  <2>2. refs'[head] = tree
    BY <1>1, <1>2 DEF GitPlace, Repo, GitTypeOK, Place
  <2> QED BY <1>1, <2>1, <2>2 DEF RecoveryPlace, Captured, NotCaptured
<1> QED BY <1>4, <1>5, <1>6, <1>7, <1>8
-----------------------------------------------------------------------------
(* The fix pass and the scan that verifies it.                             *)
LEMMA ApplyPlace ==
    ASSUME IInv, RunApply PROVE IInv'
<1> USE DEF IInv
<1> DEFINE flags == [NoFlags EXCEPT !.apply = TRUE, !.auto = run.args.auto,
                                    !.captured = run.captured]
<1>1. /\ run.pc = "decide" /\ Enter("APPLYING") /\ RunType
      /\ FixStart(flags, run.findings, run.kept)
      /\ run' = [run EXCEPT !.pc = "fixing"] /\ UNCHANGED <<gitVars, post, base, before>>
      /\ post = PostIdle
  BY DEF RunApply, FixStart, RunPlace
<1>2. flags \in Flags
  BY <1>1, Arguments DEF RunType
<1> HIDE DEF flags
<1>3. FixPlace' /\ fix'.pc \in {"done", "status"} /\ fix'.applied = {} /\ fix'.flags = flags
  BY <1>1, <1>2, FixStartOutcome DEF RunType
<1>4. RunType' /\ run'.pc = "fixing" /\ run'.args = run.args /\ run'.captured = run.captured
      /\ run'.applied = run.applied /\ run'.attempt = run.attempt
  BY <1>1 DEF RunType, RunPc, Live
<1>5. LogPlace'
  <2>1. PICK n \in Nat : n = run.attempt
    BY <1>1 DEF RunType
  <2>2. At(n, 5 * n + 3, "PLANNING", {"TRIAGING", "PLANNING"}) /\ 5 * n + 3 \in Nat
    BY <1>1, <2>1 DEF LogPlace
  <2>3. PICK rows, entered :
           /\ rows \in Nat /\ rows = 5 * n + 3 /\ entered = {"TRIAGING", "PLANNING"}
           /\ At(n, rows, "PLANNING", entered)
    BY <2>2
  <2>4. "APPLYING" \in {"TRIAGING", "PLANNING", "APPLYING", "VERIFYING"} \ entered
    BY <2>3
  <2>5. sm.rows # <<>>
    BY <1>1, Rows DEF Live
  <2>6. /\ At(n, rows + 1, "APPLYING", entered \cup {"APPLYING"})'
        /\ sm' \in [rows : Seq(Row), attempts : [State -> Nat]]
    BY <1>1, <2>3, <2>4, <2>5, EnterAt
  <2>7. rows + 1 = 5 * n + 4 /\ entered \cup {"APPLYING"} = {"TRIAGING", "PLANNING", "APPLYING"}
    BY <2>3
  <2>8. At(n, 5 * n + 4, "APPLYING", {"TRIAGING", "PLANNING", "APPLYING"})'
    BY <2>6, <2>7
  <2> QED BY <1>4, <2>1, <2>6, <2>8 DEF LogPlace, ExitMatchesLog
<1>6. GitPlace' /\ PostPlace'
  BY <1>1, RepoQuiet DEF GitPlace, gitVars, PostPlace, PostTypeOK
<1>7. RunPlace'
  BY <1>1, <1>3, <1>4 DEF RunPlace, flags, Live
<1>8. ~NewFixes /\ ~NewFixes'
  BY <1>1 DEF FixesPlace, NewFixes, gitVars
<1>9. FixesPlace' /\ ChangePlace'
  <2>1. fix = FixIdle /\ fix.applied = {}
    BY <1>1 DEF RunPlace, FixIdle
  <2> QED BY <1>1, <1>4, <1>8, <2>1 DEF FixesPlace, NewFixes, ChangePlace, Live, gitVars
<1>10. RecoveryPlace'
  <2>1. NewRecovery' = NewRecovery
    BY <1>1 DEF NewRecovery, gitVars
  <2>2. Captured' => Captured
    BY <1>1, <1>3, <1>4 DEF Captured
  <2>3. NotCaptured' => NotCaptured /\ fix'.pc # "branch"
    BY <1>1, <1>3, <1>4 DEF NotCaptured
  <2> QED BY <1>1, <1>4, <2>1, <2>2, <2>3 DEF RecoveryPlace, gitVars
<1> QED BY <1>3, <1>5, <1>6, <1>7, <1>9, <1>10

(* A clean tree that lost and gained no file is as HEAD has it.            *)
LEMMA CleanTree ==
    ASSUME Repo, ~Dirty PROVE refs[head] = tree
<1>1. refs[head] \in Snapshot /\ tree \in Snapshot /\ index \in Snapshot
      /\ SameFiles(tree) /\ SameFiles(index)
  BY DEF Repo, GitTypeOK
<1>2. \A f \in File : tree[f] = refs[head][f]
  BY <1>1 DEF Dirty, DirtyPath, SameFiles
<1> QED BY <1>1, <1>2 DEF Snapshot

LEMMA FixingPlace ==
    ASSUME IInv, RunFixing PROVE IInv'
<1> USE DEF IInv
<1>1. run.pc = "fixing" /\ FixStep /\ UNCHANGED <<post, run, sm, base, before>> /\ post = PostIdle
  BY DEF RunFixing, runVars, RunPlace
<1>2. FixOutcome
  BY <1>1, FixStepOutcome DEF GitPlace, Repo
<1>3. /\ fix.flags.apply /\ ~fix.flags.force
      /\ fix.flags.auto = run.args.auto /\ fix.flags.captured = run.captured
      /\ fix'.flags = fix.flags /\ fix'.pc # "idle" /\ run.args \in ArgChoices
      /\ run.args.auto \in BOOLEAN /\ run.captured \in BOOLEAN
  <2>1. fix.flags = [NoFlags EXCEPT !.apply = TRUE, !.auto = run.args.auto,
                                    !.captured = run.captured]
        /\ run.args \in ArgChoices /\ run.captured \in BOOLEAN
    BY <1>1 DEF RunPlace, RunType
  <2> QED BY <1>2, <2>1, Arguments DEF NoFlags, FixOutcome
<1>4. Repo' /\ (\A b \in RecoveryBranch : refs'[b] = NoRef => refs[b] = NoRef)
      /\ \A b \in FixesBranch : refs'[b] = refs[b]
  <2>0. Repo /\ UNCHANGED <<head, index>>
    BY <1>2 DEF GitPlace, FixOutcome
  <2>1. CASE FixQuiet
    BY <2>0, <2>1, RepoQuiet DEF FixQuiet, gitVars
  <2>2. CASE FixBranches
    <3>1. PICK b \in RecoveryBranch : refs[b] = NoRef /\ refs' = [refs EXCEPT ![b] = refs[head]]
      BY <2>2 DEF FixBranches
    <3>2. refs[head] \in Snapshot /\ refs[head] # NoRef /\ SameFiles(refs[head]) /\ b # head
          /\ b \in Place
      BY <2>0, Names DEF Repo, GitTypeOK, Place
    <3>3. tree' = tree
      BY <2>2 DEF FixBranches
    <3>4. GitTypeOK'
      BY <2>0, <3>1, <3>2, <3>3 DEF Repo, GitTypeOK, Place
    <3>5. SameFiles(tree)' /\ SameFiles(index)'
      BY <2>0, <3>3 DEF Repo, SameFiles
    <3>6. refs'[b] = refs[head] /\ \A c \in Place : c # b => refs'[c] = refs[c]
      BY <2>0, <3>1, <3>2 DEF Repo, GitTypeOK, Place
    <3>7. \A c \in Place : refs'[c] # NoRef => SameFiles(refs'[c])
      BY <2>0, <3>2, <3>6 DEF Repo
    <3>8. Repo'
      BY <2>0, <3>4, <3>5, <3>7 DEF Repo, SameFiles
    <3> QED BY <3>2, <3>6, <3>8, Names DEF Place
  <2>3. CASE FixWrites
    <3>1. PICK p \in File, c \in Content : tree[p] # Absent /\ tree' = [tree EXCEPT ![p] = c]
      BY <2>3 DEF FixWrites
    <3>2. refs' = refs
      BY <2>3 DEF FixWrites
    <3>3. tree' \in Snapshot
      BY <2>0, <3>1 DEF Repo, GitTypeOK, Snapshot
    <3>4. SameFiles(tree)'
      BY <2>0, <3>1, GitAssumption DEF Repo, GitTypeOK, Snapshot, SameFiles
    <3> QED BY <2>0, <3>2, <3>3, <3>4 DEF Repo, GitTypeOK, SameFiles
  <2> QED BY <1>2, <2>1, <2>2, <2>3 DEF FixOutcome
<1>5. GitPlace'
  BY <1>1, <1>4 DEF GitPlace
<1>6. FixPlace' /\ PostPlace'
  BY <1>1, <1>2 DEF FixOutcome, PostPlace, PostTypeOK
<1>7. LogPlace' /\ RunPlace'
  BY <1>1, <1>3 DEF LogPlace, At, Current, ExitMatchesLog, RunPlace, RunType
<1>8. FixesPlace'
  BY <1>1, <1>4 DEF FixesPlace
<1>9. ChangePlace'
  BY <1>1, <1>2 DEF ChangePlace, FixOutcome, FixQuiet, FixBranches, FixWrites, Live
<1>10. RecoveryPlace'
  <2> SUFFICES ASSUME run.args.auto PROVE RecoveryPlace'
    BY <1>1 DEF RecoveryPlace
  <2>1. /\ \A b \in NewRecovery : refs[b] = base
        /\ \A b, c \in NewRecovery : b = c
        /\ tree # base => NewRecovery # {}
        /\ Captured => NewRecovery # {}
        /\ NotCaptured => NewRecovery = {}
        /\ NotCaptured /\ fix.pc = "branch" => refs[head] = base
    BY <1>1 DEF RecoveryPlace
  <2>2. CASE FixQuiet /\ ~FixBranches
    <3>1. NewRecovery' = NewRecovery
      BY <1>1, <2>2 DEF NewRecovery, FixQuiet
    <3>2. Captured' => Captured
      <4>1. fix'.pc \in Beyond /\ ~run.captured => fix.pc \in Beyond
        BY <1>2, <1>3, <2>2 DEF FixOutcome
      <4>2. fix'.pc = "done" /\ fix'.applied # {} => fix.pc \in Beyond
        BY <1>2 DEF FixOutcome
      <4>3. Captured' => run.captured \/ fix'.pc \in Beyond
                        \/ (fix'.pc = "done" /\ fix'.applied # {})
        BY <1>1 DEF Captured, Beyond
      <4>4. run.captured \/ fix.pc \in Beyond => Captured
        BY <1>1 DEF Captured, Beyond
      <4> QED BY <4>1, <4>2, <4>3, <4>4
    <3>3. NotCaptured' => NotCaptured /\ fix.pc = "status" /\ fix'.pc = "branch" /\ ~Dirty
      BY <1>1, <1>2, <1>3 DEF NotCaptured, FixOutcome
    <3>4. NotCaptured' => refs[head] = base
      BY <2>1, <3>3, CleanTree DEF GitPlace
    <3>5. head' = head /\ refs' = refs /\ tree' = tree
      BY <1>2, <2>2 DEF FixOutcome, FixQuiet
    <3> QED BY <1>1, <2>1, <3>1, <3>2, <3>3, <3>4, <3>5 DEF RecoveryPlace
  <2>3. CASE FixBranches
    <3>1. PICK b \in RecoveryBranch : refs[b] = NoRef /\ refs' = [refs EXCEPT ![b] = refs[head]]
      BY <2>3 DEF FixBranches
    <3>2. fix.pc = "branch" /\ fix'.pc = "classify" /\ ~run.captured
      BY <1>3, <2>3 DEF FixBranches
    <3>3. NotCaptured /\ NewRecovery = {} /\ refs[head] = base
      BY <1>1, <2>1, <3>2 DEF NotCaptured
    <3>4. refs[head] # NoRef /\ before[b] = NoRef
          /\ refs'[b] = base /\ \A c \in RecoveryBranch : c # b => refs'[c] = refs[c]
      BY <3>1, <3>3, Names DEF GitPlace, Repo, GitTypeOK
    <3>5. NewRecovery' = {b}
      BY <1>1, <3>1, <3>3, <3>4 DEF NewRecovery
    <3>6. ~NotCaptured'
      BY <1>1, <3>2 DEF NotCaptured
    <3> QED BY <1>1, <3>4, <3>5, <3>6 DEF RecoveryPlace
  <2>4. CASE FixWrites
    <3>1. Captured
      BY <1>1, <2>4 DEF FixWrites, Captured
    <3>2. NewRecovery' = NewRecovery /\ refs' = refs
      BY <1>1, <2>4 DEF NewRecovery, FixWrites
    <3>3. ~NotCaptured'
      BY <1>1, <2>4 DEF NotCaptured, FixWrites
    <3> QED BY <1>1, <2>1, <3>1, <3>2, <3>3 DEF RecoveryPlace
  <2> QED BY <1>2, <2>2, <2>3, <2>4 DEF FixOutcome
<1> QED BY <1>5, <1>6, <1>7, <1>8, <1>9, <1>10

LEMMA FixedPlace ==
    ASSUME IInv, RunFixed PROVE IInv'
<1> USE DEF IInv
<1>1. /\ run.pc = "fixing" /\ fix.pc = "done" /\ fix' = FixIdle /\ RunType /\ post = PostIdle
      /\ UNCHANGED <<gitVars, post, base, before>>
      /\ fix.flags.auto = run.args.auto /\ fix.flags.captured = run.captured
      /\ run.args \in ArgChoices /\ run.args.auto \in BOOLEAN /\ run.captured \in BOOLEAN
  <2>1. /\ run.pc = "fixing" /\ fix.pc = "done" /\ fix' = FixIdle /\ RunType /\ post = PostIdle
        /\ UNCHANGED <<gitVars, post, base, before>>
        /\ fix.flags = [NoFlags EXCEPT !.apply = TRUE, !.auto = run.args.auto,
                                      !.captured = run.captured]
        /\ run.args \in ArgChoices /\ run.captured \in BOOLEAN
    BY DEF RunFixed, RunPlace, RunType
  <2> QED BY <2>1, Arguments DEF NoFlags
<1>2. sm.rows # <<>> /\ "FAILED" \in State
  BY <1>1, Rows DEF RunPlace, Live, State
<1>3. CASE fix.exit # 0
  <2>1. Enter("FAILED")
        /\ run' = [run EXCEPT !.pc = "returned", !.exit = 1, !.fixExit = fix.exit,
                              !.captured = @ \/ run.args.auto]
    BY <1>3 DEF RunFixed
  <2>2. RunType' /\ run'.pc = "returned" /\ run'.exit = 1 /\ run'.args = run.args
    BY <1>1, <2>1 DEF RunType, RunPc
  <2>3. /\ sm' \in [rows : Seq(Row), attempts : [State -> Nat]]
        /\ Current' = "FAILED" /\ sm'.rows # <<>>
    BY <1>2, <2>1, EnterRow
  <2>4. LogPlace'
    BY <2>2, <2>3 DEF LogPlace, ExitMatchesLog, Live
  <2> QED BY <1>1, <2>2, <2>4, EndPlace DEF Live
<1>4. CASE fix.exit = 0
  <2>1. Enter("VERIFYING")
        /\ run' = [run EXCEPT !.pc = "rescan", !.captured = @ \/ run.args.auto,
                              !.applied = @ \cup fix.applied]
    BY <1>4 DEF RunFixed
  <2>2. RunType' /\ run'.pc = "rescan" /\ run'.args = run.args /\ run'.attempt = run.attempt
        /\ run'.captured = (run.captured \/ run.args.auto)
        /\ run'.applied = run.applied \cup fix.applied
    BY <1>1, <2>1 DEF RunType, RunPc, Live
  <2>3. PICK n \in Nat : n = run.attempt
    BY <1>1 DEF RunType
  <2>4. At(n, 5 * n + 4, "APPLYING", {"TRIAGING", "PLANNING", "APPLYING"}) /\ 5 * n + 4 \in Nat
    BY <1>1, <2>3 DEF LogPlace
  <2>5. PICK rows, entered :
           /\ rows \in Nat /\ rows = 5 * n + 4 /\ entered = {"TRIAGING", "PLANNING", "APPLYING"}
           /\ At(n, rows, "APPLYING", entered)
    BY <2>4
  <2>6. "VERIFYING" \in {"TRIAGING", "PLANNING", "APPLYING", "VERIFYING"} \ entered
    BY <2>5
  <2>7. /\ At(n, rows + 1, "VERIFYING", entered \cup {"VERIFYING"})'
        /\ sm' \in [rows : Seq(Row), attempts : [State -> Nat]]
    BY <1>2, <2>1, <2>5, <2>6, EnterAt
  <2>8. rows + 1 = 5 * n + 5
        /\ entered \cup {"VERIFYING"} = {"TRIAGING", "PLANNING", "APPLYING", "VERIFYING"}
    BY <2>5
  <2>9. At(n, 5 * n + 5, "VERIFYING", {"TRIAGING", "PLANNING", "APPLYING", "VERIFYING"})'
    BY <2>7, <2>8
  <2>10. LogPlace'
    BY <2>2, <2>3, <2>7, <2>9 DEF LogPlace, ExitMatchesLog
  <2>11. GitPlace' /\ FixPlace' /\ PostPlace' /\ fix'.applied = {}
    BY <1>1, RepoQuiet, IdleFrames DEF GitPlace, gitVars
  <2>12. RunPlace'
    BY <1>1, <2>2 DEF RunPlace, Live
  <2>13. FixesPlace'
    <3>1. ~NewFixes
      BY <1>1 DEF FixesPlace, NewFixes
    <3>2. ~NewFixes'
      BY <1>1, <3>1 DEF NewFixes, gitVars
    <3> QED BY <3>2 DEF FixesPlace, NewFixes
  <2>14. ChangePlace'
    BY <1>1, <2>2 DEF ChangePlace, Live, gitVars
  <2>15. RecoveryPlace'
    <3>1. NewRecovery' = NewRecovery
      BY <1>1 DEF NewRecovery, gitVars
    <3>2. run.args.auto /\ Captured' => Captured
      BY <1>1, <2>2 DEF Captured, RunPlace, Live
    <3>3. ~NotCaptured'
      BY <2>2 DEF NotCaptured
    <3> QED BY <1>1, <2>2, <3>1, <3>2, <3>3 DEF RecoveryPlace, gitVars
  <2> QED BY <2>10, <2>11, <2>12, <2>13, <2>14, <2>15
<1> QED BY <1>3, <1>4

(* The scan is clean: the cycle is over, or goes on to the policy.         *)
LEMMA DonePlace ==
    ASSUME IInv, run.pc = "rescan", Enter("DONE"), UNCHANGED <<fix, base, before>>, RunType',
           run'.args = run.args, run'.captured = run.captured, run'.applied = run.applied,
           run.applied \cap run'.postIds = {},
           \/ /\ run'.pc = "returned" /\ run'.exit = 0 /\ UNCHANGED <<gitVars, post>>
              /\ run.applied = {}
           \/ /\ run'.pc = "post" /\ GitPlace' /\ PostPlace' /\ run.applied # {}
              /\ \A b \in RecoveryBranch : refs'[b] = refs[b]
    PROVE  IInv'
<1> USE DEF IInv
<1>1. fix = FixIdle /\ post = PostIdle
  BY DEF RunPlace
<1>2. GitPlace' /\ PostPlace' /\ FixPlace' /\ fix.applied = {}
      /\ \A b \in RecoveryBranch : refs'[b] = refs[b]
  <2>1. FixPlace' /\ fix.applied = {}
    BY <1>1, IdleFrames DEF FixIdle
  <2>2. CASE UNCHANGED <<gitVars, post>>
    BY <2>1, <2>2, RepoQuiet DEF GitPlace, gitVars, PostPlace, PostTypeOK
  <2>3. CASE run'.pc = "post"
    BY <2>1, <2>3
  <2> QED BY <2>2, <2>3
<1>3. sm.rows # <<>> /\ "DONE" \in State
  BY Rows DEF RunPlace, Live, State
<1>4. /\ sm' \in [rows : Seq(Row), attempts : [State -> Nat]]
      /\ Current' = "DONE" /\ sm'.rows # <<>>
  BY <1>3, EnterRow
<1>5. LogPlace'
  BY <1>4 DEF LogPlace, ExitMatchesLog
<1>6. RunPlace'
  BY <1>1 DEF RunPlace, Live
<1>7. FixesPlace'
  <2>1. ~NewFixes
    BY DEF FixesPlace, NewFixes
  <2>2. CASE run'.pc = "returned"
    BY <2>1, <2>2 DEF FixesPlace, NewFixes, gitVars
  <2>3. CASE run'.pc = "post"
    BY <2>3 DEF FixesPlace
  <2> QED BY <2>2, <2>3
<1>8. ChangePlace'
  BY <1>2 DEF ChangePlace, Live, gitVars
<1>9. RecoveryPlace'
  <2>1. NewRecovery' = NewRecovery /\ \A b \in NewRecovery : refs'[b] = refs[b]
    BY <1>2 DEF NewRecovery
  <2>2. Captured' => Captured
    BY DEF Captured
  <2>3. ~NotCaptured'
    BY DEF NotCaptured
  <2>4. tree' # base' => run.applied # {} \/ tree # base
    BY DEF gitVars
  <2>5. run.applied # {} => Captured
    BY DEF Captured
  <2> QED BY <2>1, <2>2, <2>3, <2>4, <2>5 DEF RecoveryPlace
<1> QED BY <1>2, <1>5, <1>6, <1>7, <1>8, <1>9

LEMMA RescanPlace ==
    ASSUME IInv, RunRescan PROVE IInv'
<1> USE DEF IInv
<1>1. /\ run.pc = "rescan" /\ UNCHANGED <<fix, base, before>> /\ RunType /\ post = PostIdle
      /\ run.args \in ArgChoices
  BY DEF RunRescan, fixVars, RunPlace, RunType
<1>2. CASE Fail /\ UNCHANGED <<post, gitVars>>
  BY <1>1, <1>2, FailPlace
<1>3. CASE ~(Fail /\ UNCHANGED <<post, gitVars>>)
  <2> DEFINE ids(report) == {f.id : f \in ToSet(report)}
  <2>1. PICK report \in Reports :
           CASE Unresolved(ids(report)) = {} /\ run.applied = {} ->
                       /\ Enter("DONE")
                       /\ run' = [run EXCEPT !.pc = "returned", !.exit = 0, !.postIds = ids(report)]
                       /\ UNCHANGED <<post, gitVars>>
                  [] Unresolved(ids(report)) = {} /\ run.applied # {} ->
                       /\ Enter("DONE")
                       /\ \E b \in FreshBranch : PostStart(TRUE, run.args.postFix, "None", b)
                       /\ run' = [run EXCEPT !.pc = "post", !.postIds = ids(report)]
                  [] Unresolved(ids(report)) # {} /\ Exhausted ->
                       Fail /\ UNCHANGED <<post, gitVars>>
                  [] OTHER ->
                       /\ Enter("RETRY")
                       /\ run' = [run EXCEPT !.pc = "triage", !.attempt = @ + 1,
                                             !.findings = report,
                                             !.kept = Dedup(report, DOMAIN report)]
                       /\ UNCHANGED <<post, gitVars>>
    BY <1>3 DEF RunRescan
  <2> DEFINE found == ids(report)
  <2> HIDE DEF ids
  <2>2. CASE run.applied \cap found = {} /\ run.applied = {}
    <3>1. /\ Enter("DONE") /\ UNCHANGED <<post, gitVars>>
          /\ run' = [run EXCEPT !.pc = "returned", !.exit = 0, !.postIds = found]
      BY <2>1, <2>2 DEF Unresolved
    <3>2. RunType' /\ run'.pc = "returned" /\ run'.exit = 0 /\ run'.args = run.args
          /\ run'.captured = run.captured /\ run'.applied = run.applied /\ run'.postIds = found
      BY <1>1, <3>1 DEF RunType, RunPc
    <3> QED BY <1>1, <2>2, <3>1, <3>2, DonePlace
  <2>3. CASE run.applied \cap found = {} /\ run.applied # {}
    <3>1. PICK b \in FreshBranch : PostStart(TRUE, run.args.postFix, "None", b)
      BY <2>1, <2>3 DEF Unresolved
    <3>2. Enter("DONE") /\ run' = [run EXCEPT !.pc = "post", !.postIds = found]
      BY <2>1, <2>3 DEF Unresolved
    <3>3. RunType' /\ run'.pc = "post" /\ run'.args = run.args
          /\ run'.captured = run.captured /\ run'.applied = run.applied /\ run'.postIds = found
      BY <1>1, <3>2 DEF RunType, RunPc
    <3>4. GitPlace' /\ PostPlace' /\ \A c \in RecoveryBranch : refs'[c] = refs[c]
      <4>1. UNCHANGED gitVars
        BY <3>1 DEF PostStart
      <4>2. PostPlace'
        <5>1. PICK resolved \in Policy : resolved = Resolve(run.args.postFix, "None")
          BY DEF Resolve, Policy
        <5>2. b \in FixesBranch
          BY DEF FreshBranch
        <5>3. \/ post' = [PostIdle EXCEPT !.pc = "done", !.outcome = "working-tree"]
              \/ post' = [PostIdle EXCEPT !.pc = "rev_parse", !.resolved = resolved, !.branch = b]
          BY <3>1, <5>1 DEF PostStart
        <5> QED BY <5>2, <5>3 DEF PostPlace, PostTypeOK, PostIdle, PostPc, Policy
      <4> QED BY <1>1, <4>1, <4>2, RepoQuiet DEF GitPlace, gitVars
    <3> QED BY <1>1, <2>3, <3>2, <3>3, <3>4, DonePlace
  <2>4. CASE run.applied \cap found # {} /\ Exhausted
    BY <1>3, <2>1, <2>4 DEF Unresolved
  <2>5. CASE run.applied \cap found # {} /\ ~Exhausted
    <3>1. /\ Enter("RETRY") /\ UNCHANGED <<post, gitVars>>
          /\ run' = [run EXCEPT !.pc = "triage", !.attempt = @ + 1, !.findings = report,
                                !.kept = Dedup(report, DOMAIN report)]
      BY <2>1, <2>5 DEF Unresolved
    <3>2. PICK n \in Nat : n = run.attempt
      BY <1>1 DEF RunType
    <3>3. RunType' /\ run'.pc = "triage" /\ run'.args = run.args /\ run'.attempt = n + 1
          /\ run'.captured = run.captured /\ run'.applied = run.applied
      <4>1. /\ report \in Seq(Finding) /\ Dedup(report, DOMAIN report) \subseteq DOMAIN report
            /\ Dedup(report, DOMAIN report) \in SUBSET Nat
        BY ReportType
      <4>2. run.attempt + 1 \in Nat
        BY <3>2
      <4> HIDE DEF found
      <4> QED BY <1>1, <3>1, <3>2, <4>1, <4>2 DEF RunType, RunPc, Live
    <3>4. n + 1 <= MaxRetries /\ n + 1 # 0
      <4>1. run.args.maxRetries \in Int /\ run.args.maxRetries <= MaxRetries /\ MaxRetries \in Nat
        BY <1>1, Arguments
      <4> QED BY <2>5, <3>2, <4>1 DEF Exhausted
    <3>5. At(n, 5 * n + 5, "VERIFYING", {"TRIAGING", "PLANNING", "APPLYING", "VERIFYING"})
          /\ sm.rows # <<>> /\ "RETRY" \in State
      BY <1>1, <3>2, Rows DEF LogPlace, Live, State
    <3>6. /\ sm' \in [rows : Seq(Row), attempts : [State -> Nat]]
          /\ Len(sm'.rows) = Len(sm.rows) + 1 /\ Current' = "RETRY" /\ sm'.rows # <<>>
          /\ sm'.attempts = [sm.attempts EXCEPT !["RETRY"] = @ + 1]
      BY <3>1, <3>5, EnterRow
    <3>7. sm'.attempts = Counters(n + 1, {})
      <4>1. sm.attempts = Counters(n, {"TRIAGING", "PLANNING", "APPLYING", "VERIFYING"})
        BY <3>5 DEF At
      <4> QED BY <3>6, <4>1 DEF Counters, State
    <3>8. Len(sm'.rows) = 5 * (n + 1) + 1
      BY <3>5, <3>6 DEF At
    <3>9. At(n + 1, 5 * (n + 1) + 1, "RETRY", {})'
      BY <3>4, <3>6, <3>7, <3>8 DEF At
    <3>10. LogPlace'
      BY <3>3, <3>4, <3>6, <3>9 DEF LogPlace, ExitMatchesLog
    <3>11. GitPlace' /\ FixPlace' /\ PostPlace' /\ fix = FixIdle
      BY <1>1, <3>1, RepoQuiet, IdleFrames
      DEF GitPlace, gitVars, PostPlace, PostTypeOK, RunPlace
    <3>12. run.applied # {}
      BY <2>5
    <3>13. RunPlace'
      BY <1>1, <3>1, <3>3, <3>11 DEF RunPlace, Live
    <3>14. FixesPlace'
      <4>1. ~NewFixes
        BY <1>1 DEF FixesPlace, NewFixes
      <4> QED BY <1>1, <3>1, <4>1 DEF FixesPlace, NewFixes, gitVars
    <3>15. ChangePlace'
      BY <3>3, <3>12 DEF ChangePlace
    <3>16. RecoveryPlace'
      <4>1. NewRecovery' = NewRecovery
        BY <1>1, <3>1 DEF NewRecovery, gitVars
      <4>2. run.args.auto => run.captured /\ NewRecovery # {}
        BY <1>1, <3>12 DEF Captured, RecoveryPlace, RunPlace, Live
      <4>3. NotCaptured' => ~run.captured
        BY <3>3 DEF NotCaptured
      <4> QED BY <1>1, <3>1, <3>3, <4>1, <4>2, <4>3 DEF RecoveryPlace, gitVars
    <3> QED BY <3>10, <3>11, <3>13, <3>14, <3>15, <3>16
  <2> QED BY <2>2, <2>3, <2>4, <2>5
<1> QED BY <1>2, <1>3
-----------------------------------------------------------------------------
LEMMA InitPlace == Init => IInv
<1> SUFFICES ASSUME Init PROVE IInv
  OBVIOUS
<1>1. /\ fix = FixIdle /\ post = PostIdle /\ sm = smIdle /\ base = Source /\ before = refs
      /\ head = Main /\ index = Source /\ tree = Source
      /\ refs = [b \in Place |-> IF b = Main THEN Source ELSE NoRef]
  BY DEF Init, RepairInit, Place
<1>2. PICK args \in ArgChoices : run = RunIdle(args)
  BY DEF Init, RepairInit
<1>3. GitPlace
  <2>1. GitTypeOK
    BY <1>1, Names DEF GitTypeOK, Place
  <2> QED BY <1>1, <2>1, Names DEF GitPlace, Repo, SameFiles, Place
<1>4. FixPlace /\ PostPlace
  <2>1. NoFlags \in Flags
    BY DEF NoFlags, Flags
  <2>2. FixType /\ fix.pc = "idle"
    BY <1>1, <2>1 DEF FixIdle, FixType, FixPc
  <2> QED BY <1>1, <2>2 DEF FixPlace, PostIdle, PostPlace, PostTypeOK, PostPc, Policy
<1>5. RunType /\ run.pc = "idle"
  BY <1>2 DEF RunIdle, RunType, RunPc
<1>6. LogPlace
  BY <1>1, <1>5, IdleLog DEF LogPlace, ExitMatchesLog
<1>7. RunPlace /\ RecoveryPlace /\ FixesPlace /\ ChangePlace
  BY <1>1, <1>5 DEF RunPlace, RecoveryPlace, FixesPlace, ChangePlace, Live
<1> QED BY <1>3, <1>4, <1>6, <1>7 DEF IInv

LEMMA StutterPlace == ASSUME IInv, UNCHANGED vars PROVE IInv'
<1>1. UNCHANGED <<head, refs, index, tree, fix, post, run, sm, base, before>>
  BY DEF vars, gitVars, fixVars, runVars
<1> QED BY <1>1 DEF IInv, GitPlace, Repo, SameFiles, GitTypeOK, FixPlace, FixType, NextFile,
           PostPlace, PostTypeOK, RunPlace, RunType, LogPlace, At, Current, ExitMatchesLog,
           RecoveryPlace, NewRecovery, Captured, NotCaptured, FixesPlace, ChangePlace

LEMMA NextPlace == IInv /\ [Next]_vars => IInv'
BY StartPlace, ScanPlace, TriagePlace, PatchesPlace, ReviewPlace, ApplyPlace, FixingPlace,
   FixedPlace, RescanPlace, PostingPlace, PostedPlace, RaisesPlace, NextCyclePlace,
   CommitsPlace, StutterPlace DEF Next, RunStep

THEOREM Invariance == Spec => []IInv
<1>1. Init => IInv
  BY InitPlace
<1>2. IInv /\ [Next]_vars => IInv'
  BY NextPlace
<1> QED BY <1>1, <1>2, PTL DEF Spec

(* The exit code of a cycle and the last row of its log agree, whatever    *)
(* failed and wherever the log could not be written.                       *)
THEOREM ExitCodeTrue == Spec => []ExitMatchesLog
<1>1. IInv => ExitMatchesLog
  BY DEF IInv, LogPlace
<1> QED BY <1>1, Invariance, PTL

(* At most one recovery branch is made in a cycle of --auto-llm, before    *)
(* the first file changes, and it keeps the files the cycle began with,    *)
(* for any number of retries and commits of the operator meanwhile.        *)
THEOREM RecoveryBranchOnce == Spec => []OneRecoveryBranch
<1>1. IInv => OneRecoveryBranch
  <2> SUFFICES ASSUME IInv, run.pc # "idle", run.args.auto PROVE OneRecoveryBranch
    BY DEF OneRecoveryBranch
  <2>1. /\ \A b \in NewRecovery : refs[b] = base
        /\ \A b, c \in NewRecovery : b = c
        /\ tree # base => NewRecovery # {}
    BY DEF IInv, RecoveryPlace
  <2>2. Cardinality(NewRecovery) <= 1
    <3>1. CASE NewRecovery = {}
      BY <3>1, FS_EmptySet
    <3>2. CASE NewRecovery # {}
      <4>1. PICK b : NewRecovery = {b}
        BY <2>1, <3>2
      <4> QED BY <4>1, FS_Singleton
    <3> QED BY <3>1, <3>2
  <2> QED BY <2>1, <2>2 DEF OneRecoveryBranch
<1> QED BY <1>1, Invariance, PTL

(* Only a run that is DONE commits to a fixes branch, and only findings    *)
(* that a pass applied and the last scan does not report.                  *)
THEOREM VerifiedOnly == Spec => []OnlyVerifiedFixesCommitted
<1>1. IInv => OnlyVerifiedFixesCommitted
  BY DEF IInv, FixesPlace, LogPlace, ExitMatchesLog, OnlyVerifiedFixesCommitted
<1> QED BY <1>1, Invariance, PTL

(* A cycle that succeeds and reports nothing applied changed no file.      *)
THEOREM Accounted == Spec => []ChangeIsAccountedFor
<1>1. IInv => ChangeIsAccountedFor
  BY DEF IInv, ChangePlace, RunPlace, ChangeIsAccountedFor, FixIdle
<1> QED BY <1>1, Invariance, PTL
-----------------------------------------------------------------------------
(* The log of a cycle is a behaviour of the state machine.                 *)
LEMMA LegalAt ==
    ASSUME NEW n \in Nat, NEW rows \in Nat, NEW state, NEW entered,
           At(n, rows, state, entered), rows <= 5 * n + 5,
           NEW to \in (Transitions[state] \cap State) \ (entered \cup {"SCANNING"})
    PROVE  /\ to \in Transitions[Current] /\ Len(sm.rows) < 6 + 5 * MaxRetries
           /\ sm.attempts[to] <= MaxRetries
<1>1. MaxRetries \in Nat /\ n <= MaxRetries
  BY RunAssumption DEF At
<1>2. sm.attempts[to] \in {0, n}
  BY DEF At, Counters
<1>3. 5 * n <= 5 * MaxRetries
  BY <1>1
<1> QED BY <1>1, <1>2, <1>3 DEF At

(* Whatever a step may enter is one edge on, and within the bounds.        *)
LEMMA Legal ==
    ASSUME IInv, NEW to \in NextStates
    PROVE  /\ run.pc \in Live /\ to \in State /\ to \in Transitions[Current]
           /\ Len(sm.rows) < 6 + 5 * MaxRetries /\ sm.attempts[to] <= MaxRetries
<1>1. run.pc \in Live /\ to \in State
  BY DEF NextStates, Live, State
<1>2. PICK n \in Nat : n = run.attempt
  BY DEF IInv, RunPlace, RunType
<1>3. LogPlace
  BY DEF IInv
<1>4. CASE run.pc = "scan"
  <2>1. At(0, 1, "SCANNING", {}) /\ to = "FAILED"
    BY <1>3, <1>4 DEF LogPlace, NextStates
  <2>2. to \in (Transitions["SCANNING"] \cap State) \ ({} \cup {"SCANNING"})
    BY <2>1 DEF Transitions, State
  <2>3. 1 <= 5 * 0 + 5
    OBVIOUS
  <2> QED BY <1>1, <2>1, <2>2, <2>3, LegalAt
<1>5. CASE run.pc = "triage"
  <2>1. PICK state \in {"SCANNING", "RETRY"}, rows \in Nat :
           At(n, rows, state, {}) /\ to = "TRIAGING" /\ rows = 5 * n + 1
    <3>1. At(n, 5 * n + 1, IF n = 0 THEN "SCANNING" ELSE "RETRY", {}) /\ to = "TRIAGING"
      BY <1>2, <1>3, <1>5 DEF LogPlace, NextStates
    <3>2. 5 * n + 1 \in Nat /\ (IF n = 0 THEN "SCANNING" ELSE "RETRY") \in {"SCANNING", "RETRY"}
      OBVIOUS
    <3> QED BY <3>1, <3>2
  <2>2. to \in (Transitions[state] \cap State) \ ({} \cup {"SCANNING"}) /\ rows <= 5 * n + 5
    BY <2>1 DEF Transitions, State
  <2> QED BY <1>1, <2>1, <2>2, LegalAt
<1>6. CASE run.pc = "plan"
  <2>1. PICK rows \in Nat, entered \in {{"TRIAGING"}} :
           At(n, rows, "TRIAGING", entered) /\ to = "PLANNING" /\ rows = 5 * n + 2
    BY <1>2, <1>3, <1>6 DEF LogPlace, NextStates
  <2>2. to \in (Transitions["TRIAGING"] \cap State) \ (entered \cup {"SCANNING"})
        /\ rows <= 5 * n + 5
    BY <2>1 DEF Transitions, State
  <2> QED BY <1>1, <2>1, <2>2, LegalAt
<1>7. CASE run.pc = "decide"
  <2>1. PICK rows \in Nat, entered \in {{"TRIAGING", "PLANNING"}} :
           /\ At(n, rows, "PLANNING", entered) /\ rows = 5 * n + 3
           /\ to \in {"APPLYING", "HUMAN_REVIEW"}
    BY <1>2, <1>3, <1>7 DEF LogPlace, NextStates
  <2>2. to \in (Transitions["PLANNING"] \cap State) \ (entered \cup {"SCANNING"})
        /\ rows <= 5 * n + 5
    BY <2>1 DEF Transitions, State
  <2> QED BY <1>1, <2>1, <2>2, LegalAt
<1>8. CASE run.pc = "fixing"
  <2>1. PICK rows \in Nat, entered \in {{"TRIAGING", "PLANNING", "APPLYING"}} :
           /\ At(n, rows, "APPLYING", entered) /\ rows = 5 * n + 4
           /\ to \in {"VERIFYING", "FAILED"}
    BY <1>2, <1>3, <1>8 DEF LogPlace, NextStates
  <2>2. to \in (Transitions["APPLYING"] \cap State) \ (entered \cup {"SCANNING"})
        /\ rows <= 5 * n + 5
    BY <2>1 DEF Transitions, State
  <2> QED BY <1>1, <2>1, <2>2, LegalAt
<1>9. CASE run.pc = "rescan"
  <2>1. PICK rows \in Nat, entered \in {{"TRIAGING", "PLANNING", "APPLYING", "VERIFYING"}} :
           /\ At(n, rows, "VERIFYING", entered) /\ rows = 5 * n + 5
           /\ to \in {"FAILED", "DONE", "RETRY"}
    BY <1>2, <1>3, <1>9 DEF LogPlace, NextStates
  <2>2. to \in (Transitions["VERIFYING"] \cap State) \ (entered \cup {"SCANNING"})
        /\ rows <= 5 * n + 5
    BY <2>1 DEF Transitions, State
  <2>3. At(n, rows, "VERIFYING", entered)
    BY <2>1
  <2> QED BY <1>1, <2>2, <2>3, LegalAt
<1> QED BY <1>4, <1>5, <1>6, <1>7, <1>8, <1>9 DEF NextStates

(* Each step, as the log sees it.                                          *)
LEMMA LogSteps ==
    ASSUME IInv, Next
    PROVE  \/ sm' = sm
           \/ run.pc = "idle" /\ \/ sm' = smIdle
                                 \/ sm' = [rows |-> <<InitialRow>>,
                                           attempts |-> [s \in State |-> IF s = "SCANNING" THEN 1 ELSE 0]]
           \/ \E to \in NextStates : Enter(to) \/ sm' = [sm EXCEPT !.attempts[to] = @ + 1]
           \/ Over /\ sm' = smIdle
<1>1. CASE RunScan
  BY <1>1 DEF RunScan, Fail, NextStates
<1>2. CASE RunTriage \/ RunPlan \/ RunReview \/ RunApply
  BY <1>2 DEF RunTriage, RunPlan, RunReview, RunApply, NextStates
<1>3. CASE RunPatches \/ RunPosted \/ OperatorCommits
  BY <1>3 DEF RunPatches, RunPosted, OperatorCommits
<1>4. CASE RunFixing \/ RunPost
  BY <1>4 DEF RunFixing, RunPost, runVars
<1>5. CASE RunFixed
  BY <1>5 DEF RunFixed, NextStates
<1>6. CASE RunRescan
  <2>1. run.pc = "rescan"
    BY <1>6 DEF RunRescan
  <2>2. Enter("FAILED") \/ Enter("DONE") \/ Enter("RETRY")
    BY <1>6 DEF RunRescan, Fail
  <2> QED BY <2>1, <2>2 DEF NextStates
<1>7. CASE RunRaises
  BY <1>7 DEF RunRaises
<1>8. CASE RunStart
  BY <1>8 DEF RunStart
<1>9. CASE RunNextCycle
  BY <1>9 DEF RunNextCycle, Over
<1> QED BY <1>1, <1>2, <1>3, <1>4, <1>5, <1>6, <1>7, <1>8, <1>9 DEF Next, RunStep

LEMMA EnterTransition ==
    ASSUME IInv, NEW to \in NextStates, Enter(to) PROVE WL!Transition(to, "full")
<1>1. /\ run.pc \in Live /\ to \in State /\ to \in Transitions[Current]
      /\ Len(sm.rows) < 6 + 5 * MaxRetries /\ sm.attempts[to] <= MaxRetries
  BY Legal
<1>2. sm.rows # <<>> /\ sm.attempts \in [State -> Nat] /\ MaxRetries \in Nat
  BY <1>1, Rows, RunAssumption DEF IInv, RunPlace
<1>3. WL!CanTransition(to)
  BY <1>1, <1>2 DEF WL!CanTransition, WL!NextAttempt, WL!Transitions, Transitions
<1>4. sm'.rows = Append(sm.rows, RowTo(to)) /\ Current' = to /\ sm'.rows # <<>>
      /\ sm'.attempts = [sm.attempts EXCEPT ![to] = @ + 1]
  BY <1>1, <1>2, EnterRow DEF IInv
<1>5. WL!NextRow(to) = RowTo(to)
  BY <1>2 DEF WL!NextRow, WL!NextAttempt, RowTo
<1>6. WL!AppendRow(WL!NextRow(to), "full")
  BY <1>4, <1>5 DEF WL!AppendRow, WL!Appended
<1> QED BY <1>1, <1>2, <1>3, <1>4, <1>5, <1>6 DEF WL!Transition, WL!NextAttempt

LEMMA RaiseTransition ==
    ASSUME IInv, NEW to \in NextStates, sm' = [sm EXCEPT !.attempts[to] = @ + 1]
    PROVE  WL!TransitionFails(to)
<1>1. /\ run.pc \in Live /\ to \in State /\ to \in Transitions[Current]
      /\ Len(sm.rows) < 6 + 5 * MaxRetries /\ sm.attempts[to] <= MaxRetries
  BY Legal
<1>2. sm.rows # <<>> /\ sm.attempts \in [State -> Nat] /\ MaxRetries \in Nat
      /\ sm = [rows |-> sm.rows, attempts |-> sm.attempts]
  BY <1>1, Rows, RunAssumption DEF IInv, RunPlace
<1>3. WL!CanTransition(to)
  BY <1>1, <1>2 DEF WL!CanTransition, WL!NextAttempt, WL!Transitions, Transitions
<1>4. sm'.rows = sm.rows /\ sm'.attempts = [sm.attempts EXCEPT ![to] = @ + 1]
  BY <1>2
<1>5. Current' = Current
  BY <1>4 DEF Current
<1> QED BY <1>1, <1>2, <1>3, <1>4, <1>5 DEF WL!TransitionFails, WL!NextAttempt

LEMMA LogImplements ==
    ASSUME IInv, [Next]_vars
    PROVE  WL!Next \/ UNCHANGED WL!vars \/ (Over /\ WL!Init')
<1>1. CASE sm' = sm
  BY <1>1 DEF WL!vars, Current
<1>2. CASE run.pc = "idle" /\ sm' = [rows |-> <<InitialRow>>,
                              attempts |-> [s \in State |-> IF s = "SCANNING" THEN 1 ELSE 0]]
  <2>1. sm = smIdle /\ sm.rows = <<>>
    BY <1>2, IdleLog DEF IInv, LogPlace
  <2>2. 6 + 5 * MaxRetries > 0
    BY RunAssumption
  <2>3. sm'.rows = <<InitialRow>> /\ Current' = "SCANNING" /\ sm'.rows # <<>>
        /\ sm'.rows = Append(sm.rows, InitialRow)
    BY <1>2, <2>1 DEF Current, InitialRow
  <2>4. WL!Construct("full")
    BY <1>2, <2>1, <2>2, <2>3
    DEF WL!Construct, WL!AppendRow, WL!Appended, WL!InitialRow, InitialRow, WL!None, None,
        WL!State, State
  <2> QED BY <2>4 DEF WL!Next, WL!Written
<1>3. CASE \E to \in NextStates : Enter(to) \/ sm' = [sm EXCEPT !.attempts[to] = @ + 1]
  <2>1. PICK to \in NextStates : Enter(to) \/ sm' = [sm EXCEPT !.attempts[to] = @ + 1]
    BY <1>3
  <2>2. to \in WL!State
    BY Legal DEF WL!State, State
  <2> QED BY <2>1, <2>2, EnterTransition, RaiseTransition DEF WL!Next, WL!Written
<1>4. CASE Over /\ sm' = smIdle
  BY <1>4, IdleLog DEF WL!Init, smIdle, WL!State, State
<1>5. CASE run.pc = "idle" /\ sm' = smIdle
  BY <1>1, <1>5 DEF IInv, LogPlace
<1> QED BY <1>1, <1>2, <1>3, <1>4, <1>5, LogSteps DEF vars, runVars

(* The log of every cycle is a behaviour of WorkflowLog within its bounds: *)
(* the run loop asks for no transition the table refuses, however often it *)
(* retries and whatever fails, and a log ends with its cycle.              *)
THEOREM LogRefines == Spec => ImplementsWorkflowLog
<1>1. Init => WL!Init
  BY IdleLog DEF Init, RepairInit, WL!Init, smIdle, WL!State, State
<1>2. IInv /\ [Next]_vars => [WL!Next \/ UNCHANGED WL!vars \/ (Over /\ WL!Init')]_vars
  BY LogImplements
<1> QED BY <1>1, <1>2, Invariance, PTL DEF Spec, ImplementsWorkflowLog
-----------------------------------------------------------------------------
(* A crawl cycle.  What is known of the cycle, of the repository, and of   *)
(* how the cycle began.                                                    *)
CrawlPc == {"idle", "analyze", "dispatch", "fixing", "verify", "revert", "post"}

CrawlType ==
    /\ crawl \in [pc : CrawlPc, mode : Mode, batch : Seq(Pairs), next : Nat \ {0},
                  findings : Seq(Finding), code : {crawl.code}]
    /\ begin \in [tree : Snapshot, refs : [Place -> Snapshot \cup {NoRef}], head : Place]
    /\ touched \subseteq File

(* A file that git does not track is one the operator saved.               *)
CrawlRepo ==
    /\ GitTypeOK /\ head \notin RecoveryBranch
    /\ \A f \in File : tree[f] # Absent /\ index[f] = Absent => f \in touched

CrawlFrames ==
    /\ FixPlace /\ PostPlace
    /\ crawl.pc = "fixing" => fix.flags.apply /\ ~fix.flags.force
    /\ crawl.pc # "fixing" => fix.pc = "idle"

(* The tree was clean when the cycle began, as far as the operator has     *)
(* left it alone.                                                          *)
BeganClean == \A f \in File \ touched : begin.tree[f] = begin.refs[begin.head][f]

(* Until the gate of the pass nothing has changed, and beyond it the cycle *)
(* is one that began clean; only such a cycle moves a fixes branch.        *)
BeginPlace ==
    /\ crawl.pc \in {"analyze", "dispatch"} \/ (crawl.pc = "fixing" /\ fix.pc = "status") =>
          /\ refs = begin.refs /\ head = begin.head
          /\ \A f \in File \ touched : tree[f] = begin.tree[f]
    /\ crawl.pc = "fixing" /\ (fix.pc \in Beyond \cup {"branch"} \/ fix.applied # {}) => BeganClean
    /\ crawl.pc \in {"verify", "post"} => BeganClean
    /\ \A b \in FixesBranch : refs[b] = begin.refs[b] \/ BeganClean

BInv == CrawlType /\ CrawlRepo /\ CrawlFrames /\ BeginPlace

(* What the cycle works on are files of the index, which no command moves  *)
(* before the policy runs.                                                 *)
InIndex(findings) == \A i \in DOMAIN findings : index[findings[i].path] # Absent

TrackedPlace ==
    /\ crawl.pc = "analyze" =>
          \A k \in DOMAIN crawl.batch : \A f \in crawl.batch[k].bundle : index[f] # Absent
    /\ crawl.pc \in {"analyze", "dispatch"} => InIndex(crawl.findings)
    /\ crawl.pc = "fixing" => InIndex(fix.findings)

Sound(s) == \A f \in File : s[f] # Absent => Compiles(s[f])

(* A file that does not compile is in the tree only, and git tracks it, so *)
(* that the check sees it.                                                 *)
CompileRepo ==
    /\ Sound(index)
    /\ \A b \in Place : refs[b] # NoRef => Sound(refs[b])
    /\ \A f \in File : tree[f] # Absent /\ ~Compiles(tree[f]) => index[f] # Absent

CompilePlace == CompileRepo /\ TrackedPlace /\ CheckCoversTheTree
-----------------------------------------------------------------------------
LEMMA DivMod ==
    ASSUME NEW k \in Nat, NEW n \in Nat \ {0}
    PROVE  k \div n \in Nat /\ k % n \in 0..(n - 1) /\ k = n * (k \div n) + (k % n)
OBVIOUS

LEMMA TimesGrows ==
    ASSUME NEW n \in Nat, NEW p \in Nat, NEW q \in Nat, p <= q
    PROVE  n * p <= n * q
OBVIOUS

(* A place in the batch is a bundle's and an analyzer's.                   *)
LEMMA Grid ==
    ASSUME NEW m \in Nat, NEW n \in Nat, NEW k \in 1..(m * n)
    PROVE  1 + ((k - 1) \div n) \in 1..m /\ 1 + ((k - 1) % n) \in 1..n
<1>1. n # 0
  <2>1. n = 0 => m * n = 0
    OBVIOUS
  <2> QED BY <2>1
<1>2. k - 1 \in Nat /\ n \in Nat \ {0}
  BY <1>1
<1> DEFINE q == (k - 1) \div n
           r == (k - 1) % n
<1>3. q \in Nat /\ r \in 0..(n - 1) /\ k - 1 = n * q + r
  BY <1>2, DivMod
<1> HIDE DEF q, r
<1>4. q < m
  <2> SUFFICES ASSUME m <= q PROVE FALSE
    BY <1>3
  <2>1. n * m <= n * q /\ n * q \in Nat /\ n * m \in Nat /\ n * m = m * n
    BY <1>3, TimesGrows
  <2> QED BY <1>3, <2>1
<1> QED BY <1>3, <1>4 DEF q, r

LEMMA BatchOfPairs ==
    ASSUME NEW bundles \in Bundles, NEW analyzers \in Analyzers
    PROVE  /\ Crossed(bundles, analyzers) \in Seq(Pairs)
           /\ \A k \in DOMAIN Crossed(bundles, analyzers) :
                 Crossed(bundles, analyzers)[k].bundle \in ToSet(bundles)
<1> DEFINE m == Len(bundles)
           n == Len(analyzers)
<1>1. bundles \in Seq(SUBSET File) /\ analyzers \in Seq(ToSet(analyzers))
  BY CrawlAssumption
<1>2. m \in Nat /\ n \in Nat
  BY <1>1
<1>3. \A i \in 1..m : bundles[i] \in ToSet(bundles)
  BY <1>1 DEF ToSet
<1>4. \A i \in 1..n : analyzers[i] \in ToSet(analyzers)
  BY <1>1
<1>5. m * n \in Nat
  BY <1>2
<1> HIDE DEF m, n
<1>6. \A k \in 1..(m * n) : 1 + ((k - 1) \div n) \in 1..m /\ 1 + ((k - 1) % n) \in 1..n
  BY <1>2, Grid
<1>7. \A k \in 1..(m * n) :
         [bundle |-> bundles[1 + ((k - 1) \div n)], analyzer |-> analyzers[1 + ((k - 1) % n)]] \in Pairs
  <2> TAKE k \in 1..(m * n)
  <2>1. bundles[1 + ((k - 1) \div n)] \in ToSet(bundles) /\ analyzers[1 + ((k - 1) % n)] \in ToSet(analyzers)
    BY <1>3, <1>4, <1>6
  <2> HIDE DEF m, n
  <2> QED BY <2>1 DEF Pairs
<1> DEFINE batch == [k \in 1..(m * n) |->
              [bundle |-> bundles[1 + ((k - 1) \div n)], analyzer |-> analyzers[1 + ((k - 1) % n)]]]
<1>8. batch \in [1..(m * n) -> Pairs]
  BY <1>7
<1>10. \A k \in DOMAIN batch : batch[k].bundle \in ToSet(bundles)
  BY <1>3, <1>6
<1>9. batch \in Seq(Pairs)
  <2> HIDE DEF batch
  <2> QED BY <1>5, <1>8
<1> QED BY <1>9, <1>10 DEF Crossed, m, n
-----------------------------------------------------------------------------
(* The pieces of the invariant that other steps leave alone.               *)
LEMMA CrawlNames ==
    /\ Mine \in Content /\ Mine # Absent /\ Compiles(Mine)
    /\ Source \in Snapshot /\ \A f \in File : Source[f] # Absent => Compiles(Source[f])
    /\ \A pair \in Pairs : \A report \in Analysis[pair.bundle][pair.analyzer] :
          report \in Seq(Finding) /\ \A i \in DOMAIN report : report[i].path \in pair.bundle
BY CrawlAssumption, RepairAssumption, GitAssumption DEF Compiles, Unpatched

LEMMA CrawlStarts == CrawlInit => BInv
<1> SUFFICES ASSUME CrawlInit PROVE BInv
  OBVIOUS
<1>1. /\ head = Main /\ index = Source /\ tree = Source
      /\ refs = [b \in Place |-> IF b = Main THEN Source ELSE NoRef]
      /\ fix = FixIdle /\ post = PostIdle /\ crawl = CrawlIdle /\ touched = {}
      /\ begin = [tree |-> tree, refs |-> refs, head |-> head]
  BY DEF CrawlInit, RepairInit, Place
<1>2. GitTypeOK
  BY <1>1, Names DEF GitTypeOK, Place
<1>3. CrawlRepo
  BY <1>1, <1>2, Names DEF CrawlRepo
<1>4. CrawlType
  <2>1. crawl \in [pc : CrawlPc, mode : Mode, batch : Seq(Pairs), next : Nat \ {0},
                  findings : Seq(Finding), code : {crawl.code}]
    BY <1>1 DEF CrawlIdle, CrawlPc, Mode
  <2>2. begin \in [tree : Snapshot, refs : [Place -> Snapshot \cup {NoRef}], head : Place]
    BY <1>1, <1>2 DEF GitTypeOK, Place
  <2> QED BY <1>1, <2>1, <2>2 DEF CrawlType
<1>5. FixPlace /\ PostPlace
  <2>1. NoFlags \in Flags
    BY DEF NoFlags, Flags
  <2>2. FixType
    BY <1>1, <2>1 DEF FixIdle, FixType, FixPc
  <2>3. FixPlace
    BY <1>1, <2>2 DEF FixPlace, FixIdle
  <2> QED BY <1>1, <2>3 DEF PostIdle, PostPlace, PostTypeOK, PostPc, Policy
<1>6. CrawlFrames
  BY <1>1, <1>5 DEF CrawlFrames, CrawlIdle, FixIdle
<1>7. BeginPlace
  BY <1>1 DEF BeginPlace, CrawlIdle
<1> QED BY <1>3, <1>4, <1>6, <1>7 DEF BInv

(* The frame of the cycle moves, and nothing else.                         *)
LEMMA CrawlMoves ==
    ASSUME CrawlType, UNCHANGED <<begin, touched>>, NEW p \in CrawlPc,
           \/ crawl' = [crawl EXCEPT !.pc = p]
           \/ \E code : crawl' = [CrawlIdle EXCEPT !.code = code] /\ p = "idle"
    PROVE  CrawlType' /\ crawl'.pc = p /\ (crawl'.findings = crawl.findings \/ crawl'.findings = <<>>)
<1>1. CASE crawl' = [crawl EXCEPT !.pc = p]
  BY <1>1 DEF CrawlType
<1>2. CASE \E code : crawl' = [CrawlIdle EXCEPT !.code = code] /\ p = "idle"
  <2>1. PICK code : crawl' = [CrawlIdle EXCEPT !.code = code] /\ p = "idle"
    BY <1>2
  <2>2. crawl' = [pc |-> "idle", mode |-> "preview", batch |-> <<>>, next |-> 1,
              findings |-> <<>>, code |-> code]
    BY <2>1 DEF CrawlIdle
  <2>3. crawl' \in [pc : CrawlPc, mode : Mode, batch : Seq(Pairs), next : Nat \ {0},
                  findings : Seq(Finding), code : {crawl'.code}]
    BY <2>2 DEF CrawlPc, Mode
  <2>4. CrawlType'
    BY <2>3 DEF CrawlType
  <2> QED BY <2>1, <2>2, <2>4
<1> QED BY <1>1, <1>2

LEMMA QuietGit ==
    ASSUME CrawlRepo, UNCHANGED <<gitVars, touched>>
    PROVE  CrawlRepo'
BY DEF CrawlRepo, GitTypeOK, gitVars

LEMMA QuietFrames ==
    /\ FixPlace /\ UNCHANGED <<gitVars, fix>> => FixPlace'
    /\ PostPlace /\ UNCHANGED post => PostPlace'
<1>1. ASSUME FixPlace, UNCHANGED <<gitVars, fix>> PROVE FixPlace'
  BY <1>1 DEF FixPlace, FixType, gitVars, NextFile
<1>2. ASSUME PostPlace, UNCHANGED post PROVE PostPlace'
  BY <1>2 DEF PostPlace, PostTypeOK
<1> QED BY <1>1, <1>2

LEMMA PairComesUp ==
    ASSUME CrawlType, CycleAnalyze
    PROVE  crawl.next \in DOMAIN crawl.batch /\ crawl.batch[crawl.next] \in Pairs
<1>1. crawl.batch \in Seq(Pairs) /\ crawl.next \in Nat \ {0} /\ crawl.next <= Len(crawl.batch)
  BY DEF CycleAnalyze, CrawlType
<1>2. Len(crawl.batch) \in Nat
  BY <1>1
<1>3. crawl.next \in 1..Len(crawl.batch)
  BY <1>1, <1>2
<1>4. DOMAIN crawl.batch = 1..Len(crawl.batch)
  BY <1>1
<1> QED BY <1>1, <1>3, <1>4, ElementOfSeq

(* The cycle begins, analyzes, and decides on a dispatch.                  *)
LEMMA CrawlAnalyzes ==
    ASSUME BInv, (\E mode \in Mode : CycleStart(mode)) \/ CycleAnalyze \/ CycleRaises \/ CycleAnalyzed
    PROVE  BInv'
<1> USE DEF BInv
<1>1. UNCHANGED <<gitVars, fixVars, post, touched>>
  BY DEF CycleStart, CycleAnalyze, CycleRaises, CycleAnalyzed
<1>2. CrawlRepo' /\ FixPlace' /\ PostPlace'
  BY <1>1, QuietGit, QuietFrames DEF CrawlFrames, fixVars
<1>3. ASSUME CrawlType', crawl'.pc \in {"idle", "analyze", "dispatch"}, crawl.pc = "analyze", UNCHANGED begin
      PROVE  BInv'
  <2>1. CrawlFrames'
    BY <1>1, <1>2, <1>3 DEF CrawlFrames, fixVars
  <2>2. BeginPlace'
    BY <1>1, <1>3 DEF BeginPlace, BeganClean, gitVars, fixVars
  <2> QED BY <1>2, <1>3, <2>1, <2>2
<1>4. CASE \E mode \in Mode : CycleStart(mode)
  <2>1. PICK mode \in Mode, bundles \in Bundles, analyzers \in Analyzers :
           crawl' = [CrawlIdle EXCEPT !.pc = "analyze", !.mode = mode,
                                      !.batch = Crossed(bundles, analyzers)]
    BY <1>4 DEF CycleStart
  <2>2. begin' = [tree |-> tree, refs |-> refs, head |-> head]
    BY <1>4 DEF CycleStart
  <2>3. crawl' = [pc |-> "analyze", mode |-> mode, batch |-> Crossed(bundles, analyzers),
                  next |-> 1, findings |-> <<>>, code |-> 0]
    BY <2>1 DEF CrawlIdle
  <2>4. CrawlType'
    <3>1. Crossed(bundles, analyzers) \in Seq(Pairs)
      BY BatchOfPairs
    <3>2. begin' \in [tree : Snapshot, refs : [Place -> Snapshot \cup {NoRef}], head : Place]
      BY <2>2 DEF CrawlRepo, GitTypeOK, Place
    <3>3. crawl' \in [pc : CrawlPc, mode : Mode, batch : Seq(Pairs), next : Nat \ {0},
                  findings : Seq(Finding), code : {crawl'.code}]
      BY <2>3, <3>1 DEF CrawlPc
    <3> QED BY <1>1, <3>2, <3>3 DEF CrawlType
  <2>5. CrawlFrames'
    <3>1. crawl.pc = "idle" /\ fix' = fix
      BY <1>1, <1>4 DEF CycleStart, fixVars
    <3> QED BY <1>2, <2>3, <3>1 DEF CrawlFrames
  <2>6. BeginPlace'
    BY <1>1, <2>2, <2>3 DEF BeginPlace, gitVars
  <2> QED BY <1>2, <2>4, <2>5, <2>6
<1>5. CASE CycleAnalyze
  <2> DEFINE pair == crawl.batch[crawl.next]
  <2>1. pair \in Pairs
    BY <1>5, PairComesUp
  <2>2. PICK report \in Analysis[pair.bundle][pair.analyzer] :
           crawl' = [crawl EXCEPT !.findings = @ \o report, !.next = @ + 1]
    BY <1>5 DEF CycleAnalyze
  <2>3. report \in Seq(Finding)
    BY <2>1, <2>2, CrawlNames
  <2> HIDE DEF pair
  <2>4. crawl.findings \o report \in Seq(Finding)
    BY <2>3, ConcatProperties DEF CrawlType
  <2>5. CrawlType' /\ crawl'.pc = crawl.pc
    <3>1. crawl' = [crawl EXCEPT !.findings = crawl.findings \o report, !.next = crawl.next + 1]
      BY <2>2 DEF CrawlType
    <3>2. crawl.next + 1 \in Nat \ {0}
      BY DEF CrawlType
    <3>3. crawl' \in [pc : CrawlPc, mode : Mode, batch : Seq(Pairs), next : Nat \ {0},
                      findings : Seq(Finding), code : {crawl'.code}] /\ crawl'.pc = crawl.pc
      BY <3>1, <3>2, <2>4 DEF CrawlType
    <3>4. UNCHANGED <<begin, touched>>
      BY <1>1, <1>5 DEF CycleAnalyze
    <3> QED BY <3>3, <3>4 DEF CrawlType
  <2> QED BY <1>3, <1>5, <2>5 DEF CycleAnalyze
<1>6. CASE CycleRaises \/ CycleAnalyzed
  <2>1. UNCHANGED <<begin, touched>> /\ crawl.pc = "analyze"
        /\ \/ crawl' = [crawl EXCEPT !.pc = "dispatch"]
           \/ \E code : crawl' = [CrawlIdle EXCEPT !.code = code]
    BY <1>6 DEF CycleRaises, CycleAnalyzed, CycleReturn
  <2>2. CrawlType' /\ crawl'.pc \in {"idle", "dispatch"}
    BY <2>1, CrawlMoves DEF CrawlPc
  <2> QED BY <1>3, <2>1, <2>2
<1> QED BY <1>4, <1>5, <1>6

LEMMA CrawlDispatchFix ==
    ASSUME BInv, DispatchFix PROVE BInv'
<1> USE DEF BInv
<1> DEFINE flags == [NoFlags EXCEPT !.apply = TRUE, !.auto = HasLLM]
<1>1. /\ crawl.pc = "dispatch" /\ crawl' = [crawl EXCEPT !.pc = "fixing"]
      /\ FixStart(flags, crawl.findings, DOMAIN crawl.findings)
      /\ UNCHANGED <<post, begin, touched>>
  BY DEF DispatchFix
<1>2. flags \in Flags /\ flags.apply /\ ~flags.force
  <2>1. HasLLM \in BOOLEAN
    BY DEF HasLLM
  <2> QED BY <2>1 DEF Flags, NoFlags
<1> HIDE DEF flags
<1>3. /\ FixPlace' /\ UNCHANGED gitVars
      /\ fix'.pc \in {"done", "status"} /\ fix'.applied = {} /\ fix'.flags = flags
  BY <1>1, <1>2, FixStartOutcome DEF CrawlType
<1>4. CrawlType' /\ crawl'.pc = "fixing"
  BY <1>1, CrawlMoves DEF CrawlPc
<1>5. CrawlRepo' /\ PostPlace'
  BY <1>1, <1>3, QuietGit, QuietFrames DEF CrawlFrames
<1>6. CrawlFrames'
  BY <1>2, <1>3, <1>4, <1>5 DEF CrawlFrames
<1>7. BeginPlace'
  <2>1. UNCHANGED <<refs, head, tree, begin, touched>> /\ refs = begin.refs /\ head = begin.head
        /\ \A f \in File \ touched : tree[f] = begin.tree[f]
    BY <1>1, <1>3 DEF BeginPlace, gitVars
  <2> QED BY <1>3, <1>4, <2>1 DEF BeginPlace, Beyond
<1> QED BY <1>4, <1>5, <1>6, <1>7

(* A step of the pass: the gate opens on a clean tree only, and what the   *)
(* pass writes was there.                                                  *)
LEMMA CrawlFixing ==
    ASSUME BInv, DispatchFixing PROVE BInv'
<1> USE DEF BInv
<1>1. crawl.pc = "fixing" /\ FixStep /\ UNCHANGED <<post, crawl, begin, touched>>
  BY DEF DispatchFixing, crawlVars
<1>2. FixOutcome
  BY <1>1, FixStepOutcome DEF CrawlFrames, CrawlRepo
<1>3. CrawlType' /\ PostPlace'
  BY <1>1, QuietFrames DEF CrawlType, CrawlFrames
<1>4. CrawlFrames'
  BY <1>1, <1>2, <1>3 DEF CrawlFrames, FixOutcome
<1>5. UNCHANGED <<head, index>>
      /\ \/ refs' = refs
         \/ \E b \in RecoveryBranch : refs' = [refs EXCEPT ![b] = refs[head]]
      /\ \/ tree' = tree
         \/ \E p \in File, c \in Content : tree[p] # Absent /\ tree' = [tree EXCEPT ![p] = c]
  BY <1>2 DEF FixOutcome, FixQuiet, FixBranches, FixWrites
<1>6. CrawlRepo'
  <2> USE DEF CrawlRepo
  <2>1. refs' \in [Branch \cup {"HEAD"} -> Snapshot \cup {NoRef}] /\ refs'[head] # NoRef
    BY <1>5, Names DEF GitTypeOK
  <2>2. tree' \in Snapshot /\ \A f \in File : tree'[f] # Absent => tree[f] # Absent
    BY <1>5 DEF GitTypeOK, Snapshot
  <2> QED BY <1>1, <1>5, <2>1, <2>2 DEF GitTypeOK
<1>7. \A b \in FixesBranch : refs'[b] = refs[b]
  BY <1>5, Names DEF CrawlRepo, GitTypeOK
<1>8. (BeganClean \/ fix'.pc = "branch") /\ UNCHANGED touched => BeganClean'
  <2>1. BeganClean => BeganClean'
    BY <1>1 DEF BeganClean
  <2>2. ASSUME fix'.pc = "branch" PROVE BeganClean
    <3>1. fix.pc = "status" /\ ~Dirty
      BY <1>1, <1>2, <2>2 DEF FixOutcome, CrawlFrames
    <3>2. refs = begin.refs /\ head = begin.head /\ \A f \in File \ touched : tree[f] = begin.tree[f]
      BY <1>1, <3>1 DEF BeginPlace
    <3>3. \A f \in File \ touched : tree[f] = refs[head][f]
      BY <3>1 DEF Dirty, DirtyPath, CrawlRepo
    <3> QED BY <3>2, <3>3 DEF BeganClean
  <2> QED BY <2>1, <2>2
<1>9. BeginPlace'
  <2>1. fix'.pc # "status" /\ crawl'.pc = "fixing"
    BY <1>1, <1>2 DEF FixOutcome
  <2>2. ASSUME fix'.pc \in Beyond \cup {"branch"} \/ fix'.applied # {} PROVE BeganClean'
    <3>1. CASE fix'.pc = "branch"
      BY <1>1, <1>8, <3>1
    <3>2. CASE fix.applied # {} \/ fix.pc \in Beyond \cup {"branch"}
      BY <1>1, <1>8, <3>2 DEF BeginPlace
    <3>3. CASE fix'.pc # "branch" /\ fix.applied = {} /\ fix.pc \notin Beyond \cup {"branch"}
      <4>1. FixStep => fix.pc \in Beyond \cup {"branch", "status"}
        BY DEF FixStep, FixStatus, FixBranch, FixClassify, FixRead, FixDelete, FixReplace,
               FixReplaceFails, FixLoopEnds, FixProduce, FixGitApply, FixGitApplyFails, Beyond
      <4>2. FixStatus
        BY <1>1, <3>3, <4>1 DEF FixStep, FixStatus, FixBranch, FixClassify, FixRead, FixDelete,
               FixReplace, FixReplaceFails, FixLoopEnds, FixProduce, FixGitApply, FixGitApplyFails, Beyond
      <4>3. fix'.pc \in {"done", "branch"} /\ fix'.applied = fix.applied
        BY <4>2 DEF FixStatus, FixReturn, CrawlFrames, FixPlace, FixType
      <4> QED BY <2>2, <3>3, <4>3 DEF Beyond
    <3> QED BY <3>1, <3>2, <3>3
  <2>3. \A b \in FixesBranch : refs'[b] = begin'.refs[b] \/ BeganClean'
    BY <1>1, <1>7, <1>8 DEF BeginPlace
  <2> QED BY <2>1, <2>2, <2>3 DEF BeginPlace
<1> QED BY <1>3, <1>4, <1>6, <1>9

(* The pass returned; its changes are checked, and taken back or handed on. *)
LEMMA CrawlChecks ==
    ASSUME BInv, DispatchFixed \/ DispatchVerify \/ DispatchRevert \/ DispatchPosted
    PROVE  BInv'
<1> USE DEF BInv
<1>1. CASE DispatchFixed
  <2>1. /\ crawl.pc = "fixing" /\ fix' = FixIdle /\ UNCHANGED <<gitVars, post, begin, touched>>
        /\ \/ crawl' = [crawl EXCEPT !.pc = "verify"] /\ fix.applied # {}
           \/ \E code : crawl' = [CrawlIdle EXCEPT !.code = code]
    BY <1>1 DEF DispatchFixed, CycleReturn
  <2>2. CrawlType' /\ crawl'.pc \in {"idle", "verify"} /\ (crawl'.pc = "verify" => fix.applied # {})
    BY <2>1, CrawlMoves DEF CrawlPc, CrawlType, CrawlIdle
  <2>3. CrawlRepo' /\ CrawlFrames'
    BY <2>1, <2>2, QuietGit, QuietFrames, IdleFrames DEF CrawlFrames
  <2>4. BeginPlace'
    BY <2>1, <2>2 DEF BeginPlace, BeganClean, gitVars
  <2> QED BY <2>2, <2>3, <2>4
<1>2. CASE DispatchVerify
  <2>1. /\ crawl.pc = "verify" /\ UNCHANGED <<gitVars, fixVars, begin, touched>>
        /\ \/ crawl' = [crawl EXCEPT !.pc = "post"]
           \/ crawl' = [crawl EXCEPT !.pc = "revert"]
    BY <1>2 DEF DispatchVerify, PostStart
  <2>2. CrawlType' /\ crawl'.pc \in {"post", "revert"}
    BY <2>1, CrawlMoves DEF CrawlPc
  <2>3. PostPlace'
    <3>1. CASE UNCHANGED post
      BY <3>1, QuietFrames DEF CrawlFrames
    <3>2. CASE ~UNCHANGED post
      <4>1. PICK b \in FixesBranch, policy \in {"branch", "branch-pr"} : PostStart(TRUE, policy, "None", b)
        BY <1>2, <3>2 DEF DispatchVerify, FreshBranch
      <4>2. post' = [PostIdle EXCEPT !.pc = "rev_parse", !.resolved = policy, !.branch = b]
        BY <4>1 DEF PostStart, Resolve, Policy
      <4> QED BY <4>2 DEF PostIdle, PostPlace, PostTypeOK, PostPc, Policy
    <3> QED BY <3>1, <3>2
  <2>4. CrawlRepo' /\ CrawlFrames'
    BY <2>1, <2>2, <2>3, QuietGit, QuietFrames DEF CrawlFrames, fixVars
  <2>5. BeginPlace'
    BY <2>1, <2>2 DEF BeginPlace, BeganClean, gitVars
  <2> QED BY <2>2, <2>4, <2>5
<1>3. CASE DispatchRevert
  <2>1. /\ crawl.pc = "revert" /\ UNCHANGED <<head, refs, index, fixVars, post, begin, touched>>
        /\ \E code : crawl' = [CrawlIdle EXCEPT !.code = code]
        /\ \/ tree' = tree
           \/ tree' = [f \in File |-> IF index[f] # Absent THEN index[f] ELSE tree[f]]
    BY <1>3 DEF DispatchRevert, CycleReturn, RestoreFromIndex, gitVars
  <2>2. CrawlType' /\ crawl'.pc = "idle"
    BY <2>1, CrawlMoves DEF CrawlPc
  <2>3. tree' \in Snapshot /\ \A f \in File : tree'[f] # Absent /\ index[f] = Absent => tree[f] # Absent
    BY <2>1 DEF CrawlRepo, GitTypeOK, Snapshot
  <2>4. CrawlRepo'
    BY <2>1, <2>3 DEF CrawlRepo, GitTypeOK
  <2>5. FixPlace' /\ PostPlace'
    <3>1. \A f \in File : tree[f] # Absent => tree'[f] # Absent
      BY <2>1
    <3>2. fix.pc = "replace" => NextFile \in File
      BY Findings DEF CrawlFrames, FixPlace, NextFile, FixType
    <3>3. FixPlace'
      BY <2>1, <3>1, <3>2 DEF CrawlFrames, FixPlace, FixType, NextFile, fixVars
    <3> QED BY <2>1, <3>3, QuietFrames DEF CrawlFrames
  <2>6. CrawlFrames'
    BY <2>1, <2>2, <2>5 DEF CrawlFrames, fixVars
  <2>7. BeginPlace'
    BY <2>1, <2>2 DEF BeginPlace, BeganClean
  <2> QED BY <2>2, <2>4, <2>6, <2>7
<1>4. CASE DispatchPosted
  <2>1. /\ crawl.pc = "post" /\ post' = PostIdle /\ UNCHANGED <<gitVars, fixVars, begin, touched>>
        /\ \E code : crawl' = [CrawlIdle EXCEPT !.code = code]
    BY <1>4 DEF DispatchPosted, CycleReturn
  <2>2. CrawlType' /\ crawl'.pc = "idle"
    BY <2>1, CrawlMoves DEF CrawlPc
  <2>3. CrawlRepo' /\ CrawlFrames'
    BY <2>1, <2>2, QuietGit, QuietFrames, IdleFrames DEF CrawlFrames, fixVars
  <2>4. BeginPlace'
    BY <2>1, <2>2 DEF BeginPlace, BeganClean, gitVars
  <2> QED BY <2>2, <2>3, <2>4
<1> QED BY <1>1, <1>2, <1>3, <1>4

(* A command of the policy: what a file becomes in the tree and the index, *)
(* and what a branch becomes, was in the repository before.                *)
CommandMoves ==
    /\ GitTypeOK' /\ head' \notin RecoveryBranch
    /\ \A f \in File :
          \/ tree'[f] = tree[f] /\ index'[f] \in {index[f], tree[f]}
          \/ \E b \in Place : refs[b] # NoRef /\ tree'[f] = refs[b][f] /\ index'[f] = refs[b][f]
    /\ \A b \in Place : refs'[b] \in {refs[b], refs[head], index}

LEMMA Command ==
    ASSUME GitTypeOK, head \notin RecoveryBranch, GitCommand
    PROVE  CommandMoves
<1> USE DEF Place
<1>1. /\ index \in Snapshot /\ tree \in Snapshot /\ refs[head] \in Snapshot /\ head \in Place
      /\ index # NoRef /\ refs[head] # NoRef
  BY GitAssumption DEF GitTypeOK, Snapshot
<1>2. CASE UNCHANGED gitVars
  BY <1>1, <1>2 DEF CommandMoves, gitVars, GitTypeOK
<1>3. CASE \E b \in FixesBranch : CheckoutNew(b)
  <2>1. PICK b \in FixesBranch : CheckoutNew(b)
    BY <1>3
  <2>2. b \in Branch \ RecoveryBranch
    BY Names
  <2>3. refs' \in [Branch \cup {"HEAD"} -> Snapshot \cup {NoRef}]
        /\ refs'[b] = refs[head] /\ \A c \in Place : c # b => refs'[c] = refs[c]
    BY <1>1, <2>1, <2>2 DEF CheckoutNew, GitTypeOK
  <2> QED BY <1>1, <2>1, <2>2, <2>3 DEF CommandMoves, CheckoutNew, GitTypeOK
<1>4. CASE AddAll
  BY <1>1, <1>4 DEF CommandMoves, AddAll, GitTypeOK
<1>5. CASE Commit
  <2>1. refs' \in [Branch \cup {"HEAD"} -> Snapshot \cup {NoRef}]
        /\ refs'[head] = index /\ \A c \in Place : c # head => refs'[c] = refs[c]
    BY <1>1, <1>5 DEF Commit, GitTypeOK
  <2> QED BY <1>1, <1>5, <2>1 DEF CommandMoves, Commit, GitTypeOK
<1>6. CASE \E b \in Place \ RecoveryBranch : Checkout(b)
  <2>1. PICK b \in Place \ RecoveryBranch : Checkout(b)
    BY <1>6
  <2>2. CASE UNCHANGED gitVars
    BY <1>2, <2>2
  <2>3. CASE b # "HEAD"
    <3>1. /\ refs[b] \in Snapshot /\ refs' = refs /\ head' = b /\ refs[b] # NoRef
          /\ index' = [f \in File |-> IF f \in Differs(b) THEN refs[b][f] ELSE index[f]]
          /\ tree' = [f \in File |-> IF f \in Differs(b) THEN refs[b][f] ELSE tree[f]]
      BY <2>1, <2>3 DEF Checkout, CanCheckout, GitTypeOK
    <3>2. tree' \in Snapshot /\ index' \in Snapshot
      BY <3>1, <1>1 DEF Snapshot
    <3> QED BY <1>1, <2>1, <3>1, <3>2 DEF CommandMoves, GitTypeOK
  <2> QED BY <2>1, <2>2, <2>3 DEF Checkout
<1> QED BY <1>2, <1>3, <1>4, <1>5, <1>6 DEF GitCommand

LEMMA CrawlPosting ==
    ASSUME BInv, DispatchPost PROVE BInv'
<1> USE DEF BInv
<1>1. crawl.pc = "post" /\ PostStep /\ UNCHANGED <<fixVars, crawl, begin, touched>>
  BY DEF DispatchPost, crawlVars
<1>2. PostPlace' /\ GitCommand
  BY <1>1, PolicyStep DEF CrawlRepo, CrawlFrames
<1>3. CommandMoves
  BY <1>2, Command DEF CrawlRepo
<1>4. CrawlRepo'
  BY <1>1, <1>3 DEF CrawlRepo, CommandMoves
<1>5. CrawlType'
  BY <1>1 DEF CrawlType
<1>6. CrawlFrames'
  <2>1. FixPlace'
    BY <1>1 DEF CrawlFrames, FixPlace, FixType, fixVars
  <2> QED BY <1>1, <1>2, <2>1 DEF CrawlFrames, fixVars
<1>7. BeginPlace'
  BY <1>1 DEF BeginPlace, BeganClean, fixVars
<1> QED BY <1>4, <1>5, <1>6, <1>7

LEMMA CrawlEnds ==
    ASSUME BInv, CrawlKilled PROVE BInv'
<1> USE DEF BInv
<1>1. /\ fix' = FixIdle /\ post' = PostIdle /\ UNCHANGED <<gitVars, begin, touched>>
      /\ \E code : crawl' = [CrawlIdle EXCEPT !.code = code]
  BY DEF CrawlKilled, FixCrash, CycleReturn
<1>2. CrawlType' /\ crawl'.pc = "idle"
  BY <1>1, CrawlMoves DEF CrawlPc
<1>3. CrawlRepo' /\ CrawlFrames'
  BY <1>1, <1>2, QuietGit, IdleFrames DEF CrawlFrames
<1>4. BeginPlace'
  BY <1>1, <1>2 DEF BeginPlace, BeganClean, gitVars
<1> QED BY <1>2, <1>3, <1>4

LEMMA OperatorSaving ==
    ASSUME BInv, NEW f \in File, OperatorSaves(f) PROVE BInv'
<1> USE DEF BInv
<1>1. /\ tree' = [tree EXCEPT ![f] = Mine] /\ touched' = touched \cup {f}
      /\ UNCHANGED <<head, refs, index, fixVars, post, crawl, begin>>
  BY DEF OperatorSaves, Save
<1>2. /\ tree' \in Snapshot /\ tree'[f] = Mine /\ Mine # Absent
      /\ \A g \in File : g # f => tree'[g] = tree[g]
  BY <1>1, CrawlNames DEF CrawlRepo, GitTypeOK, Snapshot
<1>3. CrawlRepo'
  BY <1>1, <1>2 DEF CrawlRepo, GitTypeOK
<1>4. CrawlType'
  BY <1>1 DEF CrawlType
<1>5. CrawlFrames'
  <2>1. PostPlace'
    BY <1>1, QuietFrames DEF CrawlFrames
  <2>2. fix.pc = "replace" => NextFile \in File /\ NextFile' = NextFile
    BY <1>1, Findings DEF CrawlFrames, FixPlace, NextFile, FixType, fixVars
  <2>3. FixPlace'
    BY <1>1, <1>2, <2>2 DEF CrawlFrames, FixPlace, FixType, fixVars
  <2> QED BY <1>1, <2>1, <2>3 DEF CrawlFrames, fixVars
<1>6. BeginPlace'
  BY <1>1, <1>2 DEF BeginPlace, BeganClean, fixVars
<1> QED BY <1>3, <1>4, <1>5, <1>6

LEMMA CrawlHolds == BInv /\ [CrawlNext]_allVars => BInv'
<1> SUFFICES ASSUME BInv, [CrawlNext]_allVars PROVE BInv'
  OBVIOUS
<1>1. CASE CrawlNext
  BY <1>1, CrawlAnalyzes, CrawlDispatchFix, CrawlFixing, CrawlChecks, CrawlPosting, CrawlEnds,
     OperatorSaving DEF CrawlNext, CrawlStep
<1>2. CASE UNCHANGED allVars
  <2>1. UNCHANGED <<gitVars, fixVars, post, crawl, begin, touched>>
    BY <1>2 DEF allVars, crawlVars
  <2>2. CrawlRepo' /\ FixPlace' /\ PostPlace'
    BY <2>1, QuietGit, QuietFrames DEF BInv, CrawlFrames, fixVars
  <2> QED BY <2>1, <2>2 DEF BInv, CrawlType, CrawlFrames, BeginPlace, BeganClean, fixVars, gitVars
<1> QED BY <1>1, <1>2

LEMMA CrawlInvariance == CrawlSpec => []BInv
<1>1. CrawlInit => BInv
  BY CrawlStarts
<1>2. BInv /\ [CrawlNext]_allVars => BInv'
  BY CrawlHolds
<1> QED BY <1>1, <1>2, PTL DEF CrawlSpec

(* Only a crawl cycle that began on a clean tree commits: what a killed,   *)
(* refused or failed cycle before it left in the tree is in no commit of   *)
(* this one (the dirty-tree gate of _run_impl, which the dispatcher of     *)
(* cli/cycle_runner.py calls without --force).                             *)
THEOREM CommitsAreClean == CrawlSpec => []CommitIsThisCycles
<1>1. BInv => CommitIsThisCycles
  BY DEF BInv, BeginPlace, BeganClean, CommitIsThisCycles
<1> QED BY <1>1, CrawlInvariance, PTL
-----------------------------------------------------------------------------
(* Files that do not compile, when only files of the index are analyzed.   *)
LEMMA CompileStarts == CrawlInit => CompilePlace
<1> SUFFICES ASSUME CrawlInit PROVE CompilePlace
  OBVIOUS
<1>1. /\ index = Source /\ tree = Source /\ crawl = CrawlIdle
      /\ \A b \in Place : refs[b] # NoRef => refs[b] = Source
  BY DEF CrawlInit, RepairInit, Place
<1>2. Sound(Source)
  BY CrawlNames DEF Sound
<1>3. CompileRepo
  BY <1>1, <1>2 DEF CompileRepo, Sound
<1> QED BY <1>1, <1>3 DEF CompilePlace, TrackedPlace, CheckCoversTheTree, CrawlIdle

LEMMA CompileQuiet ==
    ASSUME CompileRepo, UNCHANGED gitVars PROVE CompileRepo'
BY DEF CompileRepo, Sound, gitVars

LEMMA CompileAnalyzes ==
    ASSUME ~AnyFile, BInv, CompilePlace,
           (\E mode \in Mode : CycleStart(mode)) \/ CycleAnalyze \/ CycleRaises \/ CycleAnalyzed
    PROVE  CompilePlace'
<1>1. UNCHANGED gitVars
  BY DEF CycleStart, CycleAnalyze, CycleRaises, CycleAnalyzed
<1>2. CompileRepo'
  BY <1>1, CompileQuiet DEF CompilePlace
<1>3. CrawlType /\ TrackedPlace
  BY DEF BInv, CompilePlace
<1>4. CASE \E mode \in Mode : CycleStart(mode)
  <2>1. PICK mode \in Mode, bundles \in Bundles, analyzers \in Analyzers :
           /\ \A bundle \in ToSet(bundles) : bundle \subseteq Candidates
           /\ crawl' = [CrawlIdle EXCEPT !.pc = "analyze", !.mode = mode,
                                         !.batch = Crossed(bundles, analyzers)]
    BY <1>4 DEF CycleStart
  <2>2. crawl'.pc = "analyze" /\ crawl'.batch = Crossed(bundles, analyzers) /\ crawl'.findings = <<>>
    BY <2>1 DEF CrawlIdle
  <2>3. \A k \in DOMAIN Crossed(bundles, analyzers) :
           \A f \in Crossed(bundles, analyzers)[k].bundle : index[f] # Absent
    BY <2>1, BatchOfPairs DEF Candidates
  <2>4. TrackedPlace'
    BY <1>1, <2>2, <2>3 DEF TrackedPlace, InIndex, gitVars
  <2> QED BY <1>2, <2>2, <2>4 DEF CompilePlace, CheckCoversTheTree
<1>5. CASE CycleAnalyze
  <2> DEFINE pair == crawl.batch[crawl.next]
  <2>1. pair \in Pairs /\ \A f \in pair.bundle : index[f] # Absent
    BY <1>3, <1>5, PairComesUp DEF TrackedPlace, CycleAnalyze
  <2>2. PICK report \in Analysis[pair.bundle][pair.analyzer] :
           crawl' = [crawl EXCEPT !.findings = @ \o report, !.next = @ + 1]
    BY <1>5 DEF CycleAnalyze
  <2>3. report \in Seq(Finding) /\ InIndex(report)
    BY <2>1, <2>2, CrawlNames DEF InIndex
  <2>4. crawl.findings \in Seq(Finding) /\ crawl.pc = "analyze" /\ InIndex(crawl.findings)
    BY <1>3, <1>5 DEF CrawlType, CycleAnalyze, TrackedPlace
  <2> HIDE DEF pair
  <2>5. crawl'.pc = crawl.pc /\ crawl'.findings = crawl.findings \o report /\ crawl'.batch = crawl.batch
    BY <1>3, <2>2 DEF CrawlType
  <2>6. InIndex(crawl.findings \o report)
    BY <2>3, <2>4, ConcatProperties DEF InIndex
  <2>7. TrackedPlace'
    BY <1>1, <1>3, <2>4, <2>5, <2>6 DEF TrackedPlace, InIndex, gitVars
  <2> QED BY <1>2, <2>4, <2>5, <2>7 DEF CompilePlace, CheckCoversTheTree
<1>6. CASE CycleRaises \/ CycleAnalyzed
  <2>1. UNCHANGED <<begin, touched>> /\ crawl.pc = "analyze"
        /\ \/ crawl' = [crawl EXCEPT !.pc = "dispatch"]
           \/ \E code : crawl' = [CrawlIdle EXCEPT !.code = code]
    BY <1>6 DEF CycleRaises, CycleAnalyzed, CycleReturn
  <2>2. crawl'.pc \in {"idle", "dispatch"} /\ crawl'.findings \in {crawl.findings, <<>>}
    BY <1>3, <2>1, CrawlMoves DEF CrawlPc
  <2>3. TrackedPlace'
    BY <1>1, <1>3, <2>1, <2>2 DEF TrackedPlace, InIndex, gitVars
  <2> QED BY <1>2, <2>2, <2>3 DEF CompilePlace, CheckCoversTheTree
<1> QED BY <1>4, <1>5, <1>6

(* The check that passes says that the whole tree compiles.                *)
LEMMA CheckSeesAll == CompileRepo /\ GitTypeOK /\ Verified => Sound(tree)
BY DEF CompileRepo, Sound, Verified, Modified, GitTypeOK

LEMMA CompileChecks ==
    ASSUME BInv, CompilePlace,
           \/ DispatchFix \/ DispatchFixed \/ DispatchVerify \/ DispatchPosted
           \/ CrawlKilled
    PROVE  CompilePlace'
<1>1. UNCHANGED <<gitVars, begin, touched>>
  BY DEF DispatchFix, FixStart, DispatchFixed, DispatchVerify, PostStart, DispatchPosted,
         CrawlKilled, FixCrash
<1>2. CrawlType /\ TrackedPlace /\ CompileRepo
  BY DEF BInv, CompilePlace
<1>3. crawl'.pc = "post" => Sound(tree)
  <2>1. crawl'.pc = "post" => DispatchVerify /\ Verified
    BY <1>2 DEF DispatchFix, DispatchFixed, DispatchVerify, DispatchPosted, CrawlKilled, CycleReturn,
                CrawlType, CrawlIdle
  <2> QED BY <1>2, <2>1, CheckSeesAll DEF BInv, CrawlRepo
<1>4. /\ crawl'.pc \notin {"analyze", "dispatch"}
      /\ crawl'.pc = "fixing" => DispatchFix
  BY <1>2 DEF DispatchFix, DispatchFixed, DispatchVerify, DispatchPosted, CrawlKilled, CycleReturn,
              CrawlType, CrawlIdle
<1>5. ASSUME DispatchFix PROVE InIndex(fix'.findings)
  <2> DEFINE flags == [NoFlags EXCEPT !.apply = TRUE, !.auto = HasLLM]
  <2>1. flags \in Flags
    <3>1. HasLLM \in BOOLEAN
      BY DEF HasLLM
    <3> QED BY <3>1 DEF Flags, NoFlags
  <2>2. crawl.pc = "dispatch" /\ FixStart(flags, crawl.findings, DOMAIN crawl.findings)
    BY <1>5 DEF DispatchFix
  <2> HIDE DEF flags
  <2>3. fix'.findings = crawl.findings
    BY <1>2, <2>1, <2>2, FixStartOutcome DEF CrawlType
  <2> QED BY <1>2, <2>2, <2>3 DEF TrackedPlace
<1>6. TrackedPlace'
  BY <1>1, <1>4, <1>5 DEF TrackedPlace, InIndex, gitVars
<1>7. CompileRepo'
  BY <1>1, <1>2, CompileQuiet
<1> QED BY <1>1, <1>3, <1>6, <1>7 DEF CompilePlace, CheckCoversTheTree, Sound, gitVars

(* What the pass writes is a file of a finding.                            *)
LEMMA CompileFixing ==
    ASSUME BInv, CompilePlace, DispatchFixing PROVE CompilePlace'
<1>1. crawl.pc = "fixing" /\ FixStep /\ crawl' = crawl
  BY DEF DispatchFixing, crawlVars
<1>2. FixOutcome
  BY <1>1, FixStepOutcome DEF BInv, CrawlFrames, CrawlRepo
<1>3. UNCHANGED <<head, index>> /\ fix'.findings = fix.findings
      /\ \/ refs' = refs
         \/ \E b \in RecoveryBranch : refs' = [refs EXCEPT ![b] = refs[head]]
      /\ \/ tree' = tree
         \/ \E p \in File, c \in Content :
               (\E i \in DOMAIN fix.findings : p = fix.findings[i].path) /\ tree' = [tree EXCEPT ![p] = c]
  BY <1>2 DEF FixOutcome, FixQuiet, FixBranches, FixWrites
<1>4. \A b \in Place : refs'[b] \in {refs[b], refs[head]} /\ refs[head] # NoRef /\ head \in Place
  BY <1>3, Names DEF BInv, CrawlRepo, GitTypeOK, Place
<1>5. \A f \in File : tree'[f] = tree[f] \/ index[f] # Absent
  BY <1>1, <1>3 DEF CompilePlace, TrackedPlace, InIndex, BInv, CrawlRepo, GitTypeOK, Snapshot
<1>6. CompileRepo'
  BY <1>3, <1>4, <1>5 DEF CompilePlace, CompileRepo, Sound
<1>7. TrackedPlace'
  BY <1>1, <1>3 DEF CompilePlace, TrackedPlace, InIndex
<1> QED BY <1>1, <1>6, <1>7 DEF CompilePlace, CheckCoversTheTree

LEMMA CompileReverts ==
    ASSUME BInv, CompilePlace, DispatchRevert PROVE CompilePlace'
<1>1. /\ UNCHANGED <<head, refs, index, begin, touched>>
      /\ \E code : crawl' = [CrawlIdle EXCEPT !.code = code]
      /\ \/ tree' = tree
         \/ tree' = [f \in File |-> IF index[f] # Absent THEN index[f] ELSE tree[f]]
  BY DEF DispatchRevert, CycleReturn, RestoreFromIndex, gitVars
<1>2. crawl'.pc = "idle"
  BY <1>1, CrawlMoves DEF CrawlPc, BInv
<1>3. CompileRepo'
  BY <1>1 DEF CompilePlace, CompileRepo, Sound
<1> QED BY <1>2, <1>3 DEF CompilePlace, TrackedPlace, CheckCoversTheTree

LEMMA CompilePosting ==
    ASSUME BInv, CompilePlace, DispatchPost PROVE CompilePlace'
<1>1. crawl.pc = "post" /\ PostStep /\ crawl' = crawl
  BY DEF DispatchPost, crawlVars
<1>2. CommandMoves
  BY <1>1, PolicyStep, Command DEF BInv, CrawlRepo, CrawlFrames
<1>3. Sound(tree) /\ Sound(index) /\ refs[head] # NoRef /\ head \in Place
      /\ \A b \in Place : refs[b] # NoRef => Sound(refs[b])
  BY <1>1 DEF CompilePlace, CheckCoversTheTree, CompileRepo, Sound, BInv, CrawlRepo, GitTypeOK, Place
<1>4. Sound(tree') /\ Sound(index')
  BY <1>2, <1>3 DEF CommandMoves, Sound
<1>5. \A b \in Place : refs'[b] # NoRef => Sound(refs'[b])
  BY <1>2, <1>3 DEF CommandMoves
<1>6. CompileRepo'
  BY <1>4, <1>5 DEF CompileRepo, Sound
<1> QED BY <1>1, <1>4, <1>6 DEF CompilePlace, TrackedPlace, CheckCoversTheTree, Sound

LEMMA CompileSaves ==
    ASSUME BInv, CompilePlace, NEW f \in File, OperatorSaves(f) PROVE CompilePlace'
<1>1. /\ tree' = [tree EXCEPT ![f] = Mine]
      /\ UNCHANGED <<head, refs, index, fixVars, crawl>>
  BY DEF OperatorSaves, Save
<1>2. tree'[f] = Mine /\ Mine # Absent /\ Compiles(Mine)
      /\ \A g \in File : g # f => tree'[g] = tree[g]
  BY <1>1, CrawlNames DEF BInv, CrawlRepo, GitTypeOK, Snapshot
<1>3. CompileRepo'
  BY <1>1, <1>2 DEF CompilePlace, CompileRepo, Sound
<1>4. CheckCoversTheTree'
  BY <1>1, <1>2 DEF CompilePlace, CheckCoversTheTree
<1>5. TrackedPlace'
  BY <1>1 DEF CompilePlace, TrackedPlace, InIndex, fixVars
<1> QED BY <1>3, <1>4, <1>5 DEF CompilePlace

LEMMA CompileHolds ==
    ASSUME ~AnyFile, BInv, CompilePlace, [CrawlNext]_allVars PROVE CompilePlace'
<1>1. CASE CrawlNext
  BY <1>1, CompileAnalyzes, CompileChecks, CompileFixing, CompileReverts, CompilePosting, CompileSaves
     DEF CrawlNext, CrawlStep
<1>2. CASE UNCHANGED allVars
  <2>1. UNCHANGED <<gitVars, fix, crawl>>
    BY <1>2 DEF allVars, crawlVars, fixVars
  <2>2. CompileRepo'
    BY <2>1, CompileQuiet DEF CompilePlace
  <2> QED BY <2>1, <2>2 DEF CompilePlace, TrackedPlace, InIndex, CheckCoversTheTree, gitVars
<1> QED BY <1>1, <1>2

(* As long as only files of git ls-files are analyzed, no commit of a crawl *)
(* cycle holds a file that does not compile: the check of the dispatcher    *)
(* sees every broken file there is in the tree, whichever cycle left it     *)
(* there (_verify_modified_files_compile, cli/cycle_runner.py).             *)
THEOREM CompilingOnly ==
    ASSUME ~AnyFile PROVE CrawlSpec => [](OnlyCompilingCommitted /\ CheckCoversTheTree)
<1>1. CrawlInit => CompilePlace
  BY CompileStarts
<1>2. BInv /\ CompilePlace /\ [CrawlNext]_allVars => CompilePlace'
  BY CompileHolds
<1>3. CompilePlace => OnlyCompilingCommitted /\ CheckCoversTheTree
  BY Names DEF CompilePlace, CompileRepo, Sound, OnlyCompilingCommitted, Place
<1> QED BY <1>1, <1>2, <1>3, CrawlInvariance, PTL DEF CrawlSpec
=============================================================================
