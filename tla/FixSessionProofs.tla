-------------------------- MODULE FixSessionProofs --------------------------
(***************************************************************************)
(* What passes of `autofix fix` do to the lines of files, for any files,   *)
(* reports and flags, any number of passes, kills at any step and any      *)
(* saves of the operator in between.  LinesInv carries the deletion loop   *)
(* half-way through a file; it needs a disk that takes every write whole   *)
(* (DiskCanFill = FALSE).  The recovery branch and the temporary files do  *)
(* not depend on it.                                                       *)
(***************************************************************************)
EXTENDS FixSession, SequenceTheorems, FiniteSetTheorems, WellFoundedInduction, TLAPS

(* The findings of the pass after deduplication, as positions.             *)
Kept == Dedup(fix.findings, DOMAIN fix.findings)

(* The frame of the call; only what the proofs look at has a type.         *)
Frame ==
    /\ fix \in [pc : FixPc, flags : Flags, findings : Seq(Finding),
                todo : SUBSET Nat, plan : SUBSET Nat, buffer : {fix.buffer},
                drop : SUBSET (Nat \ {0}), deleted : {fix.deleted}, applied : {fix.applied},
                tasks : SUBSET Nat, misses : {fix.misses},
                llm : {fix.llm}, exit : {fix.exit}]
    /\ fix.todo \cup fix.plan \cup fix.tasks \subseteq Kept
    /\ \A i \in fix.tasks : Tier(fix.findings[i]) = "LLM_PATCH"

Typed ==
    /\ Frame
    /\ tree \in Snapshot /\ base \in Snapshot /\ touched \subseteq File
    /\ fix.pc \in {"status", "branch", "classify"} => fix.todo # {}
    /\ fix.pc = "replace" => /\ fix.plan # {} /\ fix.buffer \in Seq(SourceLine)
                             /\ IsFiniteSet(fix.drop)
    /\ fix.pc = "git_apply" => fix.tasks # {} /\ fix.flags.auto
    /\ fix.flags.auto => /\ fix.pc \notin {"idle", "done"} => fix.flags.apply
                         /\ fix.pc \in {"produce", "git_apply"} => fix.plan = {}

(* Until the first rewrite an untouched file is as the pass found it.      *)
Unchanged ==
    fix.pc \in {"status", "branch", "classify"} =>
        \A p \in File \ touched : tree[p] = base[p]

(* What the classification knows of a finding it planned, and what stays   *)
(* true until its file is written.                                         *)
Planned(f) ==
    /\ f.start = f.end /\ base[f.path] # Absent /\ f.start <= Len(base[f.path])
    /\ base[f.path][f.start].kind = "import"
    /\ tree[f.path] = base[f.path]

Plans == \A i \in fix.plan :
            fix.findings[i].path \notin touched => Planned(fix.findings[i])

Doomed == {fix.findings[i].start : i \in Hits}

(* The deletion loop half-way: e tells where each line of the buffer was.  *)
(* Exactly the lines already dropped are missing, and the lines up to the  *)
(* next one to drop have not moved.                                        *)
Cut(e, now, was, doomed, drop) ==
    /\ e \in [DOMAIN now -> DOMAIN was]
    /\ \A i, j \in DOMAIN now : i < j => e[i] < e[j]
    /\ \A i \in DOMAIN now : now[i] = was[e[i]]
    /\ DOMAIN was \ Range(e) = doomed \ drop
    /\ drop \subseteq doomed /\ doomed \subseteq DOMAIN was
    /\ \A d \in drop : \A k \in 1..d : k \in DOMAIN now /\ e[k] = k

(* What OtherLinesKept says of one file.                                   *)
Follows(p) ==
    base[p] # Absent =>
        /\ tree[p] # Absent
        /\ \E e \in [DOMAIN tree[p] -> DOMAIN base[p]] :
              Traces(e, tree[p], base[p], Deletable(p))

Cutting ==
    fix.pc = "replace" /\ NextFile \notin touched =>
        \E e \in [DOMAIN fix.buffer -> DOMAIN base[NextFile]] :
            Cut(e, fix.buffer, base[NextFile], Doomed, fix.drop)

LinesInv == Typed /\ Unchanged /\ Plans /\ Cutting /\ OtherLinesKept
-----------------------------------------------------------------------------
(* A set of positions has a first one, and a last one when it is finite.   *)
LEMMA LeastNat ==
    ASSUME NEW S, S \subseteq Nat, S # {}
    PROVE  \E i \in S : \A j \in S : i <= j
<1> DEFINE R == OpToRel(<, Nat)
<1>1. IsWellFoundedOn(R, Nat)
  BY NatLessThanWellFounded
<1>2. \A x, y \in S : y < x => <<y, x>> \in R
  BY DEF OpToRel
<1> HIDE DEF R
<1>3. PICK x \in S : \A y \in S : ~(<<y, x>> \in R)
  BY <1>1, WFMin
<1>4. \A y \in S : ~(y < x)
  BY <1>2, <1>3
<1> QED BY <1>4

LEMMA MinIn ==
    ASSUME NEW S, S \subseteq Nat, S # {}
    PROVE  Min(S) \in S /\ \A j \in S : Min(S) <= j
BY LeastNat DEF Min

LEMMA MaxIn ==
    ASSUME NEW S, S \subseteq Nat, S # {}, IsFiniteSet(S)
    PROVE  Max(S) \in S /\ \A j \in S : j <= Max(S)
<1> DEFINE Unbounded(T) == T \subseteq S /\ T # {} /\ \A x \in T : \E y \in T : x < y
           Sizes == {Cardinality(T) : T \in {T \in SUBSET S : Unbounded(T)}}
<1>1. \A T \in SUBSET S : IsFiniteSet(T) /\ Cardinality(T) \in Nat
  BY FS_Subset, FS_CardinalityType
<1>2. ~Unbounded(S)
  <2> SUFFICES ASSUME Unbounded(S) PROVE FALSE
    OBVIOUS
  <2>1. Sizes \subseteq Nat /\ Sizes # {}
    BY <1>1
  <2>2. PICK n \in Sizes : \A m \in Sizes : n <= m
    BY <2>1, LeastNat
  <2>3. PICK T \in SUBSET S : Unbounded(T) /\ Cardinality(T) = n
    BY <2>2
  <2>4. PICK x \in T : TRUE
    BY <2>3
  <2> DEFINE U == {y \in T : x < y}
  <2>5. Unbounded(U)
    <3>1. U # {}
      BY <2>3, <2>4
    <3>2. ASSUME NEW y \in U PROVE \E z \in U : y < z
      <4>1. PICK z \in T : y < z
        BY <2>3
      <4>2. x \in Nat /\ y \in Nat /\ z \in Nat /\ x < y
        BY <2>3, <2>4
      <4> QED BY <4>1, <4>2
    <3> QED BY <3>1, <3>2
  <2>6. U \subseteq T \ {x} /\ x \in Nat
    BY <2>3, <2>4
  <2>7. Cardinality(U) <= Cardinality(T \ {x}) /\ Cardinality(T \ {x}) = n - 1
    BY <1>1, <2>3, <2>4, <2>6, FS_Subset, FS_RemoveElement
  <2>8. Cardinality(U) \in Sizes
    BY <2>5
  <2>9. n <= Cardinality(U) /\ n \in Nat /\ Cardinality(U) \in Nat
    BY <2>1, <2>2, <2>8
  <2> HIDE DEF U
  <2> QED BY <2>7, <2>9
<1>3. \E x \in S : \A y \in S : x >= y
  BY <1>2
<1> QED BY <1>3 DEF Max

(* The lines to drop in a file are a finite set.                           *)
LEMMA FiniteLines ==
    ASSUME NEW n \in Nat, NEW I \in SUBSET (1..n), NEW f
    PROVE  IsFiniteSet({f[i].start : i \in I})
<1> DEFINE T == {f[i].start : i \in I}
           g == [i \in I |-> f[i].start]
<1>0. 1 \in Int /\ n \in Int
  OBVIOUS
<1>1. IsFiniteSet(1..n)
  BY <1>0, FS_Interval
<1>9. IsFiniteSet(I)
  BY <1>1, FS_Subset
<1>2. g \in Surjection(I, T)
  BY DEF Surjection
<1> HIDE DEF g, T
<1>3. IsFiniteSet(T)
  BY <1>9, <1>2, FS_Surjection
<1> QED BY <1>3 DEF T

(* One line less: what is left keeps its order and the lines before it.    *)
LEMMA Removed ==
    ASSUME NEW s \in Seq(SourceLine), NEW n \in 1..Len(s)
    PROVE  /\ RemoveAt(s, n) \in Seq(SourceLine)
           /\ DOMAIN RemoveAt(s, n) = 1..(Len(s) - 1)
           /\ \A i \in 1..(Len(s) - 1) : RemoveAt(s, n)[i] = IF i < n THEN s[i] ELSE s[i + 1]
<1> DEFINE l == SubSeq(s, 1, n - 1)
           r == SubSeq(s, n + 1, Len(s))
<1>1. /\ l \in Seq(SourceLine) /\ Len(l) = n - 1 /\ \A i \in 1..(n - 1) : l[i] = s[i]
      /\ r \in Seq(SourceLine) /\ Len(r) = Len(s) - n
      /\ \A i \in 1..(Len(s) - n) : r[i] = s[n + i]
  BY SubSeqProperties
<1>2. RemoveAt(s, n) = l \o r
  BY DEF RemoveAt
<1> HIDE DEF l, r
<1>3. /\ l \o r \in Seq(SourceLine) /\ Len(l \o r) = Len(s) - 1
      /\ \A i \in 1..(Len(s) - 1) : (l \o r)[i] = IF i <= n - 1 THEN l[i] ELSE r[i - (n - 1)]
  BY <1>1, ConcatProperties
<1>4. DOMAIN (l \o r) = 1..(Len(s) - 1)
  BY <1>3
<1>5. ASSUME NEW i \in 1..(Len(s) - 1)
      PROVE  (l \o r)[i] = IF i < n THEN s[i] ELSE s[i + 1]
  <2>1. CASE i < n
    BY <1>1, <1>3, <2>1
  <2>2. CASE ~(i < n)
    <3>1. i - (n - 1) \in 1..(Len(s) - n) /\ n + (i - (n - 1)) = i + 1 /\ ~(i <= n - 1)
      BY <2>2
    <3> QED BY <1>1, <1>3, <2>2, <3>1
  <2> QED BY <2>1, <2>2
<1> QED BY <1>2, <1>3, <1>4, <1>5

LEMMA CutBegins ==
    ASSUME NEW was \in Seq(SourceLine), NEW doomed, doomed \subseteq DOMAIN was
    PROVE  \E e \in [DOMAIN was -> DOMAIN was] : Cut(e, was, was, doomed, doomed)
<1> DEFINE e == [i \in DOMAIN was |-> i]
<1>1. e \in [DOMAIN was -> DOMAIN was] /\ Range(e) = DOMAIN was
  BY DEF Range
<1>2. DOMAIN was = 1..Len(was) /\ Len(was) \in Nat
  OBVIOUS
<1>3. \A d \in doomed : \A k \in 1..d : k \in DOMAIN was /\ e[k] = k
  <2> TAKE d \in doomed
  <2>1. d \in 1..Len(was)
    BY <1>2
  <2> QED BY <1>2, <2>1
<1>4. \A i, j \in DOMAIN was : i < j => e[i] < e[j]
  OBVIOUS
<1>5. DOMAIN was \ Range(e) = doomed \ doomed
  BY <1>1
<1> QED BY <1>1, <1>3, <1>4, <1>5 DEF Cut

LEMMA CutGoesOn ==
    ASSUME NEW now \in Seq(SourceLine), NEW was \in Seq(SourceLine), NEW doomed, NEW drop, NEW e,
           Cut(e, now, was, doomed, drop), NEW n \in drop, \A d \in drop : d <= n
    PROVE  /\ n \in 1..Len(now)
           /\ \E f \in [DOMAIN RemoveAt(now, n) -> DOMAIN was] :
                Cut(f, RemoveAt(now, n), was, doomed, drop \ {n})
<1> DEFINE rest == RemoveAt(now, n)
           f == [i \in DOMAIN rest |-> IF i < n THEN e[i] ELSE e[i + 1]]
<1>1. /\ DOMAIN was = 1..Len(was) /\ Len(was) \in Nat /\ DOMAIN now = 1..Len(now) /\ Len(now) \in Nat
      /\ drop \subseteq 1..Len(was) /\ n \in 1..Len(was)
  BY DEF Cut
<1>2. n \in 1..Len(now) /\ e[n] = n
  <2>1. n \in 1..n
    BY <1>1
  <2> QED BY <1>1, <2>1 DEF Cut
<1>3. /\ e \in [1..Len(now) -> 1..Len(was)]
      /\ \A i, j \in 1..Len(now) : i < j => e[i] < e[j]
      /\ \A i \in 1..Len(now) : now[i] = was[e[i]]
  BY <1>1 DEF Cut
<1>4. /\ DOMAIN rest = 1..(Len(now) - 1)
      /\ \A i \in 1..(Len(now) - 1) : rest[i] = IF i < n THEN now[i] ELSE now[i + 1]
  BY <1>2, Removed
<1> HIDE DEF rest
<1>5. f \in [DOMAIN rest -> DOMAIN was]
  BY <1>1, <1>3, <1>4
<1>6. \A i, j \in DOMAIN rest : i < j => f[i] < f[j]
  BY <1>1, <1>2, <1>3, <1>4
<1>7. \A i \in DOMAIN rest : rest[i] = was[f[i]]
  BY <1>1, <1>2, <1>3, <1>4
<1>8. Range(f) = Range(e) \ {n}
  <2>1. ASSUME NEW i \in DOMAIN rest PROVE f[i] \in Range(e) \ {n}
    <3>1. CASE i < n
      <4>1. i \in 1..Len(now) /\ e[i] < e[n] /\ f[i] = e[i] /\ e[i] \in Nat
        BY <1>1, <1>2, <1>3, <1>4, <3>1
      <4> QED BY <1>1, <1>2, <1>3, <4>1 DEF Range
    <3>2. CASE ~(i < n)
      <4>1. i + 1 \in 1..Len(now) /\ e[n] < e[i + 1] /\ f[i] = e[i + 1] /\ e[i + 1] \in Nat
        BY <1>1, <1>2, <1>3, <1>4, <3>2
      <4> QED BY <1>1, <1>2, <1>3, <4>1 DEF Range
    <3> QED BY <3>1, <3>2
  <2>2. ASSUME NEW x \in Range(e) \ {n} PROVE \E i \in DOMAIN rest : f[i] = x
    <3>1. PICK j \in 1..Len(now) : e[j] = x
      BY <1>3 DEF Range
    <3>2. j # n
      BY <1>2, <3>1
    <3>3. CASE j < n
      <4>1. j \in DOMAIN rest /\ f[j] = x
        BY <1>1, <1>2, <1>4, <3>1, <3>3
      <4> QED BY <4>1
    <3>4. CASE j > n
      <4>1. j - 1 \in DOMAIN rest /\ ~(j - 1 < n) /\ (j - 1) + 1 = j
        BY <1>1, <1>2, <1>4, <3>1, <3>4
      <4> QED BY <3>1, <4>1
    <3> QED BY <1>1, <1>2, <3>2, <3>3, <3>4
  <2> HIDE DEF f
  <2>3. DOMAIN f = DOMAIN rest
    BY <1>5
  <2> QED BY <2>1, <2>2, <2>3 DEF Range
<1>9. DOMAIN was \ Range(f) = doomed \ (drop \ {n})
  BY <1>1, <1>8 DEF Cut
<1>10. \A d \in drop \ {n} : \A k \in 1..d : k \in DOMAIN rest /\ f[k] = k
  <2> TAKE d \in drop \ {n}
  <2>1. d \in Nat /\ n \in Nat /\ d < n
    BY <1>1
  <2> TAKE k \in 1..d
  <2>2. k \in 1..n /\ k < n /\ k \in 1..(Len(now) - 1)
    BY <1>2, <2>1
  <2>3. e[k] = k
    BY <2>2 DEF Cut
  <2> QED BY <1>4, <2>2, <2>3
<1> HIDE DEF f
<1>11. Cut(f, rest, was, doomed, drop \ {n})
  BY <1>5, <1>6, <1>7, <1>9, <1>10 DEF Cut
<1> QED BY <1>2, <1>5, <1>11 DEF rest
-----------------------------------------------------------------------------
(* What the frame of a running pass tells.                                 *)
LEMMA Basics ==
    ASSUME Frame
    PROVE  /\ DOMAIN fix.findings = 1..Len(fix.findings) /\ Len(fix.findings) \in Nat
           /\ Kept \subseteq DOMAIN fix.findings
           /\ \A i \in DOMAIN fix.findings : fix.findings[i] \in Finding
           /\ \A i \in DOMAIN fix.findings : /\ fix.findings[i].path \in File
                                             /\ fix.findings[i].start \in Nat \ {0}
                                             /\ fix.findings[i].end \in Nat \ {0}
           /\ fix.todo # {} => Min(fix.todo) \in fix.todo
           /\ fix.plan # {} => Min(fix.plan) \in fix.plan /\ Min(fix.plan) \in Hits /\ NextFile \in File
           /\ fix.tasks # {} => Min(fix.tasks) \in fix.tasks /\ Task.path \in File
<1>1. fix.findings \in Seq(Finding) /\ Kept \subseteq DOMAIN fix.findings
  BY DEF Frame, Kept, Dedup
<1>2. /\ DOMAIN fix.findings = 1..Len(fix.findings) /\ Len(fix.findings) \in Nat
      /\ \A i \in DOMAIN fix.findings : fix.findings[i] \in Finding
  BY <1>1
<1>3. \A i \in DOMAIN fix.findings : /\ fix.findings[i].path \in File
                                     /\ fix.findings[i].start \in Nat \ {0}
                                     /\ fix.findings[i].end \in Nat \ {0}
  BY <1>2 DEF Finding
<1>4. fix.todo \subseteq Nat /\ fix.plan \subseteq Nat /\ fix.tasks \subseteq Nat
  BY DEF Frame
<1>5. /\ fix.todo # {} => Min(fix.todo) \in fix.todo
      /\ fix.plan # {} => Min(fix.plan) \in fix.plan
      /\ fix.tasks # {} => Min(fix.tasks) \in fix.tasks
  BY <1>4, MinIn
<1>6. fix.plan \subseteq DOMAIN fix.findings /\ fix.tasks \subseteq DOMAIN fix.findings
  BY <1>1 DEF Frame
<1> QED BY <1>1, <1>2, <1>3, <1>5, <1>6 DEF NextFile, Hits, Task

(* Steps that leave the findings and the flags leave what is derived.      *)
LEMMA Derived ==
    ASSUME fix'.findings = fix.findings, fix'.flags = fix.flags, base' = base
    PROVE  /\ Kept' = Kept /\ Acted' = Acted
           /\ \A p : Deletable(p)' = Deletable(p)
           /\ \A e, now, was, missing : Traces(e, now, was, missing)' = Traces(e, now, was, missing)
<1>1. Kept' = Kept
  BY DEF Kept, Dedup
<1>2. Acted' = Acted
  BY DEF Acted, Dedup
<1>3. \A p : Deletable(p)' = Deletable(p)
  BY <1>2 DEF Deletable
<1>4. \A e, now, was, missing : Traces(e, now, was, missing)' = Traces(e, now, was, missing)
  BY DEF Traces
<1> QED BY <1>1, <1>2, <1>3, <1>4

LEMMA FollowsOn ==
    ASSUME NEW p, Follows(p), fix'.findings = fix.findings, fix'.flags = fix.flags,
           base' = base, tree'[p] = tree[p]
    PROVE  Follows(p)'
BY Derived DEF Follows, Traces

(* A step that only moves the pass on, or ends it.                         *)
LEMMA Moves ==
    ASSUME Frame, NEW pc \in FixPc,
           \/ fix' = [fix EXCEPT !.pc = pc]
           \/ \E code : fix' = [fix EXCEPT !.pc = pc, !.exit = code]
    PROVE  /\ Frame' /\ fix'.pc = pc
           /\ fix'.flags = fix.flags /\ fix'.findings = fix.findings /\ fix'.todo = fix.todo
           /\ fix'.plan = fix.plan /\ fix'.tasks = fix.tasks /\ fix'.applied = fix.applied
<1>1. fix'.findings = fix.findings => Kept' = Kept
  BY DEF Kept, Dedup
<1>2. CASE fix' = [fix EXCEPT !.pc = pc]
  BY <1>1, <1>2 DEF Frame, Tier
<1>3. CASE \E code : fix' = [fix EXCEPT !.pc = pc, !.exit = code]
  <2>1. PICK code : fix' = [fix EXCEPT !.pc = pc, !.exit = code]
    BY <1>3
  <2> QED BY <1>1, <2>1 DEF Frame, Tier
<1> QED BY <1>2, <1>3

(* A step that writes no file and does not start to cut one.               *)
LEMMA Quiet ==
    ASSUME LinesInv, Typed', UNCHANGED <<base, touched, tree>>, Running,
           fix'.findings = fix.findings, fix'.flags = fix.flags, fix'.plan \subseteq fix.plan,
           fix'.pc # "replace",
           fix'.pc \in {"status", "branch", "classify"} => fix.pc \in {"status", "branch", "classify"}
    PROVE  LinesInv'
<1> USE DEF LinesInv
<1>1. Unchanged'
  BY DEF Unchanged
<1>2. Plans'
  BY DEF Plans, Planned
<1>3. Cutting'
  BY DEF Cutting
<1>4. OtherLinesKept'
  <2>1. \A p \in File \ touched : Follows(p)
    BY DEF OtherLinesKept, Follows
  <2>2. \A p \in File \ touched : Follows(p)'
    BY <2>1, FollowsOn
  <2> QED BY <2>2 DEF OtherLinesKept, Follows
<1> QED BY <1>1, <1>2, <1>3, <1>4
-----------------------------------------------------------------------------
(* Every step of a pass keeps the invariant.  Each lemma is one step.      *)
LEMMA StatusKeeps ==
    ASSUME LinesInv, FixStatus, UNCHANGED env PROVE LinesInv'
<1> USE DEF LinesInv, env, gitVars
<1>1. fix.pc = "status" /\ UNCHANGED <<base, touched, tree>> /\ Running
  BY DEF FixStatus, Running
<1>2. /\ Frame' /\ fix'.todo = fix.todo /\ fix'.findings = fix.findings
      /\ fix'.flags = fix.flags /\ fix'.plan = fix.plan
      /\ fix'.pc \in {"done", "branch"}
  <2>1. CASE \E code : FixReturn(code)
    BY <2>1, Moves DEF FixReturn, FixPc, Typed
  <2>2. CASE fix' = [fix EXCEPT !.pc = "branch"]
    BY <2>2, Moves DEF FixPc, Typed
  <2> QED BY <2>1, <2>2 DEF FixStatus
<1>3. Typed'
  BY <1>1, <1>2 DEF Typed
<1> QED BY <1>1, <1>2, <1>3, Quiet

LEMMA BranchKeeps ==
    ASSUME LinesInv, FixBranch, UNCHANGED env PROVE LinesInv'
<1> USE DEF LinesInv, env, gitVars
<1>1. fix.pc = "branch" /\ UNCHANGED <<base, touched, tree>> /\ Running
  BY DEF FixBranch, Running, CreateBranch
<1>2. /\ Frame' /\ fix'.todo = fix.todo /\ fix'.findings = fix.findings
      /\ fix'.flags = fix.flags /\ fix'.plan = fix.plan
      /\ fix'.pc \in {"done", "classify"}
  <2>1. CASE \E code : FixReturn(code)
    BY <2>1, Moves DEF FixReturn, FixPc, Typed
  <2>2. CASE fix' = [fix EXCEPT !.pc = "classify"]
    BY <2>2, Moves DEF FixPc, Typed
  <2> QED BY <2>1, <2>2 DEF FixBranch
<1>3. Typed'
  BY <1>1, <1>2 DEF Typed
<1> QED BY <1>1, <1>2, <1>3, Quiet

LEMMA OnlyImportsSafe ==
    ASSUME NEW f, NEW line, Classify(f, line) = "safe"
    PROVE  f.start = f.end /\ line.kind = "import"
BY DEF Classify

LEMMA ClassifyKeeps ==
    ASSUME LinesInv, FixClassify, UNCHANGED env PROVE LinesInv'
<1> USE DEF LinesInv, env, gitVars
<1> DEFINE i == Min(fix.todo)
           f == fix.findings[i]
           lines == tree[f.path]
           safe == /\ lines # Absent /\ f.start <= Len(lines)
                   /\ Classify(f, lines[f.start]) = "safe"
<1>1. fix.pc = "classify" /\ UNCHANGED <<base, touched, tree>> /\ Running /\ Frame
      /\ fix.todo # {}
  BY DEF FixClassify, Running, Typed
<1>2. i \in fix.todo /\ i \in Nat /\ i \in Kept /\ i \in DOMAIN fix.findings /\ f.path \in File
      /\ f \in Finding
  <2>1. i \in fix.todo
    BY <1>1, Basics
  <2>2. i \in Nat /\ i \in Kept
    BY <1>1, <2>1 DEF Frame
  <2> HIDE DEF i
  <2> QED BY <1>1, <2>1, <2>2, Basics
<1>3. fix' = [fix EXCEPT !.plan = IF safe THEN @ \cup {i} ELSE @,
                         !.todo = @ \ {i},
                         !.pc   = IF fix.todo = {i} THEN AfterClassify ELSE @]
  BY DEF FixClassify
<1>4. /\ AfterClassify \in {"read", "produce"}
      /\ fix.flags.auto => AfterClassify = "read"
  BY <1>1 DEF AfterClassify, Typed
<1>5. ASSUME safe, f.path \notin touched
      PROVE  /\ f.start = f.end /\ base[f.path] # Absent /\ f.start <= Len(base[f.path])
             /\ base[f.path][f.start].kind = "import"
             /\ tree[f.path] = base[f.path]
  <2>1. base[f.path] = lines
    BY <1>1, <1>2, <1>5 DEF Unchanged
  <2>2. Classify(f, lines[f.start]) = "safe"
    BY <1>5
  <2>3. f.start = f.end /\ lines[f.start].kind = "import"
    BY <2>2, OnlyImportsSafe
  <2> QED BY <1>5, <2>1, <2>3
<1> DEFINE plan == IF safe THEN fix.plan \cup {i} ELSE fix.plan
           pc == IF fix.todo = {i} THEN AfterClassify ELSE "classify"
<1>6. /\ plan \subseteq fix.plan \cup {i}
      /\ i \in plan => i \in fix.plan \/ safe
  OBVIOUS
<1>7. /\ pc \in {"read", "produce", "classify"} /\ (pc = "classify" => fix.todo \ {i} # {})
      /\ fix.flags.auto => pc # "produce"
  BY <1>2, <1>4
<1>8. fix' = [fix EXCEPT !.plan = plan, !.todo = fix.todo \ {i}, !.pc = pc]
  BY <1>1, <1>3 DEF Frame
<1> HIDE DEF plan, pc, safe, lines
<1>9. /\ fix'.plan = plan /\ fix'.todo = fix.todo \ {i} /\ fix'.pc = pc
      /\ fix'.findings = fix.findings /\ fix'.flags = fix.flags /\ fix'.tasks = fix.tasks
  BY <1>1, <1>8 DEF Frame
<1>10. Frame'
  <2>1. Kept' = Kept
    BY <1>9 DEF Kept, Dedup
  <2>2. plan \in SUBSET Nat /\ fix.todo \ {i} \in SUBSET Nat /\ pc \in FixPc
    BY <1>1, <1>2, <1>6, <1>7 DEF Frame, FixPc
  <2>3. fix'.todo \cup fix'.plan \cup fix'.tasks \subseteq Kept
    BY <1>1, <1>2, <1>6, <1>9 DEF Frame
  <2>4. \A j \in fix'.tasks : Tier(fix'.findings[j]) = "LLM_PATCH"
    BY <1>1, <1>9 DEF Frame
  <2>5. fix' \in [pc : FixPc, flags : Flags, findings : Seq(Finding),
                  todo : SUBSET Nat, plan : SUBSET Nat, buffer : {fix'.buffer},
                  drop : SUBSET (Nat \ {0}), deleted : {fix'.deleted}, applied : {fix'.applied},
                  tasks : SUBSET Nat, misses : {fix'.misses},
                  llm : {fix'.llm}, exit : {fix'.exit}]
    <3> HIDE DEF i
    <3> QED BY <1>1, <1>8, <2>2 DEF Frame
  <2> QED BY <2>1, <2>3, <2>4, <2>5 DEF Frame
<1>11. Typed'
  BY <1>1, <1>7, <1>9, <1>10 DEF Typed
<1>12. Unchanged'
  BY <1>1 DEF Unchanged
<1>13. Plans'
  <2> SUFFICES ASSUME NEW j \in fix'.plan, NEW g, g = fix'.findings[j], g.path \notin touched'
               PROVE  Planned(g)'
    BY DEF Plans, Planned
  <2>1. g = fix.findings[j] /\ g.path \notin touched
    BY <1>1, <1>9
  <2>2. CASE j \in fix.plan
    <3>1. Planned(g)
      BY <2>1, <2>2 DEF Plans
    <3> QED BY <1>1, <3>1 DEF Planned
  <2>3. CASE j \notin fix.plan
    <3>1. j = i /\ safe
      BY <1>6, <1>9, <2>3
    <3>2. g = f
      BY <2>1, <3>1
    <3>3. /\ f.start = f.end /\ base[f.path] # Absent /\ f.start <= Len(base[f.path])
          /\ base[f.path][f.start].kind = "import"
          /\ tree[f.path] = base[f.path]
      BY <1>5, <2>1, <3>1, <3>2
    <3> HIDE DEF f
    <3> QED BY <1>1, <3>2, <3>3 DEF Planned
  <2> QED BY <2>2, <2>3
<1>14. Cutting'
  BY <1>7, <1>9 DEF Cutting
<1>15. OtherLinesKept'
  <2>1. \A p \in File \ touched : Follows(p)'
    BY <1>1, <1>9, FollowsOn DEF OtherLinesKept, Follows
  <2> QED BY <1>1, <2>1 DEF OtherLinesKept, Follows
<1> QED BY <1>11, <1>12, <1>13, <1>14, <1>15
LEMMA SameFollows ==
    ASSUME OtherLinesKept, Running, UNCHANGED <<base, touched, tree>>,
           fix'.findings = fix.findings, fix'.flags = fix.flags
    PROVE  OtherLinesKept'
<1>1. \A p \in File \ touched : Follows(p)
  BY DEF OtherLinesKept, Follows
<1>2. \A p \in File \ touched : Follows(p)'
  BY <1>1, FollowsOn
<1> QED BY <1>2 DEF OtherLinesKept, Follows

LEMMA SamePlans ==
    ASSUME Plans, UNCHANGED <<base, touched, tree>>,
           fix'.findings = fix.findings, fix'.plan \subseteq fix.plan
    PROVE  Plans'
BY DEF Plans, Planned

LEMMA ReadKeeps ==
    ASSUME LinesInv, FixRead, UNCHANGED env PROVE LinesInv'
<1> USE DEF LinesInv, env, gitVars
<1>1. fix.pc = "read" /\ UNCHANGED <<base, touched, tree>> /\ Running /\ Frame
  BY DEF FixRead, Running, Typed
<1>2. CASE fix.plan = {} \/ tree[NextFile] = Absent
  <2>1. Frame' /\ fix'.pc \in {"produce", "done"} /\ fix'.findings = fix.findings
        /\ fix'.flags = fix.flags /\ fix'.plan = fix.plan
        /\ (fix'.pc = "produce" => fix.plan = {})
    <3>1. CASE fix' = [fix EXCEPT !.pc = "produce"] /\ fix.plan = {}
      BY <1>1, <3>1, Moves DEF FixPc
    <3>2. CASE FixReturn(1)
      BY <1>1, <3>2, Moves DEF FixReturn, FixPc
    <3> QED BY <1>2, <3>1, <3>2 DEF FixRead
  <2>2. Typed'
    BY <1>1, <2>1 DEF Typed
  <2> QED BY <1>1, <2>1, <2>2, Quiet
<1>3. CASE fix.plan # {} /\ tree[NextFile] # Absent
  <2>1. fix' = [fix EXCEPT !.pc = "replace", !.buffer = tree[NextFile], !.drop = Doomed]
    BY <1>3 DEF FixRead, Doomed
  <2>2. Hits \subseteq DOMAIN fix.findings /\ NextFile \in File
    BY <1>1, <1>3, Basics DEF Hits, Frame
  <2>3. IsFiniteSet(Doomed) /\ Doomed \in SUBSET (Nat \ {0})
    <3>1. IsFiniteSet(Doomed)
      BY <1>1, <2>2, Basics, FiniteLines DEF Doomed
    <3>2. \A i \in Hits : fix.findings[i].start \in Nat \ {0}
      BY <1>1, <2>2, Basics
    <3> QED BY <3>1, <3>2 DEF Doomed
  <2>4. tree[NextFile] \in Seq(SourceLine)
    BY <1>3, <2>2, FilesAreText DEF Typed, Snapshot
  <2>5. /\ fix'.pc = "replace" /\ fix'.flags = fix.flags /\ fix'.findings = fix.findings
        /\ fix'.plan = fix.plan /\ fix'.tasks = fix.tasks /\ fix'.todo = fix.todo
        /\ fix'.drop = Doomed /\ fix'.buffer = tree[NextFile]
    BY <1>1, <2>1 DEF Frame
  <2>6. Frame'
    <3>1. Kept' = Kept
      BY <2>5 DEF Kept, Dedup
    <3>2. fix' \in [pc : FixPc, flags : Flags, findings : Seq(Finding),
                    todo : SUBSET Nat, plan : SUBSET Nat, buffer : {fix'.buffer},
                    drop : SUBSET (Nat \ {0}), deleted : {fix'.deleted}, applied : {fix'.applied},
                    tasks : SUBSET Nat, misses : {fix'.misses},
                    llm : {fix'.llm}, exit : {fix'.exit}]
      BY <1>1, <2>1, <2>3 DEF Frame, FixPc
    <3> QED BY <1>1, <2>5, <3>1, <3>2 DEF Frame
  <2>7. Typed'
    BY <1>1, <1>3, <2>3, <2>4, <2>5, <2>6 DEF Typed
  <2>8. NextFile' = NextFile /\ Hits' = Hits /\ Doomed' = Doomed
    BY <2>5 DEF NextFile, Hits, Doomed
  <2>9. Cutting'
    <3> SUFFICES ASSUME NextFile \notin touched
                 PROVE  \E e \in [DOMAIN tree[NextFile] -> DOMAIN base[NextFile]] :
                           Cut(e, tree[NextFile], base[NextFile], Doomed, Doomed)
      BY <1>1, <2>5, <2>8 DEF Cutting, Cut
    <3>1. \A i \in Hits : /\ fix.findings[i].path = NextFile /\ i \in fix.plan
                          /\ i \in DOMAIN fix.findings
      BY <2>2 DEF Hits
    <3>2. \A i \in Hits : /\ fix.findings[i].start <= Len(base[NextFile])
                          /\ tree[NextFile] = base[NextFile]
      BY <3>1 DEF Plans, Planned
    <3>3. tree[NextFile] = base[NextFile]
      BY <1>1, <1>3, <3>2, Basics
    <3>4. Doomed \subseteq DOMAIN tree[NextFile]
      <4> SUFFICES ASSUME NEW i \in Hits PROVE fix.findings[i].start \in DOMAIN tree[NextFile]
        BY DEF Doomed
      <4>1. fix.findings[i].start \in Nat \ {0} /\ fix.findings[i].start <= Len(tree[NextFile])
        BY <1>1, <3>1, <3>2, Basics
      <4> QED BY <2>4, <4>1
    <3> QED BY <2>4, <3>3, <3>4, CutBegins
  <2> QED BY <1>1, <2>5, <2>7, <2>9, SameFollows, SamePlans DEF Unchanged
<1> QED BY <1>2, <1>3

LEMMA DeleteKeeps ==
    ASSUME LinesInv, FixDelete, UNCHANGED env PROVE LinesInv'
<1> USE DEF LinesInv, env, gitVars
<1> DEFINE line == Max(fix.drop)
<1>1. /\ fix.pc = "replace" /\ fix.drop # {} /\ UNCHANGED <<base, touched, tree>> /\ Running
      /\ Frame /\ fix.plan # {} /\ fix.buffer \in Seq(SourceLine) /\ IsFiniteSet(fix.drop)
      /\ fix.drop \subseteq Nat
  BY DEF FixDelete, Running, Typed, Frame
<1>2. line \in fix.drop /\ line \in Nat /\ \A d \in fix.drop : d <= line
  BY <1>1, MaxIn
<1>3. fix' = [fix EXCEPT !.drop = @ \ {line},
                         !.buffer = IF line <= Len(@) THEN RemoveAt(@, line) ELSE @]
  BY DEF FixDelete
<1> HIDE DEF line
<1>4. ASSUME line <= Len(fix.buffer) PROVE RemoveAt(fix.buffer, line) \in Seq(SourceLine)
  <2>1. SubSeq(fix.buffer, 1, line - 1) \in Seq(SourceLine)
    BY <1>1, <1>2, <1>4
  <2>2. SubSeq(fix.buffer, line + 1, Len(fix.buffer)) \in Seq(SourceLine)
    BY <1>1, <1>2, <1>4
  <2> QED BY <2>1, <2>2, ConcatProperties DEF RemoveAt
<1>5. PICK kept \in Seq(SourceLine) :
         /\ kept = IF line <= Len(fix.buffer) THEN RemoveAt(fix.buffer, line) ELSE fix.buffer
         /\ fix' = [fix EXCEPT !.drop = @ \ {line}, !.buffer = kept]
  BY <1>1, <1>3, <1>4 DEF Frame
<1>6. /\ fix'.pc = "replace" /\ fix'.flags = fix.flags /\ fix'.findings = fix.findings
      /\ fix'.plan = fix.plan /\ fix'.tasks = fix.tasks /\ fix'.todo = fix.todo
      /\ fix'.drop = fix.drop \ {line} /\ fix'.buffer = kept
  BY <1>1, <1>5 DEF Frame
<1>7. NextFile' = NextFile /\ Hits' = Hits /\ Doomed' = Doomed
  BY <1>6 DEF NextFile, Hits, Doomed
<1>8. Typed'
  <2>1. Kept' = Kept
    BY <1>6 DEF Kept, Dedup
  <2>2. fix.drop \ {line} \in SUBSET (Nat \ {0})
    BY <1>1 DEF Frame
  <2>3. fix' \in [pc : FixPc, flags : Flags, findings : Seq(Finding),
                  todo : SUBSET Nat, plan : SUBSET Nat, buffer : {fix'.buffer},
                  drop : SUBSET (Nat \ {0}), deleted : {fix'.deleted}, applied : {fix'.applied},
                  tasks : SUBSET Nat, misses : {fix'.misses},
                  llm : {fix'.llm}, exit : {fix'.exit}]
    BY <1>1, <1>5, <2>2 DEF Frame
  <2>4. Frame'
    BY <1>1, <1>6, <2>1, <2>3 DEF Frame
  <2>5. IsFiniteSet(fix.drop \ {line})
    BY <1>1, FS_RemoveElement
  <2> QED BY <1>1, <1>6, <2>4, <2>5 DEF Typed
<1>9. Cutting'
  <2> SUFFICES ASSUME NextFile \notin touched
               PROVE  \E e \in [DOMAIN kept -> DOMAIN base[NextFile]] :
                         Cut(e, kept, base[NextFile], Doomed, fix.drop \ {line})
    BY <1>1, <1>6, <1>7 DEF Cutting, Cut
  <2>1. PICK e \in [DOMAIN fix.buffer -> DOMAIN base[NextFile]] :
           Cut(e, fix.buffer, base[NextFile], Doomed, fix.drop)
    BY <1>1 DEF Cutting
  <2>2. base[NextFile] \in Seq(SourceLine)
    <3>1. Min(fix.plan) \in Hits /\ NextFile \in File
      BY <1>1, Basics
    <3>2. base[NextFile] # Absent
      BY <3>1 DEF Plans, Planned, NextFile, Hits
    <3> QED BY <3>1, <3>2, FilesAreText DEF Typed, Snapshot
  <2>3. /\ line \in 1..Len(fix.buffer)
        /\ \E f \in [DOMAIN RemoveAt(fix.buffer, line) -> DOMAIN base[NextFile]] :
              Cut(f, RemoveAt(fix.buffer, line), base[NextFile], Doomed, fix.drop \ {line})
    BY <1>1, <1>2, <2>1, <2>2, CutGoesOn
  <2>4. kept = RemoveAt(fix.buffer, line)
    BY <1>5, <2>3
  <2> QED BY <2>3, <2>4
<1> QED BY <1>1, <1>6, <1>8, <1>9, SameFollows, SamePlans DEF Unchanged
LEMMA ReplaceKeeps ==
    ASSUME LinesInv, FixReplace, UNCHANGED env, DiskCanFill = FALSE PROVE LinesInv'
<1> USE DEF LinesInv, env
<1> DEFINE file == NextFile
<1>1. /\ fix.pc = "replace" /\ fix.drop = {} /\ UNCHANGED <<base, touched>> /\ Running
      /\ Frame /\ fix.plan # {} /\ fix.buffer \in Seq(SourceLine)
  BY DEF FixReplace, Running, Typed
<1>2. file \in File /\ tree \in Snapshot
  BY <1>1, Basics DEF Typed
<1>3. tree' = [tree EXCEPT ![file] = fix.buffer]
  BY DEF FixReplace, Payloads
<1>4. /\ tree' \in Snapshot /\ tree'[file] = fix.buffer /\ fix.buffer # Absent
      /\ \A p \in File : p # file => tree'[p] = tree[p]
  <2>1. fix.buffer \in Content
    BY <1>1, FilesAreText
  <2> HIDE DEF file
  <2> QED BY <1>2, <1>3, <2>1, GitAssumption DEF Snapshot
<1>5. /\ fix'.pc = "read" /\ fix'.flags = fix.flags /\ fix'.findings = fix.findings
      /\ fix'.plan = fix.plan \ Hits /\ fix'.tasks = fix.tasks /\ fix'.todo = fix.todo
      /\ fix' \in [pc : FixPc, flags : Flags, findings : Seq(Finding),
                   todo : SUBSET Nat, plan : SUBSET Nat, buffer : {fix'.buffer},
                   drop : SUBSET (Nat \ {0}), deleted : {fix'.deleted}, applied : {fix'.applied},
                   tasks : SUBSET Nat, misses : {fix'.misses},
                   llm : {fix'.llm}, exit : {fix'.exit}]
  <2>1. fix.plan \ Hits \in SUBSET Nat /\ "read" \in FixPc
    BY <1>1 DEF Frame, FixPc
  <2>2. PICK deleted, applied :
           fix' = [fix EXCEPT !.pc = "read", !.plan = @ \ Hits,
                              !.deleted = deleted, !.applied = applied]
    BY DEF FixReplace
  <2> QED BY <1>1, <2>1, <2>2 DEF Frame
<1>6. Typed'
  <2>1. Kept' = Kept
    BY <1>5 DEF Kept, Dedup
  <2>2. Frame'
    BY <1>1, <1>5, <2>1 DEF Frame
  <2> QED BY <1>1, <1>4, <1>5, <2>2 DEF Typed
<1>7. Plans'
  <2> SUFFICES ASSUME NEW j \in fix'.plan, NEW g, g = fix'.findings[j], g.path \notin touched'
               PROVE  Planned(g)'
    BY DEF Plans, Planned
  <2>1. g = fix.findings[j] /\ j \in fix.plan /\ j \notin Hits /\ Planned(g)
    BY <1>1, <1>5 DEF Plans
  <2>2. g.path \in File /\ g.path # file
    BY <1>1, <2>1, Basics DEF Hits, Frame
  <2> HIDE DEF file
  <2> QED BY <1>1, <1>4, <2>1, <2>2 DEF Planned
<1>8. \A p \in File \ touched : Follows(p)'
  <2> SUFFICES ASSUME NEW p \in File \ touched PROVE Follows(p)'
    OBVIOUS
  <2>1. Follows(p)
    BY <1>1 DEF OtherLinesKept, Follows
  <2>2. CASE p # file
    BY <1>1, <1>4, <1>5, <2>1, <2>2, FollowsOn
  <2>3. CASE p = file
    <3>1. PICK e \in [DOMAIN fix.buffer -> DOMAIN base[p]] :
             Cut(e, fix.buffer, base[p], Doomed, fix.drop)
      BY <1>1, <2>3 DEF Cutting
    <3>2. Doomed \subseteq Deletable(p)
      <4> SUFFICES ASSUME NEW i \in Hits PROVE fix.findings[i].start \in Deletable(p)
        BY DEF Doomed
      <4>1. i \in fix.plan /\ i \in Kept /\ fix.findings[i].path = p
        BY <1>1, <2>3 DEF Hits, Frame
      <4>2. fix.findings[i] \in Acted
        BY <4>1 DEF Acted, Kept
      <4>3. Planned(fix.findings[i])
        BY <1>1, <2>3, <4>1 DEF Plans
      <4> QED BY <4>1, <4>2, <4>3 DEF Deletable, Planned
    <3>3. Traces(e, fix.buffer, base[p], Deletable(p))
      BY <1>1, <3>1, <3>2 DEF Cut, Traces
    <3>4. Deletable(p)' = Deletable(p)
      BY <1>1, <1>5, Derived
    <3>5. tree'[p] = fix.buffer
      BY <1>4, <2>3
    <3> HIDE DEF file
    <3> QED BY <1>1, <1>4, <1>5, <3>1, <3>3, <3>4, <3>5 DEF Follows, Traces
  <2> QED BY <2>2, <2>3
<1>9. OtherLinesKept'
  BY <1>1, <1>8 DEF OtherLinesKept, Follows
<1> QED BY <1>5, <1>6, <1>7, <1>9 DEF Unchanged, Cutting

LEMMA ReplaceFailsKeeps ==
    ASSUME LinesInv, FixReplaceFails, UNCHANGED env PROVE LinesInv'
<1> USE DEF LinesInv, env, gitVars
<1>1. fix.pc = "replace" /\ UNCHANGED <<base, touched, tree>> /\ Running
  BY DEF FixReplaceFails, Running
<1>2. /\ Frame' /\ fix'.findings = fix.findings /\ fix'.flags = fix.flags
      /\ fix'.plan = fix.plan /\ fix'.pc = "done"
  BY Moves DEF FixReplaceFails, FixReturn, FixPc, Typed
<1>3. Typed'
  BY <1>1, <1>2 DEF Typed
<1> QED BY <1>1, <1>2, <1>3, Quiet

LEMMA LoopEndsKeeps ==
    ASSUME LinesInv, FixLoopEnds, UNCHANGED env PROVE LinesInv'
<1> USE DEF LinesInv, env, gitVars
<1>1. fix.pc = "produce" /\ UNCHANGED <<base, touched, tree>> /\ Running
  BY DEF FixLoopEnds, Running
<1>2. /\ Frame' /\ fix'.findings = fix.findings /\ fix'.flags = fix.flags
      /\ fix'.plan = fix.plan /\ fix'.pc = "done"
  BY Moves DEF FixLoopEnds, FixReturn, FixPc, Typed
<1>3. Typed'
  BY <1>1, <1>2 DEF Typed
<1> QED BY <1>1, <1>2, <1>3, Quiet
LEMMA ProduceKeeps ==
    ASSUME LinesInv, FixProduce, UNCHANGED env PROVE LinesInv'
<1> USE DEF LinesInv, env, gitVars
<1>1. fix.pc = "produce" /\ UNCHANGED <<base, touched, tree>> /\ Running /\ Frame
      /\ fix.tasks # {}
  BY DEF FixProduce, Running, Typed, LoopEnds
<1>2. \E misses, lines : \/ /\ fix.flags.auto
                            /\ fix' = [fix EXCEPT !.misses = misses, !.pc = "git_apply", !.buffer = lines]
                         \/ fix' = [fix EXCEPT !.misses = misses, !.tasks = TaskDone]
  <2>1. PICK p \in Produced(Task) :
           LET frame == [fix EXCEPT
                          !.misses = IF fix.flags.cap # NoCap /\ (p.status = "rejected" \/ ~p.hit)
                                     THEN @ + 1 ELSE @]
           IN  \/ /\ fix.flags.auto
                  /\ fix' = [frame EXCEPT !.pc = "git_apply", !.buffer = <<tree[Task.path][Task.start]>>]
               \/ fix' = [frame EXCEPT !.tasks = TaskDone]
    BY DEF FixProduce
  <2> QED BY <1>1, <2>1 DEF Frame
<1>3. PICK misses, lines : \/ /\ fix.flags.auto
                              /\ fix' = [fix EXCEPT !.misses = misses, !.pc = "git_apply", !.buffer = lines]
                           \/ fix' = [fix EXCEPT !.misses = misses, !.tasks = TaskDone]
  BY <1>2
<1>4. /\ fix'.flags = fix.flags /\ fix'.findings = fix.findings /\ fix'.plan = fix.plan
      /\ fix'.todo = fix.todo /\ fix'.tasks \subseteq fix.tasks /\ fix'.pc \in {"produce", "git_apply"}
      /\ (fix'.pc = "git_apply" => fix.flags.auto /\ fix'.tasks = fix.tasks)
      /\ fix' \in [pc : FixPc, flags : Flags, findings : Seq(Finding),
                   todo : SUBSET Nat, plan : SUBSET Nat, buffer : {fix'.buffer},
                   drop : SUBSET (Nat \ {0}), deleted : {fix'.deleted}, applied : {fix'.applied},
                   tasks : SUBSET Nat, misses : {fix'.misses},
                   llm : {fix'.llm}, exit : {fix'.exit}]
  <2>1. CASE fix.flags.auto /\ fix' = [fix EXCEPT !.misses = misses, !.pc = "git_apply", !.buffer = lines]
    BY <1>1, <2>1 DEF Frame, FixPc
  <2>2. CASE fix' = [fix EXCEPT !.misses = misses, !.tasks = TaskDone]
    <3>1. TaskDone \subseteq fix.tasks /\ TaskDone \in SUBSET Nat
      BY <1>1 DEF TaskDone, Frame
    <3> QED BY <1>1, <2>2, <3>1 DEF Frame
  <2> QED BY <1>3, <2>1, <2>2
<1>5. Typed'
  <2>1. Kept' = Kept
    BY <1>4 DEF Kept, Dedup
  <2>2. Frame'
    BY <1>1, <1>4, <2>1 DEF Frame
  <2> QED BY <1>1, <1>4, <2>2 DEF Typed
<1> QED BY <1>1, <1>4, <1>5, Quiet

LEMMA GitApplyFailsKeeps ==
    ASSUME LinesInv, FixGitApplyFails, UNCHANGED env PROVE LinesInv'
<1> USE DEF LinesInv, env, gitVars
<1>1. fix.pc = "git_apply" /\ UNCHANGED <<base, touched, tree>> /\ Running /\ Frame
  BY DEF FixGitApplyFails, Running, Typed
<1>2. PICK llm : fix' = [fix EXCEPT !.pc = "produce", !.tasks = TaskDone, !.llm = llm]
  BY <1>1 DEF FixGitApplyFails, Frame
<1>3. TaskDone \subseteq fix.tasks /\ TaskDone \in SUBSET Nat
  BY <1>1 DEF TaskDone, Frame
<1>4. /\ fix'.flags = fix.flags /\ fix'.findings = fix.findings /\ fix'.plan = fix.plan
      /\ fix'.todo = fix.todo /\ fix'.tasks \subseteq fix.tasks /\ fix'.pc = "produce"
      /\ fix' \in [pc : FixPc, flags : Flags, findings : Seq(Finding),
                   todo : SUBSET Nat, plan : SUBSET Nat, buffer : {fix'.buffer},
                   drop : SUBSET (Nat \ {0}), deleted : {fix'.deleted}, applied : {fix'.applied},
                   tasks : SUBSET Nat, misses : {fix'.misses},
                   llm : {fix'.llm}, exit : {fix'.exit}]
  BY <1>1, <1>2, <1>3 DEF Frame, FixPc
<1>5. Typed'
  <2>1. Kept' = Kept
    BY <1>4 DEF Kept, Dedup
  <2>2. Frame'
    BY <1>1, <1>4, <2>1 DEF Frame
  <2> QED BY <1>1, <1>4, <2>2 DEF Typed
<1> QED BY <1>1, <1>4, <1>5, Quiet

LEMMA GitApplyKeeps ==
    ASSUME LinesInv, FixGitApply, UNCHANGED env PROVE LinesInv'
<1> USE DEF LinesInv, env
<1> DEFINE path  == Task.path
           old   == fix.buffer[1]
           lines == [i \in DOMAIN tree[path] |->
                        IF tree[path][i] = old THEN Patched(old) ELSE tree[path][i]]
<1>1. /\ fix.pc = "git_apply" /\ UNCHANGED <<base, touched>> /\ Running /\ Frame
      /\ fix.tasks # {} /\ fix.flags.auto /\ fix.plan = {} /\ tree \in Snapshot
      /\ tree[path] # Absent /\ old \in ToSet(tree[path])
      /\ tree' = [tree EXCEPT ![path] = [i \in DOMAIN @ |-> IF @[i] = old THEN Patched(old) ELSE @[i]]]
  BY DEF FixGitApply, Running, Typed
<1>2. path \in File
  BY <1>1, Basics
<1>3. tree' = [tree EXCEPT ![path] = lines]
  BY <1>1, <1>2 DEF Snapshot
<1>4. tree[path] \in Seq(SourceLine)
  BY <1>1, <1>2, FilesAreText DEF Snapshot
<1>5. Patched(old) \in SourceLine
  <2>1. old \in SourceLine
    BY <1>1, <1>4 DEF ToSet
  <2> QED BY <2>1 DEF Patched, SourceLine, Kind
<1>6. /\ lines \in Content /\ DOMAIN lines = DOMAIN tree[path]
      /\ \A i \in DOMAIN lines : \/ lines[i] = tree[path][i]
                                 \/ tree[path][i] = old /\ lines[i] = Patched(old)
  <2> HIDE DEF path, old
  <2> QED BY <1>4, <1>5, FilesAreText
<1> HIDE DEF path, lines, old
<1>7. /\ tree' \in Snapshot /\ tree'[path] = lines /\ lines # Absent
      /\ \A p \in File : p # path => tree'[p] = tree[p]
  BY <1>1, <1>2, <1>3, <1>6, GitAssumption DEF Snapshot
<1>8. /\ fix'.pc = "produce" /\ fix'.flags = fix.flags /\ fix'.findings = fix.findings
      /\ fix'.plan = {} /\ fix'.todo = fix.todo /\ fix'.tasks \subseteq fix.tasks
      /\ fix' \in [pc : FixPc, flags : Flags, findings : Seq(Finding),
                   todo : SUBSET Nat, plan : SUBSET Nat, buffer : {fix'.buffer},
                   drop : SUBSET (Nat \ {0}), deleted : {fix'.deleted}, applied : {fix'.applied},
                   tasks : SUBSET Nat, misses : {fix'.misses},
                   llm : {fix'.llm}, exit : {fix'.exit}]
  <2>1. PICK llm, applied :
           fix' = [fix EXCEPT !.pc = "produce", !.tasks = TaskDone, !.llm = llm, !.applied = applied]
    BY <1>1 DEF FixGitApply, Frame
  <2>2. TaskDone \subseteq fix.tasks /\ TaskDone \in SUBSET Nat
    BY <1>1 DEF TaskDone, Frame
  <2> QED BY <1>1, <2>1, <2>2 DEF Frame, FixPc
<1>9. Typed'
  <2>1. Kept' = Kept
    BY <1>8 DEF Kept, Dedup
  <2>2. Frame'
    BY <1>1, <1>8, <2>1 DEF Frame
  <2> QED BY <1>1, <1>7, <1>8, <2>2 DEF Typed
<1>10. \A p \in File \ touched : Follows(p)'
  <2> SUFFICES ASSUME NEW p \in File \ touched PROVE Follows(p)'
    OBVIOUS
  <2>1. Follows(p)
    BY <1>1 DEF OtherLinesKept, Follows
  <2>2. CASE p # path
    BY <1>1, <1>7, <1>8, <2>1, <2>2, FollowsOn
  <2>3. CASE p = path /\ base[p] # Absent
    <3>1. PICK e \in [DOMAIN tree[p] -> DOMAIN base[p]] :
             Traces(e, tree[p], base[p], Deletable(p))
      BY <2>1, <2>3 DEF Follows
    <3>2. \A i \in DOMAIN lines : \/ lines[i] = base[p][e[i]]
                                  \/ lines[i] = Patched(base[p][e[i]])
      <4> SUFFICES ASSUME NEW i \in DOMAIN tree[p]
                   PROVE  \/ lines[i] = base[p][e[i]] \/ lines[i] = Patched(base[p][e[i]])
        BY <1>6, <2>3
      <4>1. tree[p][i] = base[p][e[i]] \/ tree[p][i] = Patched(base[p][e[i]])
        BY <3>1 DEF Traces
      <4>2. lines[i] = tree[p][i] \/ lines[i] = Patched(tree[p][i])
        BY <1>6, <2>3
      <4>3. Patched(Patched(base[p][e[i]])) = Patched(base[p][e[i]])
        BY DEF Patched
      <4> QED BY <4>1, <4>2, <4>3
    <3>3. Deletable(p)' = Deletable(p)
      BY <1>1, <1>8, Derived
    <3>4. /\ \A i, j \in DOMAIN lines : i < j => e[i] < e[j]
          /\ DOMAIN base[p] \ Range(e) \subseteq Deletable(p)
          /\ e \in [DOMAIN lines -> DOMAIN base[p]]
      BY <1>6, <2>3, <3>1 DEF Traces
    <3>5. tree'[p] = lines
      BY <1>7, <2>3
    <3> QED BY <1>1, <1>7, <1>8, <3>2, <3>3, <3>4, <3>5 DEF Follows, Traces
  <2>4. CASE base[p] = Absent
    BY <1>1, <2>4 DEF Follows
  <2> QED BY <2>2, <2>3, <2>4
<1>11. OtherLinesKept'
  BY <1>1, <1>10 DEF OtherLinesKept, Follows
<1> QED BY <1>8, <1>9, <1>11 DEF Unchanged, Cutting, Plans
-----------------------------------------------------------------------------
(* The pass as its caller and the operator drive it.                       *)
LEMMA IdleFrame ==
    fix = FixIdle => Frame
<1> SUFFICES ASSUME fix = FixIdle PROVE Frame
  OBVIOUS
<1>1. /\ fix.pc = "idle" /\ fix.flags = NoFlags /\ fix.findings = <<>>
      /\ fix.todo = {} /\ fix.plan = {} /\ fix.tasks = {}
  BY DEF FixIdle
<1>2. NoFlags \in Flags
  BY DEF NoFlags, Flags
<1>3. fix \in [pc : FixPc, flags : Flags, findings : Seq(Finding),
               todo : SUBSET Nat, plan : SUBSET Nat, buffer : {fix.buffer},
               drop : SUBSET (Nat \ {0}), deleted : {fix.deleted}, applied : {fix.applied},
               tasks : SUBSET Nat, misses : {fix.misses},
               llm : {fix.llm}, exit : {fix.exit}]
  BY <1>1, <1>2 DEF FixIdle, FixPc
<1>4. Kept = {}
  BY <1>1 DEF Kept, Dedup
<1> QED BY <1>1, <1>3, <1>4 DEF Frame

LEMMA IdleKeeps ==
    ASSUME LinesInv, fix' = FixIdle, UNCHANGED <<base, touched, tree>> PROVE LinesInv'
<1>1. Frame'
  <2>1. (fix = FixIdle => Frame)'
    BY IdleFrame, PTL
  <2> QED BY <2>1 DEF FixIdle, NoFlags
<1>2. fix'.pc = "idle" /\ fix'.plan = {} /\ fix'.flags.auto = FALSE
  BY DEF FixIdle, NoFlags
<1>3. Typed'
  BY <1>1, <1>2 DEF LinesInv, Typed
<1> QED BY <1>2, <1>3 DEF LinesInv, Unchanged, Plans, Cutting, OtherLinesKept, Running

LEMMA SaveKeeps ==
    ASSUME LinesInv, NEW f \in File, NEW c \in Edited, OperatorSaves(f, c) PROVE LinesInv'
<1> USE DEF LinesInv
<1>1. /\ tree' = [tree EXCEPT ![f] = c] /\ touched' = touched \cup {f} /\ base' = base /\ fix' = fix
      /\ tree \in Snapshot /\ Frame /\ c \in Content \cup {Absent}
  BY SessionAssumption DEF OperatorSaves, Save, fixVars, Typed
<1>2. tree' \in Snapshot /\ \A p \in File \ touched' : p \in File \ touched /\ tree'[p] = tree[p]
  BY <1>1 DEF Snapshot
<1>3. Typed'
  <2>1. Frame'
    BY <1>1 DEF Frame, Kept, Dedup, Tier
  <2> QED BY <1>1, <1>2, <2>1 DEF Typed
<1>4. Unchanged'
  BY <1>1, <1>2 DEF Unchanged
<1>5. Plans'
  <2> SUFFICES ASSUME NEW j \in fix.plan, NEW g, g = fix.findings[j], g.path \notin touched'
               PROVE  Planned(g)'
    BY <1>1 DEF Plans, Planned
  <2>1. g.path \in File /\ g.path \notin touched /\ Planned(g)
    BY <1>1, Basics DEF Plans, Frame
  <2> QED BY <1>1, <1>2, <2>1 DEF Planned
<1>6. Cutting'
  BY <1>1 DEF Cutting, NextFile, Cut, Doomed, Hits
<1>7. OtherLinesKept'
  <2>1. Running => \A p \in File \ touched' : Follows(p)
    BY <1>2 DEF OtherLinesKept, Follows
  <2>2. Running => \A p \in File \ touched' : Follows(p)'
    BY <1>1, <1>2, <2>1, FollowsOn
  <2> QED BY <1>1, <2>2 DEF OtherLinesKept, Follows, Running
<1> QED BY <1>3, <1>4, <1>5, <1>6, <1>7

LEMMA Starts ==
    ASSUME NEW flags \in Flags, NEW report \in Seq(Finding), FixStart(flags, report, DOMAIN report)
    PROVE  /\ fix'.flags = flags /\ fix'.findings = report /\ fix'.plan = {} /\ fix'.applied = {}
           /\ fix'.todo = Dedup(report, DOMAIN report) /\ fix'.tasks \subseteq fix'.todo
           /\ \A i \in fix'.tasks : Tier(report[i]) = "LLM_PATCH"
           /\ Frame' /\ fix'.pc \in {"status", "done"}
           /\ (fix'.pc = "status" => fix'.todo # {} /\ ~BadFlags(flags))
           /\ UNCHANGED gitVars
<1> DEFINE kept == Dedup(report, DOMAIN report)
           tasks == IF flags.suggest \/ flags.auto THEN LLMTasks(report, kept) ELSE {}
<1>3. kept \subseteq DOMAIN report /\ DOMAIN report \subseteq Nat /\ tasks \subseteq kept
      /\ \A i \in tasks : Tier(report[i]) = "LLM_PATCH"
  BY DEF Dedup, LLMTasks
<1> DEFINE called == [FixIdle EXCEPT !.flags = flags, !.findings = report, !.todo = kept,
                                     !.tasks = tasks]
<1>4. fix' = IF BadFlags(flags) THEN [called EXCEPT !.pc = "done", !.exit = 2]
             ELSE IF Cardinality(DOMAIN report) > MaxFindings
                  THEN [called EXCEPT !.pc = "done", !.exit = 1]
             ELSE IF kept = {} THEN [called EXCEPT !.pc = "done"]
             ELSE [called EXCEPT !.pc = "status"]
  BY DEF FixStart
<1> DEFINE Framed ==
      /\ fix'.flags = flags /\ fix'.findings = report /\ fix'.todo = kept
      /\ fix'.tasks = tasks /\ fix'.plan = {} /\ fix'.applied = {}
      /\ fix' \in [pc : FixPc, flags : Flags, findings : Seq(Finding),
                   todo : SUBSET Nat, plan : SUBSET Nat, buffer : {fix'.buffer},
                   drop : SUBSET (Nat \ {0}), deleted : {fix'.deleted}, applied : {fix'.applied},
                   tasks : SUBSET Nat, misses : {fix'.misses},
                   llm : {fix'.llm}, exit : {fix'.exit}]
<1> HIDE DEF tasks, kept
<1>5. /\ kept \in SUBSET Nat /\ tasks \in SUBSET Nat
      /\ "done" \in FixPc /\ "status" \in FixPc
  BY <1>3 DEF FixPc
<1>6. /\ Framed /\ fix'.pc \in {"status", "done"}
      /\ (fix'.pc = "status" => kept # {} /\ ~BadFlags(flags))
  <2>1. CASE fix' = [called EXCEPT !.pc = "done", !.exit = 2]
    BY <1>5, <2>1 DEF FixIdle
  <2>2. CASE fix' = [called EXCEPT !.pc = "done", !.exit = 1]
    BY <1>5, <2>2 DEF FixIdle
  <2>3. CASE fix' = [called EXCEPT !.pc = "done"]
    BY <1>5, <2>3 DEF FixIdle
  <2>4. CASE fix' = [called EXCEPT !.pc = "status"] /\ kept # {} /\ ~BadFlags(flags)
    BY <1>5, <2>4 DEF FixIdle
  <2> HIDE DEF called, Framed
  <2> QED BY <1>4, <2>1, <2>2, <2>3, <2>4
<1>7. Frame'
  <2>1. Kept' = kept
    BY <1>6 DEF Kept, kept, Dedup
  <2> QED BY <1>3, <1>6, <2>1 DEF Frame
<1> QED BY <1>3, <1>6, <1>7 DEF FixStart, kept

LEMMA BeginKeeps ==
    ASSUME LinesInv, Begin PROVE LinesInv'
<1> USE DEF LinesInv
<1>1. PICK flags \in FlagChoices, report \in Reports : FixStart(flags, report, DOMAIN report)
  BY DEF Begin
<1>2. /\ flags \in Flags /\ report \in Seq(Finding) /\ tree \in Snapshot /\ base' = tree
      /\ tree' = tree /\ touched' = {}
  BY <1>1, SessionAssumption DEF Begin, FixStart, gitVars, Typed
<1>6. /\ fix'.flags = flags /\ fix'.plan = {} /\ Frame' /\ fix'.pc \in {"status", "done"}
      /\ (fix'.pc = "status" => fix'.todo # {} /\ ~BadFlags(flags))
  BY <1>1, <1>2, Starts
<1>7. Typed'
  <2>1. fix'.pc = "status" /\ flags.auto => flags.apply
    BY <1>6 DEF BadFlags
  <2> QED BY <1>2, <1>6, <2>1 DEF Typed
<1>8. OtherLinesKept'
  <2> SUFFICES ASSUME NEW p \in File, tree[p] # Absent
               PROVE  Follows(p)'
    BY <1>2 DEF OtherLinesKept, Follows
  <2> DEFINE e == [i \in DOMAIN tree[p] |-> i]
  <2>1. tree[p] \in Seq(SourceLine)
    BY <1>2, FilesAreText DEF Snapshot
  <2>2. e \in [DOMAIN tree[p] -> DOMAIN tree[p]] /\ DOMAIN tree[p] \ Range(e) = {}
    BY DEF Range
  <2>3. /\ \A i, j \in DOMAIN tree[p] : i < j => e[i] < e[j]
        /\ \A i \in DOMAIN tree[p] : tree[p][i] = tree[p][e[i]]
    OBVIOUS
  <2> HIDE DEF e
  <2>4. DOMAIN tree[p] \ Range(e) \subseteq Deletable(p)'
    BY <2>2
  <2> QED BY <1>2, <2>2, <2>3, <2>4 DEF Follows, Traces
<1> QED BY <1>2, <1>6, <1>7, <1>8 DEF Unchanged, Plans, Cutting

LEMMA InitKeeps ==
    ASSUME Init PROVE LinesInv
<1>1. Frame
  BY IdleFrame DEF Init
<1>2. fix.pc = "idle" /\ fix.plan = {} /\ fix.flags.auto = FALSE
  BY DEF Init, FixIdle, NoFlags
<1>3. Typed
  BY <1>1, <1>2, SessionAssumption DEF Typed, Init
<1> QED BY <1>2, <1>3 DEF LinesInv, Unchanged, Plans, Cutting, OtherLinesKept, Running

LEMMA StutterKeeps ==
    ASSUME LinesInv, UNCHANGED vars PROVE LinesInv'
<1>1. UNCHANGED <<fix, base, touched, tree>>
  BY DEF vars, gitVars, fixVars, env
<1>2. Frame'
  BY <1>1 DEF LinesInv, Typed, Frame, Kept, Dedup, Tier
<1>3. Typed'
  BY <1>1, <1>2 DEF LinesInv, Typed
<1>4. OtherLinesKept'
  <2>1. Running => \A p \in File \ touched : Follows(p)
    BY DEF LinesInv, OtherLinesKept, Follows
  <2>2. Running => \A p \in File \ touched : Follows(p)'
    BY <1>1, <2>1, FollowsOn
  <2> QED BY <1>1, <2>2 DEF OtherLinesKept, Follows, Running
<1>5. Cutting'
  BY <1>1 DEF LinesInv, Cutting, NextFile, Cut, Doomed, Hits
<1> QED BY <1>1, <1>3, <1>4, <1>5 DEF LinesInv, Unchanged, Plans, Planned

(* Nothing written is ever cut short: what LinesInv needs of the disk.     *)
LEMMA StepKeeps ==
    ASSUME LinesInv, FixStep, UNCHANGED env, DiskCanFill = FALSE PROVE LinesInv'
BY StatusKeeps, BranchKeeps, ClassifyKeeps, ReadKeeps, DeleteKeeps, ReplaceKeeps,
   ReplaceFailsKeeps, LoopEndsKeeps, ProduceKeeps, GitApplyKeeps, GitApplyFailsKeeps
DEF FixStep

LEMMA LinesInvariant ==
    ASSUME DiskCanFill = FALSE
    PROVE  Spec => []LinesInv
<1>1. Init => LinesInv
  BY InitKeeps
<1>2. LinesInv /\ [Next]_vars => LinesInv'
  <2> SUFFICES ASSUME LinesInv, [Next]_vars PROVE LinesInv'
    OBVIOUS
  <2>1. CASE Begin
    BY <2>1, BeginKeeps
  <2>2. CASE Step
    BY <2>2, StepKeeps DEF Step
  <2>3. CASE Kill \/ Return
    BY <2>3, IdleKeeps DEF Kill, Return, FixCrash, env, gitVars
  <2>4. CASE \E f \in File, c \in Edited : OperatorSaves(f, c)
    BY <2>4, SaveKeeps
  <2>5. CASE UNCHANGED vars
    BY <2>5, StutterKeeps
  <2> QED BY <2>1, <2>2, <2>3, <2>4, <2>5 DEF Next
<1> QED BY <1>1, <1>2, PTL DEF Spec

(* However many lines of a file passes delete and patch, in whichever      *)
(* order the findings came and wherever a pass was killed, a file the      *)
(* operator left alone has every other line in its place, none added, and  *)
(* none patched without --auto-llm (_apply_deletions; git apply), as long  *)
(* as the disk takes every write whole.                                    *)
THEOREM LinesKept ==
    ASSUME DiskCanFill = FALSE
    PROVE  Spec => []OtherLinesKept
<1>1. LinesInv => OtherLinesKept
  BY DEF LinesInv
<1> QED BY <1>1, LinesInvariant, PTL

(* What is not a plain import survives the deletions: a noqa line, an      *)
(* import of several names or any other line that a file had is still      *)
(* there, if not patched then as it was (_classify_line).                  *)
THEOREM GuardedLinesKept ==
    ASSUME DiskCanFill = FALSE
    PROVE  Spec => []GuardedLinesNeverDeleted
<1>1. LinesInv => GuardedLinesNeverDeleted
  <2> SUFFICES ASSUME LinesInv, Running, NEW p \in File \ touched, base[p] # Absent,
                      NEW l \in ToSet(base[p]), l.kind \in {"noqa", "multi", "code"}
               PROVE  \E k \in ToSet(tree[p]) : k.id = l.id
    BY DEF GuardedLinesNeverDeleted
  <2>1. PICK e \in [DOMAIN tree[p] -> DOMAIN base[p]] :
           Traces(e, tree[p], base[p], Deletable(p))
    BY DEF LinesInv, OtherLinesKept
  <2>2. PICK n \in DOMAIN base[p] : base[p][n] = l
    BY DEF ToSet
  <2>3. n \notin Deletable(p)
    BY <2>2 DEF Deletable
  <2>4. PICK i \in DOMAIN tree[p] : e[i] = n
    BY <2>1, <2>2, <2>3 DEF Traces, Range
  <2>5. tree[p][i] = l \/ tree[p][i] = Patched(l)
    BY <2>1, <2>2, <2>4 DEF Traces
  <2>6. tree[p][i].id = l.id
    BY <2>5 DEF Patched
  <2> QED BY <2>6 DEF ToSet
<1> QED BY <1>1, LinesInvariant, PTL
-----------------------------------------------------------------------------
(* What one step of the pass may do, when, whatever the disk takes.        *)
Shape ==
    fix \in [pc : {fix.pc}, flags : {fix.flags}, findings : {fix.findings},
             todo : {fix.todo}, plan : {fix.plan}, buffer : {fix.buffer},
             drop : {fix.drop}, deleted : {fix.deleted}, applied : {fix.applied},
             tasks : {fix.tasks}, misses : {fix.misses}, llm : {fix.llm}, exit : {fix.exit}]

Beyond == {"classify", "read", "replace", "produce", "git_apply"}

MayBranch == fix.flags.apply /\ fix.flags.auto /\ ~fix.flags.captured

Branches ==
    /\ fix.pc = "branch" /\ tree' = tree
    /\ \E b \in RecoveryBranch : refs[b] = NoRef /\ refs' = [refs EXCEPT ![b] = refs[head]]

Effect ==
    /\ Shape' /\ fix'.flags = fix.flags /\ fix'.findings = fix.findings
    /\ fix.pc \notin {"idle", "done"} /\ fix'.pc # "idle" /\ head' = head
    /\ refs' = refs \/ Branches
    /\ fix'.pc \in Beyond => fix.pc \in Beyond \/ (fix.pc = "branch" /\ (MayBranch => Branches))
    /\ fix'.pc \in {"status", "branch"} => fix.pc = "status"
    /\ fix.pc \notin Beyond => tree' = tree
    /\ \/ tree' = tree /\ fix'.applied = fix.applied
       \/ FixReplace \/ FixGitApply
    /\ fix'.pc = "replace" => FixRead \/ FixDelete
    /\ fix.pc = "replace" /\ fix'.pc = "done" => NextFile \notin orphan'

LEMMA StepEffect ==
    ASSUME Shape, FixStep PROVE Effect
<1> USE DEF Shape, gitVars, Beyond
<1>1. ASSUME FixStatus PROVE Effect
  <2>1. fix.pc = "status" /\ UNCHANGED <<head, refs, tree>>
    BY <1>1 DEF FixStatus
  <2>2. /\ Shape' /\ fix'.flags = fix.flags /\ fix'.findings = fix.findings
        /\ fix'.applied = fix.applied /\ fix'.pc \in {"done", "branch"}
    BY <1>1 DEF FixStatus, FixReturn
  <2> QED BY <2>1, <2>2 DEF Effect
<1>2. ASSUME FixBranch PROVE Effect
  <2>1. fix.pc = "branch" /\ UNCHANGED <<head, tree>>
    BY <1>2 DEF FixBranch, CreateBranch
  <2>2. /\ Shape' /\ fix'.flags = fix.flags /\ fix'.findings = fix.findings
        /\ fix'.applied = fix.applied /\ fix'.pc \in {"done", "classify"}
        /\ refs' = refs \/ Branches
        /\ (fix'.pc = "classify" => (MayBranch => Branches))
    <3>1. CASE MayBranch /\ fix' = [fix EXCEPT !.pc = "classify"]
      <4>1. \E b \in RecoveryBranch : CreateBranch(b)
        BY <1>2, <3>1 DEF FixBranch, FixReturn, MayBranch
      <4>2. Branches
        BY <2>1, <4>1 DEF CreateBranch, Branches
      <4> QED BY <3>1, <4>2
    <3>2. CASE FixReturn(1) /\ UNCHANGED gitVars
      BY <3>2 DEF FixReturn
    <3>3. CASE ~MayBranch /\ fix' = [fix EXCEPT !.pc = "classify"] /\ UNCHANGED gitVars
      BY <3>3
    <3> QED BY <1>2, <3>1, <3>2, <3>3 DEF FixBranch, MayBranch
  <2> QED BY <2>1, <2>2 DEF Effect
<1>3. ASSUME FixClassify PROVE Effect
  <2>1. fix.pc = "classify" /\ UNCHANGED <<head, refs, tree>>
    BY <1>3 DEF FixClassify
  <2>2. PICK plan, todo : \E pc \in {"classify", "read", "produce"} :
           fix' = [fix EXCEPT !.plan = plan, !.todo = todo, !.pc = pc]
    BY <1>3, <2>1 DEF FixClassify, AfterClassify
  <2>3. /\ Shape' /\ fix'.flags = fix.flags /\ fix'.findings = fix.findings
        /\ fix'.applied = fix.applied /\ fix'.pc \in {"classify", "read", "produce"}
    BY <2>2
  <2> QED BY <2>1, <2>3 DEF Effect
<1>4. ASSUME FixRead PROVE Effect
  <2>1. fix.pc = "read" /\ UNCHANGED <<head, refs, tree>>
    BY <1>4 DEF FixRead
  <2>2. /\ Shape' /\ fix'.flags = fix.flags /\ fix'.findings = fix.findings
        /\ fix'.applied = fix.applied /\ fix'.pc \in {"produce", "done", "replace"}
    BY <1>4 DEF FixRead, FixReturn
  <2> QED BY <1>4, <2>1, <2>2 DEF Effect
<1>5. ASSUME FixDelete PROVE Effect
  <2>1. fix.pc = "replace" /\ UNCHANGED <<head, refs, tree>>
    BY <1>5 DEF FixDelete
  <2>2. PICK drop, buffer : fix' = [fix EXCEPT !.drop = drop, !.buffer = buffer]
    BY <1>5 DEF FixDelete
  <2>3. /\ Shape' /\ fix'.flags = fix.flags /\ fix'.findings = fix.findings
        /\ fix'.applied = fix.applied /\ fix'.pc = "replace"
    BY <2>1, <2>2
  <2> QED BY <1>5, <2>1, <2>3 DEF Effect
<1>6. ASSUME FixReplace PROVE Effect
  <2>1. fix.pc = "replace" /\ UNCHANGED <<head, refs>>
    BY <1>6 DEF FixReplace
  <2>2. PICK plan, deleted, applied :
           fix' = [fix EXCEPT !.pc = "read", !.plan = plan, !.deleted = deleted, !.applied = applied]
    BY <1>6 DEF FixReplace
  <2>3. /\ Shape' /\ fix'.flags = fix.flags /\ fix'.findings = fix.findings /\ fix'.pc = "read"
    BY <2>2
  <2> QED BY <1>6, <2>1, <2>3 DEF Effect
<1>7. ASSUME FixReplaceFails PROVE Effect
  <2>1. fix.pc = "replace" /\ UNCHANGED <<head, refs, tree>> /\ orphan' = orphan \ {NextFile}
    BY <1>7 DEF FixReplaceFails
  <2>2. /\ Shape' /\ fix'.flags = fix.flags /\ fix'.findings = fix.findings
        /\ fix'.applied = fix.applied /\ fix'.pc = "done"
    BY <1>7 DEF FixReplaceFails, FixReturn
  <2> QED BY <2>1, <2>2 DEF Effect
<1>8. ASSUME FixLoopEnds PROVE Effect
  <2>1. fix.pc = "produce" /\ UNCHANGED <<head, refs, tree>>
    BY <1>8 DEF FixLoopEnds
  <2>2. PICK code : FixReturn(code)
    BY <1>8 DEF FixLoopEnds
  <2>3. /\ Shape' /\ fix'.flags = fix.flags /\ fix'.findings = fix.findings
        /\ fix'.applied = fix.applied /\ fix'.pc = "done"
    BY <2>2 DEF FixReturn
  <2> QED BY <2>1, <2>3 DEF Effect
<1>9. ASSUME FixProduce PROVE Effect
  <2>1. fix.pc = "produce" /\ UNCHANGED <<head, refs, tree>>
    BY <1>9 DEF FixProduce
  <2>2. PICK p \in Produced(Task) :
           LET frame == [fix EXCEPT
                          !.misses = IF fix.flags.cap # NoCap /\ (p.status = "rejected" \/ ~p.hit)
                                     THEN @ + 1 ELSE @]
           IN  \/ fix' = [frame EXCEPT !.pc = "git_apply", !.buffer = <<tree[Task.path][Task.start]>>]
               \/ fix' = [frame EXCEPT !.tasks = TaskDone]
    BY <1>9 DEF FixProduce
  <2>3. /\ Shape' /\ fix'.flags = fix.flags /\ fix'.findings = fix.findings
        /\ fix'.applied = fix.applied /\ fix'.pc \in {"produce", "git_apply"}
    BY <2>1, <2>2
  <2> QED BY <2>1, <2>3 DEF Effect
<1>10. ASSUME FixGitApply PROVE Effect
  <2>1. fix.pc = "git_apply" /\ UNCHANGED <<head, refs>>
    BY <1>10 DEF FixGitApply
  <2>2. /\ Shape' /\ fix'.flags = fix.flags /\ fix'.findings = fix.findings /\ fix'.pc = "produce"
    BY <1>10 DEF FixGitApply
  <2> QED BY <1>10, <2>1, <2>2 DEF Effect
<1>11. ASSUME FixGitApplyFails PROVE Effect
  <2>1. fix.pc = "git_apply" /\ UNCHANGED <<head, refs, tree>>
    BY <1>11 DEF FixGitApplyFails
  <2>2. /\ Shape' /\ fix'.flags = fix.flags /\ fix'.findings = fix.findings
        /\ fix'.applied = fix.applied /\ fix'.pc = "produce"
    BY <1>11 DEF FixGitApplyFails
  <2> QED BY <2>1, <2>2 DEF Effect
<1> QED BY <1>1, <1>2, <1>3, <1>4, <1>5, <1>6, <1>7, <1>8, <1>9, <1>10, <1>11 DEF FixStep
-----------------------------------------------------------------------------
(* Lists of findings and flags stay as they were while a pass runs.        *)
LEMMA ShapeKept ==
    ASSUME Shape, [Next]_vars PROVE Shape'
<1>1. CASE Begin
  <2>1. PICK flags \in FlagChoices, report \in Reports : FixStart(flags, report, DOMAIN report)
    BY <1>1 DEF Begin
  <2>2. Frame'
    BY <2>1, Starts, SessionAssumption
  <2> QED BY <2>2 DEF Frame, Shape
<1>2. CASE Step
  BY <1>2, StepEffect DEF Step, Effect
<1>3. CASE fix' = FixIdle
  BY <1>3 DEF FixIdle, Shape
<1>4. CASE fix' = fix
  BY <1>4 DEF Shape
<1> QED BY <1>1, <1>2, <1>3, <1>4 DEF Next, Kill, Return, FixCrash, OperatorSaves, vars, fixVars

LEMMA ShapeInvariant == Spec => []Shape
<1>1. Init => Shape
  BY DEF Init, FixIdle, Shape
<1> QED BY <1>1, ShapeKept, PTL DEF Spec

(* A temporary file that a kill left behind fails at most one more pass:   *)
(* the handler of the pass that fails on a file unlinks it, whoever it     *)
(* belongs to (_apply_deletions).                                          *)
THEOREM OrphansBlockOnce == Spec => OrphanBlocksOnce
<1> DEFINE Once == fix.pc = "replace" /\ fix'.pc = "done" => NextFile \notin orphan'
<1>1. ASSUME Shape, Next PROVE Once
  <2>1. CASE Begin
    BY <2>1 DEF Begin, FixStart
  <2>2. CASE Step
    BY <1>1, <2>2, StepEffect DEF Step, Effect
  <2>3. CASE Kill \/ Return
    BY <2>3 DEF Kill, Return, FixCrash, FixIdle
  <2>4. CASE \E f \in File, c \in Edited : OperatorSaves(f, c)
    BY <2>4 DEF OperatorSaves, fixVars
  <2> QED BY <1>1, <2>1, <2>2, <2>3, <2>4 DEF Next
<1>2. Shape /\ [Next]_vars => [Once]_vars
  BY <1>1
<1> QED BY <1>2, ShapeInvariant, PTL DEF Spec, OrphanBlocksOnce
-----------------------------------------------------------------------------
(* The recovery branch.  A pass that may patch goes beyond the branch step *)
(* only with a branch at the commit it found, and a branch never moves.    *)
Place == Branch \cup {"HEAD"}

HasBranch == \E b \in RecoveryBranch : before[b] = NoRef /\ refs[b] = before[head]

RecoveryInv ==
    /\ Shape
    /\ head = Main /\ before[Main] # NoRef
    /\ refs \in [Place -> Snapshot \cup {NoRef}]
    /\ \A b \in Place : before[b] # NoRef => refs[b] = before[b]
    /\ fix.pc \in {"status", "branch"} /\ touched = {} => tree = base
    /\ fix.flags.auto /\ ~fix.flags.captured =>
          /\ fix.pc \notin {"idle", "done"} => fix.flags.apply
          /\ fix.pc \in Beyond => HasBranch
          /\ Running /\ touched = {} /\ tree # base => HasBranch

(* Once there, the recovery branch stays.                                  *)
LEMMA BranchStays ==
    ASSUME RecoveryInv, head' = head, before' = before, refs' = refs \/ Branches
    PROVE  /\ refs' \in [Place -> Snapshot \cup {NoRef}]
           /\ \A b \in Place : before'[b] # NoRef => refs'[b] = before'[b]
           /\ HasBranch \/ Branches => HasBranch'
<1> USE DEF RecoveryInv, Place
<1>1. CASE refs' = refs
  <2>1. HasBranch => HasBranch'
    BY <1>1 DEF HasBranch
  <2>2. Branches => FALSE
    <3> SUFFICES ASSUME Branches PROVE FALSE
      OBVIOUS
    <3>1. PICK b \in RecoveryBranch : refs[b] = NoRef /\ refs' = [refs EXCEPT ![b] = refs[head]]
      BY DEF Branches
    <3>2. b \in Place /\ Main \in Place
      BY <3>1, FixAssumption, SessionAssumption
    <3>3. refs'[b] = refs[Main] /\ refs[Main] = before[Main]
      BY <3>1, <3>2
    <3> QED BY <1>1, <3>1, <3>3
  <2> QED BY <1>1, <2>1, <2>2
<1>2. CASE Branches
  <2>1. PICK b \in RecoveryBranch : refs[b] = NoRef /\ refs' = [refs EXCEPT ![b] = refs[head]]
    BY <1>2 DEF Branches
  <2>2. b \in Place /\ Main \in Place /\ b # Main
    BY <2>1, FixAssumption, SessionAssumption
  <2>3. refs'[b] = before[Main] /\ before[b] = NoRef
    BY <2>1, <2>2
  <2>4. HasBranch'
    BY <2>1, <2>3 DEF HasBranch
  <2>5. /\ refs' \in [Place -> Snapshot \cup {NoRef}]
        /\ \A c \in Place : before'[c] # NoRef => refs'[c] = before'[c]
    BY <2>1, <2>2, <2>3
  <2> QED BY <2>4, <2>5
<1> QED BY <1>1, <1>2

LEMMA RecoveryKept ==
    ASSUME RecoveryInv, [Next]_vars PROVE RecoveryInv'
<1> USE DEF RecoveryInv
<1>1. Shape'
  BY ShapeKept
<1>2. CASE Begin
  <2>1. PICK flags \in FlagChoices, report \in Reports : FixStart(flags, report, DOMAIN report)
    BY <1>2 DEF Begin
  <2>2. /\ fix'.flags = flags /\ fix'.pc \in {"status", "done"}
        /\ (fix'.pc = "status" => ~BadFlags(flags))
        /\ UNCHANGED gitVars
    BY <2>1, Starts, SessionAssumption
  <2>3. /\ base' = tree /\ before' = refs /\ tree' = tree /\ refs' = refs /\ head' = head
    BY <1>2, <2>2 DEF Begin, gitVars
  <2>4. Main \in Place
    BY SessionAssumption DEF Place
  <2>5. before'[Main] # NoRef
    BY <2>3, <2>4
  <2>6. fix'.pc \notin {"idle", "done"} /\ fix'.flags.auto => fix'.flags.apply
    BY <2>2 DEF BadFlags
  <2> QED BY <1>1, <2>2, <2>3, <2>5, <2>6 DEF Beyond
<1>3. CASE Step
  <2>1. Effect /\ UNCHANGED env
    BY <1>3, StepEffect DEF Step
  <2>2. /\ head' = head /\ before' = before /\ base' = base /\ touched' = touched
        /\ fix'.flags = fix.flags
    BY <2>1 DEF Effect, env
  <2>3. /\ refs' \in [Place -> Snapshot \cup {NoRef}]
        /\ \A b \in Place : before'[b] # NoRef => refs'[b] = before'[b]
        /\ HasBranch \/ Branches => HasBranch'
    BY <2>1, <2>2, BranchStays DEF Effect
  <2>4. fix'.pc \in {"status", "branch"} /\ touched' = {} => tree' = base'
    BY <2>1, <2>2 DEF Effect, Beyond
  <2>5. ASSUME fix'.flags.auto, ~fix'.flags.captured
        PROVE  /\ fix'.pc \notin {"idle", "done"} => fix'.flags.apply
               /\ fix'.pc \in Beyond => HasBranch'
               /\ Running' /\ touched' = {} /\ tree' # base' => HasBranch'
    <3>1. fix.flags.apply /\ fix.flags.auto /\ ~fix.flags.captured
      BY <2>1, <2>2, <2>5 DEF Effect
    <3>2. fix'.pc \in Beyond => HasBranch'
      BY <2>1, <2>3, <3>1 DEF Effect, MayBranch
    <3>3. Running' /\ touched' = {} /\ tree' # base' => HasBranch'
      BY <2>1, <2>2, <2>3, <3>1 DEF Effect, Running
    <3> QED BY <2>2, <3>1, <3>2, <3>3
  <2> QED BY <1>1, <2>2, <2>3, <2>4, <2>5
<1>4. CASE Kill \/ Return
  <2>1. fix' = FixIdle /\ UNCHANGED <<gitVars, env>>
    BY <1>4 DEF Kill, Return, FixCrash
  <2> QED BY <1>1, <2>1 DEF FixIdle, NoFlags, env, gitVars, Beyond
<1>5. CASE \E f \in File, c \in Edited : OperatorSaves(f, c)
  <2>1. PICK f \in File, c \in Edited : OperatorSaves(f, c)
    BY <1>5
  <2>2. /\ head' = head /\ refs' = refs /\ before' = before /\ fix' = fix /\ touched' # {}
    BY <2>1 DEF OperatorSaves, Save, fixVars
  <2> QED BY <1>1, <2>2 DEF HasBranch
<1>6. CASE UNCHANGED vars
  BY <1>1, <1>6 DEF vars, gitVars, fixVars, env, HasBranch, Running
<1> QED BY <1>2, <1>3, <1>4, <1>5, <1>6 DEF Next

(* With --apply --auto-llm no file of the operator changes before a        *)
(* recovery branch at the commit HEAD had exists, unless the caller took   *)
(* one already: a name that is taken, a git that fails and a kill never    *)
(* lead around it (_capture_pre_fix_branch).                               *)
THEOREM RecoverySaved == Spec => []RecoveryBranchFirst
<1>1. Init => RecoveryInv
  <2> SUFFICES ASSUME Init PROVE RecoveryInv
    OBVIOUS
  <2>1. Main \in Place /\ Source \in Snapshot
    BY SessionAssumption DEF Place
  <2>2. Source # NoRef
    BY <2>1, GitAssumption DEF Snapshot
  <2>3. /\ head = Main /\ refs = [b \in Place |-> IF b = Main THEN Source ELSE NoRef]
        /\ before = refs /\ tree = base /\ fix = FixIdle
    BY DEF Init, Place
  <2> QED BY <2>1, <2>2, <2>3 DEF RecoveryInv, FixIdle, NoFlags, Shape
<1>2. RecoveryInv => RecoveryBranchFirst
  BY DEF RecoveryInv, RecoveryBranchFirst, HasBranch
<1> QED BY <1>1, <1>2, RecoveryKept, PTL DEF Spec
-----------------------------------------------------------------------------
(* The report.  The lines of a file are told apart, and so are the         *)
(* findings of a report: one id, one span.                                 *)
OwnLines(lines) == \A i, j \in DOMAIN lines : lines[i].id = lines[j].id => i = j

DistinctLines ==
    /\ \A p \in File : Source[p] # Absent => OwnLines(Source[p])
    /\ \A c \in Edited : c # Absent => OwnLines(c)

DistinctIds ==
    \A r \in Reports : \A i, j \in DOMAIN r : r[i].id = r[j].id => SameSpan(r[i], r[j])

(* A deletion that is reported took a plain import out of its file.        *)
Told(f) ==
    (/\ f.path \notin touched /\ Tier(f) # "LLM_PATCH" /\ f.id \in fix.applied
     /\ base[f.path] # Absent /\ f.start <= Len(base[f.path]))
        => /\ base[f.path][f.start].kind = "import"
           /\ base[f.path][f.start] \notin ToSet(tree[f.path])

OwnInv ==
    /\ \A p \in File : /\ tree[p] # Absent => OwnLines(tree[p])
                       /\ base[p] # Absent => OwnLines(base[p])
    /\ fix.pc = "replace" => OwnLines(fix.buffer)

ReportInv ==
    /\ Running => fix.findings \in Reports
    /\ OwnInv
    /\ Running => \A i \in Kept : Told(fix.findings[i])

LEMMA RemovedOwn ==
    ASSUME NEW s \in Seq(SourceLine), NEW n \in 1..Len(s), OwnLines(s)
    PROVE  OwnLines(RemoveAt(s, n))
<1> DEFINE r == RemoveAt(s, n)
<1>1. /\ DOMAIN r = 1..(Len(s) - 1) /\ DOMAIN s = 1..Len(s) /\ Len(s) \in Nat
      /\ \A i \in 1..(Len(s) - 1) : r[i] = IF i < n THEN s[i] ELSE s[i + 1]
  BY Removed
<1> HIDE DEF r
<1>2. ASSUME NEW i \in DOMAIN r, NEW j \in DOMAIN r, r[i].id = r[j].id PROVE i = j
  <2>1. i \in 1..(Len(s) - 1) /\ j \in 1..(Len(s) - 1)
    BY <1>1
  <2>2. CASE i < n /\ j < n
    BY <1>1, <1>2, <2>1, <2>2 DEF OwnLines
  <2>3. CASE i < n /\ ~(j < n)
    <3>1. r[i] = s[i] /\ r[j] = s[j + 1] /\ i \in DOMAIN s /\ j + 1 \in DOMAIN s
      BY <1>1, <2>1, <2>3
    <3>2. i = j + 1
      BY <1>2, <3>1 DEF OwnLines
    <3> QED BY <2>1, <2>3, <3>2
  <2>4. CASE ~(i < n) /\ j < n
    <3>1. r[i] = s[i + 1] /\ r[j] = s[j] /\ i + 1 \in DOMAIN s /\ j \in DOMAIN s
      BY <1>1, <2>1, <2>4
    <3>2. i + 1 = j
      BY <1>2, <3>1 DEF OwnLines
    <3> QED BY <2>1, <2>4, <3>2
  <2>5. CASE ~(i < n) /\ ~(j < n)
    <3>1. r[i] = s[i + 1] /\ r[j] = s[j + 1] /\ i + 1 \in DOMAIN s /\ j + 1 \in DOMAIN s
      BY <1>1, <2>1, <2>5
    <3>2. i + 1 = j + 1
      BY <1>2, <3>1 DEF OwnLines
    <3> QED BY <2>1, <3>2
  <2> QED BY <2>2, <2>3, <2>4, <2>5
<1> QED BY <1>2 DEF OwnLines, r

(* A finding that is kept is known by its id.                              *)
LEMMA KeptById ==
    ASSUME DistinctIds, fix.findings \in Reports, NEW i \in Kept, NEW j \in Kept,
           fix.findings[i].id = fix.findings[j].id
    PROVE  i = j
<1>1. i \in DOMAIN fix.findings /\ j \in DOMAIN fix.findings /\ fix.findings \in Seq(Finding)
  BY SessionAssumption DEF Kept, Dedup
<1>2. i \in Nat /\ j \in Nat
  BY <1>1
<1>3. SameSpan(fix.findings[i], fix.findings[j]) /\ SameSpan(fix.findings[j], fix.findings[i])
  BY <1>1 DEF DistinctIds, SameSpan
<1>4. ~(i < j) /\ ~(j < i)
  BY <1>1, <1>3 DEF Kept, Dedup
<1> QED BY <1>2, <1>4

(* A step that reports and writes nothing, and starts no deletion loop.    *)
LEMMA ToldOn ==
    ASSUME NEW f, Told(f), fix'.applied = fix.applied, UNCHANGED <<base, touched, tree>>
    PROVE  Told(f)'
BY DEF Told, Tier

LEMMA ReplaceTold ==
    ASSUME LinesInv, ReportInv, FixReplace, UNCHANGED env, Effect,
           DiskCanFill = FALSE, DistinctIds
    PROVE  ReportInv'
<1> USE DEF env
<1> DEFINE file == NextFile
<1>1. /\ fix.pc = "replace" /\ fix.drop = {} /\ UNCHANGED <<base, touched>> /\ Running
      /\ Frame /\ fix.plan # {} /\ fix.buffer \in Seq(SourceLine) /\ tree \in Snapshot
      /\ fix'.findings = fix.findings /\ fix.findings \in Reports /\ fix'.pc = "read"
  BY DEF FixReplace, Running, LinesInv, Typed, Effect, Shape, ReportInv
<1>2. file \in File /\ Min(fix.plan) \in Hits
  BY <1>1, Basics
<1>3. tree' = [tree EXCEPT ![file] = fix.buffer]
  BY DEF FixReplace, Payloads
<1>4. /\ tree'[file] = fix.buffer
      /\ \A p \in File : p # file => tree'[p] = tree[p]
  <2> HIDE DEF file
  <2> QED BY <1>1, <1>2, <1>3 DEF Snapshot
<1>5. fix'.applied = fix.applied \cup {fix.findings[i].id : i \in Hits}
  BY <1>1 DEF FixReplace, Frame
<1>6. Kept' = Kept
  BY <1>1 DEF Kept, Dedup
<1>7. OwnInv'
  BY <1>1, <1>2, <1>4 DEF ReportInv, OwnInv
<1>8. ASSUME NEW i \in Kept, NEW f, f = fix.findings[i], f.path \notin touched,
             Tier(f) # "LLM_PATCH", f.id \in fix'.applied,
             base[f.path] # Absent, f.start <= Len(base[f.path])
      PROVE  /\ base[f.path][f.start].kind = "import"
             /\ base[f.path][f.start] \notin ToSet(tree'[f.path])
  <2>1. f.path \in File /\ f.start \in Nat \ {0} /\ base \in Snapshot
    BY <1>1, <1>8, Basics DEF LinesInv, Typed
  <2>2. base[f.path] \in Seq(SourceLine) /\ f.start \in DOMAIN base[f.path]
    BY <1>8, <2>1, FilesAreText DEF Snapshot
  <2>3. f.path = file => \A h \in Hits : Planned(fix.findings[h])
    BY <1>1, <1>8 DEF LinesInv, Plans, Hits
  <2>4. CASE f.id \in fix.applied
    <3>1. /\ base[f.path][f.start].kind = "import"
          /\ base[f.path][f.start] \notin ToSet(tree[f.path])
      BY <1>1, <1>8, <2>4 DEF ReportInv, Told
    <3>2. f.path # file
      <4> SUFFICES ASSUME f.path = file PROVE FALSE
        OBVIOUS
      <4>1. tree[f.path] = base[f.path]
        BY <1>2, <2>3 DEF Planned, Hits
      <4> QED BY <2>2, <3>1, <4>1 DEF ToSet
    <3> QED BY <1>4, <2>1, <3>1, <3>2
  <2>5. CASE f.id \in {fix.findings[h].id : h \in Hits}
    <3>1. PICK h \in Hits : f.id = fix.findings[h].id
      BY <2>5
    <3>2. h \in Kept
      BY <1>1 DEF Hits, Frame
    <3>3. i = h
      BY <1>1, <1>8, <3>1, <3>2, KeptById
    <3>4. f.path = file /\ f.start \in Doomed
      BY <1>8, <3>3 DEF Hits, Doomed
    <3>5. base[f.path][f.start].kind = "import"
      BY <1>8, <2>3, <3>3, <3>4 DEF Planned
    <3>6. PICK e \in [DOMAIN fix.buffer -> DOMAIN base[file]] :
             Cut(e, fix.buffer, base[file], Doomed, fix.drop)
      BY <1>1, <1>8, <3>4 DEF LinesInv, Cutting
    <3>7. f.start \notin Range(e)
      BY <1>1, <3>4, <3>6 DEF Cut
    <3>8. OwnLines(base[file])
      BY <1>2, <1>8, <3>4 DEF ReportInv, OwnInv
    <3>9. ASSUME NEW k \in DOMAIN fix.buffer, fix.buffer[k] = base[f.path][f.start]
          PROVE  FALSE
      <4>1. base[file][e[k]] = base[file][f.start] /\ e[k] \in DOMAIN base[file]
        BY <3>4, <3>6, <3>9 DEF Cut
      <4>2. e[k] = f.start
        BY <2>2, <3>4, <3>8, <4>1 DEF OwnLines
      <4> QED BY <3>6, <3>7, <4>2 DEF Range
    <3>10. base[f.path][f.start] \notin ToSet(fix.buffer)
      BY <3>9 DEF ToSet
    <3> QED BY <1>4, <3>4, <3>5, <3>10
  <2> QED BY <1>5, <1>8, <2>4, <2>5
<1>9. \A i \in Kept : Told(fix.findings[i])'
  <2> SUFFICES ASSUME NEW i \in Kept, NEW f, f = fix'.findings[i] PROVE Told(f)'
    BY <1>1 DEF Told, Tier
  <2>1. f = fix.findings[i]
    BY <1>1
  <2> QED BY <1>1, <1>8, <2>1 DEF Told, Tier
<1> QED BY <1>1, <1>6, <1>7, <1>9 DEF ReportInv

LEMMA GitApplyTold ==
    ASSUME LinesInv, ReportInv, FixGitApply, UNCHANGED env, Effect, DistinctIds
    PROVE  ReportInv'
<1> USE DEF env
<1> DEFINE path  == Task.path
           old   == fix.buffer[1]
           lines == [i \in DOMAIN tree[path] |->
                        IF tree[path][i] = old THEN Patched(old) ELSE tree[path][i]]
<1>1. /\ fix.pc = "git_apply" /\ UNCHANGED <<base, touched>> /\ Running /\ Frame
      /\ fix.tasks # {} /\ tree \in Snapshot /\ fix'.pc = "produce"
      /\ tree[path] # Absent
      /\ tree' = [tree EXCEPT ![path] = [i \in DOMAIN @ |-> IF @[i] = old THEN Patched(old) ELSE @[i]]]
      /\ fix'.findings = fix.findings /\ fix.findings \in Reports
  BY DEF FixGitApply, Running, LinesInv, Typed, Effect, Shape, ReportInv
<1>2. path \in File /\ Min(fix.tasks) \in fix.tasks
  BY <1>1, Basics
<1>3. tree' = [tree EXCEPT ![path] = lines]
  BY <1>1, <1>2 DEF Snapshot
<1>4. /\ DOMAIN lines = DOMAIN tree[path]
      /\ \A i \in DOMAIN lines : \/ lines[i] = tree[path][i]
                                 \/ tree[path][i] = old /\ lines[i] = Patched(old)
  <2> HIDE DEF path, old
  <2> QED OBVIOUS
<1>5. fix'.applied = fix.applied \cup {Task.id}
  BY <1>1 DEF FixGitApply, Frame
<1> HIDE DEF path, lines, old
<1>6. tree'[path] = lines /\ \A p \in File : p # path => tree'[p] = tree[p]
  BY <1>1, <1>2, <1>3 DEF Snapshot
<1>7. Kept' = Kept
  BY <1>1 DEF Kept, Dedup
<1>8. OwnInv'
  <2>1. OwnLines(tree[path])
    BY <1>1, <1>2 DEF ReportInv, OwnInv
  <2>2. \A i \in DOMAIN lines : lines[i].id = tree[path][i].id
    BY <1>4 DEF Patched
  <2>3. OwnLines(lines)
    BY <1>4, <2>1, <2>2 DEF OwnLines
  <2>4. \A p \in File : tree'[p] # Absent => OwnLines(tree'[p])
    BY <1>6, <2>3 DEF ReportInv, OwnInv
  <2> QED BY <1>1, <2>4 DEF ReportInv, OwnInv
<1>9. ASSUME NEW i \in Kept, NEW f, f = fix.findings[i], f.path \notin touched,
             Tier(f) # "LLM_PATCH", f.id \in fix'.applied,
             base[f.path] # Absent, f.start <= Len(base[f.path])
      PROVE  /\ base[f.path][f.start].kind = "import"
             /\ base[f.path][f.start] \notin ToSet(tree'[f.path])
  <2>1. f.id # Task.id
    <3> SUFFICES ASSUME f.id = Task.id PROVE FALSE
      OBVIOUS
    <3> DEFINE t == Min(fix.tasks)
    <3>1. t \in Kept /\ Tier(fix.findings[t]) = "LLM_PATCH"
      BY <1>1, <1>2 DEF Frame
    <3>2. fix.findings[i].id = fix.findings[t].id
      BY <1>9 DEF Task
    <3> HIDE DEF t
    <3>3. i = t
      BY <1>1, <3>1, <3>2, KeptById
    <3> QED BY <1>9, <3>1, <3>3
  <2>2. /\ base[f.path][f.start].kind = "import"
        /\ base[f.path][f.start] \notin ToSet(tree[f.path])
    BY <1>1, <1>5, <1>9, <2>1 DEF ReportInv, Told
  <2>3. f.path \in File
    BY <1>1, <1>9, Basics
  <2>4. CASE f.path # path
    BY <1>6, <2>2, <2>3, <2>4
  <2>5. CASE f.path = path
    <3>1. ASSUME NEW k \in DOMAIN lines PROVE lines[k] # base[f.path][f.start]
      <4>1. CASE lines[k] = tree[path][k]
        BY <1>4, <2>2, <2>5, <4>1 DEF ToSet
      <4>2. CASE lines[k] = Patched(old)
        BY <2>2, <4>2 DEF Patched
      <4> QED BY <1>4, <4>1, <4>2
    <3> QED BY <1>6, <2>2, <2>5, <3>1 DEF ToSet
  <2> QED BY <2>4, <2>5
<1>10. \A i \in Kept : Told(fix.findings[i])'
  <2> SUFFICES ASSUME NEW i \in Kept, NEW f, f = fix'.findings[i] PROVE Told(f)'
    BY <1>1 DEF Told, Tier
  <2>1. f = fix.findings[i]
    BY <1>1
  <2> QED BY <1>1, <1>9, <2>1 DEF Told, Tier
<1> QED BY <1>1, <1>7, <1>8, <1>10 DEF ReportInv

LEMMA BufferOwn ==
    ASSUME LinesInv, OwnInv, FixRead \/ FixDelete, fix'.pc = "replace"
    PROVE  OwnLines(fix'.buffer)
<1>1. CASE FixRead
  <2>1. fix.plan # {} /\ tree[NextFile] # Absent /\ fix'.buffer = tree[NextFile]
    <3>1. Frame
      BY DEF LinesInv, Typed
    <3>2. ~(fix' = [fix EXCEPT !.pc = "produce"]) /\ ~FixReturn(1)
      BY <3>1 DEF Frame, FixReturn
    <3>3. /\ fix.plan # {} /\ tree[NextFile] # Absent
          /\ fix' = [fix EXCEPT !.pc = "replace", !.buffer = tree[NextFile],
                                !.drop = {fix.findings[i].start : i \in Hits}]
      BY <1>1, <3>2 DEF FixRead
    <3> QED BY <3>1, <3>3 DEF Frame
  <2>2. NextFile \in File
    BY <2>1, Basics DEF LinesInv, Typed
  <2> QED BY <2>1, <2>2 DEF OwnInv
<1>2. CASE FixDelete
  <2> DEFINE line == Max(fix.drop)
  <2>1. /\ fix.pc = "replace" /\ fix.drop # {} /\ fix.buffer \in Seq(SourceLine) /\ Frame
        /\ fix.drop \subseteq Nat /\ IsFiniteSet(fix.drop) /\ OwnLines(fix.buffer)
    BY <1>2 DEF FixDelete, LinesInv, Typed, Frame, OwnInv
  <2>2. line \in fix.drop
    BY <2>1, MaxIn
  <2>3. fix'.buffer = IF line <= Len(fix.buffer) THEN RemoveAt(fix.buffer, line) ELSE fix.buffer
    BY <1>2, <2>1 DEF FixDelete, Frame
  <2> HIDE DEF line
  <2>4. line \in Nat \ {0}
    BY <2>1, <2>2 DEF Frame
  <2>5. CASE line <= Len(fix.buffer)
    <3>1. line \in 1..Len(fix.buffer)
      BY <2>1, <2>4, <2>5
    <3> QED BY <2>1, <2>3, <2>5, <3>1, RemovedOwn
  <2>6. CASE ~(line <= Len(fix.buffer))
    BY <2>1, <2>3, <2>6
  <2> QED BY <2>5, <2>6
<1> QED BY <1>1, <1>2

LEMMA ReportKept ==
    ASSUME LinesInv, ReportInv, [Next]_vars, DiskCanFill = FALSE, DistinctLines, DistinctIds
    PROVE  ReportInv'
<1> USE DEF ReportInv
<1>0. Shape
  BY DEF LinesInv, Typed, Frame, Shape
<1>1. CASE Begin
  <2>1. PICK flags \in FlagChoices, report \in Reports : FixStart(flags, report, DOMAIN report)
    BY <1>1 DEF Begin
  <2>2. /\ fix'.findings = report /\ fix'.applied = {} /\ fix'.pc \in {"status", "done"}
        /\ UNCHANGED gitVars /\ base' = tree
    BY <1>1, <2>1, Starts, SessionAssumption DEF Begin
  <2>3. OwnInv'
    BY <2>2 DEF OwnInv, gitVars
  <2>4. \A i \in Kept' : Told(fix.findings[i])'
    BY <2>2 DEF Told
  <2> QED BY <2>2, <2>3, <2>4
<1>2. CASE Step
  <2>1. Effect /\ FixStep /\ UNCHANGED env
    BY <1>0, <1>2, StepEffect DEF Step
  <2>2. CASE FixReplace
    BY <2>1, <2>2, ReplaceTold
  <2>3. CASE FixGitApply
    BY <2>1, <2>3, GitApplyTold
  <2>4. CASE tree' = tree /\ fix'.applied = fix.applied
    <3>1. /\ UNCHANGED <<base, touched, tree>> /\ Running /\ fix'.findings = fix.findings
          /\ (fix'.pc = "replace" => FixRead \/ FixDelete)
      BY <2>1, <2>4 DEF Effect, env, Running
    <3>2. OwnInv'
      BY <3>1, BufferOwn DEF OwnInv
    <3>3. Kept' = Kept
      BY <3>1 DEF Kept, Dedup
    <3>4. \A i \in Kept : Told(fix.findings[i])'
      <4> SUFFICES ASSUME NEW i \in Kept, NEW f, f = fix.findings[i] PROVE Told(f)'
        BY <3>1 DEF Told, Tier
      <4> QED BY <2>4, <3>1, ToldOn
    <3> QED BY <3>1, <3>2, <3>3, <3>4
  <2> QED BY <2>1, <2>2, <2>3, <2>4 DEF Effect
<1>3. CASE Kill \/ Return
  <2>1. fix'.pc = "idle" /\ UNCHANGED <<tree, base>>
    BY <1>3 DEF Kill, Return, FixCrash, FixIdle, gitVars, env
  <2> QED BY <2>1 DEF Running, OwnInv
<1>4. CASE \E f \in File, c \in Edited : OperatorSaves(f, c)
  <2>1. PICK f \in File, c \in Edited : OperatorSaves(f, c)
    BY <1>4
  <2>2. /\ tree' = [tree EXCEPT ![f] = c] /\ touched' = touched \cup {f} /\ base' = base
        /\ fix' = fix /\ tree \in Snapshot
    BY <2>1 DEF OperatorSaves, Save, fixVars, LinesInv, Typed
  <2>3. OwnInv'
    BY <2>2 DEF OwnInv, DistinctLines, Snapshot
  <2>4. Running => \A i \in Kept : Told(fix.findings[i])'
    <3> SUFFICES ASSUME Running, NEW i \in Kept, NEW g, g = fix.findings[i] PROVE Told(g)'
      BY <2>2 DEF Told, Tier
    <3>1. Told(g) /\ g.path \in File
      <4>1. i \in DOMAIN fix.findings /\ Frame
        BY DEF Kept, Dedup, LinesInv, Typed
      <4> QED BY <4>1, Basics
    <3>2. g.path # f => tree'[g.path] = tree[g.path]
      BY <2>2, <3>1 DEF Snapshot
    <3> QED BY <2>2, <3>1, <3>2 DEF Told, Tier
  <2>5. Kept' = Kept
    BY <2>2 DEF Kept, Dedup
  <2> QED BY <2>2, <2>3, <2>4, <2>5 DEF Running
<1>5. CASE UNCHANGED vars
  <2>1. UNCHANGED <<fix, base, touched, tree>>
    BY <1>5 DEF vars, gitVars, fixVars, env
  <2>2. Kept' = Kept
    BY <2>1 DEF Kept, Dedup
  <2>3. Running => \A i \in Kept : Told(fix.findings[i])'
    BY <2>1 DEF Told, Tier
  <2> QED BY <2>1, <2>2, <2>3 DEF OwnInv, Running
<1> QED BY <1>1, <1>2, <1>3, <1>4, <1>5 DEF Next

(* The ids a pass reports are of deletions that happened, and a planned    *)
(* deletion that is not reported did not happen, at every step, kills and  *)
(* failures of other files included (_run_apply).  Two findings of a       *)
(* report on different lines have different ids, the lines of a file are   *)
(* told apart, and the disk takes every write whole.                       *)
THEOREM ReportTrue ==
    ASSUME DiskCanFill = FALSE, DistinctLines, DistinctIds
    PROVE  Spec => []ReportIsExact
<1>1. Init => ReportInv
  BY DEF Init, ReportInv, OwnInv, Running, FixIdle, DistinctLines
<1>2. LinesInv /\ ReportInv /\ [Next]_vars => ReportInv'
  BY ReportKept
<1>3. LinesInv /\ ReportInv => ReportIsExact
  <2> SUFFICES ASSUME LinesInv, ReportInv, Running, NEW i \in Kept, NEW f, f = fix.findings[i],
                      f.path \notin touched, Tier(f) # "LLM_PATCH",
                      base[f.path] # Absent, f.start <= Len(base[f.path])
               PROVE  /\ f.id \in fix.applied => base[f.path][f.start] \notin ToSet(tree[f.path])
                      /\ i \in fix.plan => base[f.path][f.start] \in ToSet(tree[f.path])
    BY DEF ReportIsExact, Kept
  <2>1. f.id \in fix.applied => base[f.path][f.start] \notin ToSet(tree[f.path])
    BY DEF ReportInv, Told
  <2>2. ASSUME i \in fix.plan PROVE base[f.path][f.start] \in ToSet(tree[f.path])
    <3>1. Frame /\ i \in DOMAIN fix.findings /\ base \in Snapshot /\ tree[f.path] = base[f.path]
      BY <2>2 DEF LinesInv, Typed, Kept, Dedup, Plans, Planned
    <3>2. f.path \in File /\ f.start \in Nat \ {0}
      BY <3>1, Basics
    <3>3. base[f.path] \in Seq(SourceLine)
      BY <3>1, <3>2, FilesAreText DEF Snapshot
    <3>4. f.start \in DOMAIN base[f.path]
      BY <3>2, <3>3
    <3> QED BY <3>1, <3>4 DEF ToSet
  <2> QED BY <2>1, <2>2
<1> QED BY <1>1, <1>2, <1>3, LinesInvariant, PTL DEF Spec
=============================================================================
