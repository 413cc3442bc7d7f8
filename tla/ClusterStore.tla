---------------------------- MODULE ClusterStore ----------------------------
(***************************************************************************)
(* The clusters of similar findings: autofix/dedup/cluster_store.py, the   *)
(* cascade of cascade.py and the identities of autofix/evidence/           *)
(* fingerprints.py, as operators on the list that clusters.json holds.     *)
(*                                                                         *)
(* Abstracted: a hash is the tuple of what is hashed.  The pipeline gives  *)
(* compute_simhash no parse tree, so a signature is made of the rule and   *)
(* the path alone; Near says which signatures differ in three bits or      *)
(* fewer.  Times and counts of a cluster are left out.                     *)
(***************************************************************************)
EXTENDS Integers, Sequences, FiniteSets

CONSTANT Near      \* pairs of signatures within SIMHASH_MAX_HAMMING

(* What compute_finding_fingerprint, the replay's composite key, the       *)
(* packet's prompt_prefix_hash and compute_simhash tell apart.             *)
Fingerprint(rule, path, name, stmt) == <<rule, path, name, stmt>>
Key(rule, path, name) == <<rule, path, name>>
PromptHash(rule, path, name, slice) == <<rule, path, name, slice>>
Signature(rule, path) == <<rule, path>>

(* A finding; an import that is never used has a name, a statement and the *)
(* lines around it.  path is NoFile for a legacy entry that names none.    *)
Finding(rule, path, name, stmt, slice) ==
    [id   |-> Fingerprint(rule, path, name, stmt),
     key  |-> Key(rule, path, name),
     hash |-> PromptHash(rule, path, name, slice),
     sig  |-> Signature(rule, path),
     path |-> path]

EmptyStore == <<>>

(* _fp_index, as load builds it: a later cluster hides an earlier one.     *)
FindByFingerprint(store, id) ==
    LET holding == {i \in DOMAIN store : \E k \in DOMAIN store[i].members :
                                             store[i].members[k] = id}
    IN {i \in holding : \A j \in holding : j <= i}

(* The first cluster near enough.                                          *)
FindBySimhash(store, sig) ==
    LET near == {i \in DOMAIN store : <<store[i].sig, sig>> \in Near}
    IN {i \in near : \A j \in near : i <= j}

RegisterNewCluster(store, f) ==
    Append(store, [canonical |-> f.id, sig |-> f.sig, members |-> <<f.id>>])

UpdateOnMatch(store, i, f) ==
    LET joined == [store[i] EXCEPT !.members = Append(@, f.id)]
    IN [store EXCEPT ![i] = joined]

(* Mutant: the second tier is asked first.                                 *)
ClassifySimhashFirst(store, f) ==
    LET similar == FindBySimhash(store, f.sig) IN
    IF similar # {} THEN UpdateOnMatch(store, CHOOSE i \in similar : TRUE, f)
    ELSE IF FindByFingerprint(store, f.id) # {} THEN store
    ELSE RegisterNewCluster(store, f)

(* DedupCascade.classify: what it leaves in the store.                     *)
Classify(store, f) ==
    LET similar == FindBySimhash(store, f.sig) IN
    IF FindByFingerprint(store, f.id) # {} THEN store
    ELSE IF similar # {} THEN UpdateOnMatch(store, CHOOSE i \in similar : TRUE, f)
    ELSE RegisterNewCluster(store, f)

(* Every finding is a member of one cluster, once; a cluster goes by the   *)
(* finding that opened it, which is its first member.                      *)
IsPartition(store) ==
    /\ \A i, j \in DOMAIN store :
           \A k \in DOMAIN store[i].members, l \in DOMAIN store[j].members :
               store[i].members[k] = store[j].members[l] => i = j /\ k = l
    /\ \A i \in DOMAIN store : store[i].canonical = store[i].members[1]
=============================================================================
