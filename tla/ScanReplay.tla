----------------------------- MODULE ScanReplay -----------------------------
(***************************************************************************)
(* What autofix/telemetry/replay.py makes of the rows of one scan in       *)
(* events.jsonl: the anchor, the historical findings and the verdict, as   *)
(* operators on the sequence of these rows.                                *)
(*                                                                         *)
(* Abstracted: a row is its event and the fields a replay looks at; the    *)
(* rows no replay looks at are left out, LLMCallGated among them, which    *)
(* has neither a scan_id nor a finding_id.                                 *)
(***************************************************************************)
EXTENDS Integers, Sequences, FiniteSets

Started(paths, policy) == [event |-> "ScanStarted", paths |-> paths, policy |-> policy]
PacketBuilt(f) ==
    [event |-> "EvidencePacketBuilt", id |-> f.id, key |-> f.key, hash |-> f.hash]
Scored(f)    == [event |-> "PriorityScored", id |-> f.id]
Deduped(f)   == [event |-> "FindingDeduped", id |-> f.id]
Completed(status) == [event |-> "ScanCompleted", status |-> status]
Reported == [event |-> "SARIFEmitted"]

Indices(rows, events) == {i \in DOMAIN rows : rows[i].event \in events}
Earliest(S) == CHOOSE i \in S : \A j \in S : i <= j

HasAnchor(rows) == Indices(rows, {"ScanStarted"}) # {}
Anchor(rows) == rows[Earliest(Indices(rows, {"ScanStarted"}))]
-----------------------------------------------------------------------------
(* _parse_historical_findings: any row with a finding_id makes a finding,  *)
(* in order of appearance; only EvidencePacketBuilt says which it is.      *)
OfFinding(rows, id) ==
    {i \in Indices(rows, {"EvidencePacketBuilt", "PriorityScored", "FindingDeduped"}) :
        rows[i].id = id}

HistoricalIds(rows) ==
    {rows[i].id : i \in Indices(rows, {"EvidencePacketBuilt", "PriorityScored",
                                       "FindingDeduped"})}

Historical(rows, id) ==
    LET built == OfFinding(rows, id) \cap Indices(rows, {"EvidencePacketBuilt"})
    IN [at   |-> Earliest(OfFinding(rows, id)),
        key  |-> IF built = {} THEN <<>> ELSE rows[Earliest(built)].key,
        hash |-> IF built = {} THEN <<>> ELSE rows[Earliest(built)].hash]

(* hist_by_key and repr_by_key, to the hash of each key: of two findings   *)
(* with one key the dict keeps the last, setdefault the first.             *)
HistByKey(rows) ==
    LET hist == {Historical(rows, id) : id \in HistoricalIds(rows)}
        of(k) == {h \in hist : h.key = k}
    IN [k \in {h.key : h \in hist} |->
           (CHOOSE h \in of(k) : \A g \in of(k) : g.at <= h.at).hash]

ReprByKey(found) ==
    LET of(k) == {i \in DOMAIN found : found[i].key = k}
    IN [k \in {found[i].key : i \in DOMAIN found} |-> found[Earliest(of(k))].hash]

(* Mutant: findings that are only reproduced do not count.                 *)
VerdictHistorical(rows, found) ==
    LET hist == HistByKey(rows) repr == ReprByKey(found) IN
    IF \A k \in DOMAIN hist : k \in DOMAIN repr /\ hist[k] = repr[k]
    THEN "match" ELSE "mismatch"

Verdict(rows, found) ==
    IF HistByKey(rows) = ReprByKey(found) THEN "match" ELSE "mismatch"
=============================================================================
