---------------------------- MODULE MCScanFunnel ----------------------------
(* A small instance of ScanFunnel for TLC. *)
EXTENDS ScanFunnel, TLC

CONSTANTS x, u, k, x1, x2, u1, k1, fun, a, b, c, d, s1, s2, p1, p2

Import(name, stmt, slice) == [name |-> name, stmt |-> stmt, slice |-> slice]

(* u calls x.fun; k is a module of imports, without a definition.  x2 has  *)
(* the import of x1 in another place.                                      *)
MCDefs == x1 :> {fun} @@ x2 :> {fun} @@ u1 :> {fun} @@ k1 :> {}
MCRefs == x1 :> {} @@ x2 :> {} @@ u1 :> {[kind |-> "from", path |-> x, name |-> fun]} @@ k1 :> {}
MCUnused == x1 :> <<Import(a, a, c)>>
         @@ x2 :> <<Import(a, a, d)>>
         @@ u1 :> <<>>
         @@ k1 :> <<Import(b, b, c)>>
MCVersions == x :> {x1, x2} @@ u :> {} @@ k :> {Absent}
MCFirstHead == x :> x1 @@ u :> u1 @@ k :> k1
MCFirstTree == x :> x2 @@ u :> u1 @@ k :> k1
MCOrder == <<k, u, x>>

(* The signatures of x and k are close.                                    *)
Sig(p) == <<"unused-import", p>>
MCNear == {<<Sig(p), Sig(p)>> : p \in {x, u, k}}
          \cup {<<Sig(x), Sig(k)>>, <<Sig(k), Sig(x)>>}
          \cup {<<<<"legacy", p>>, <<"legacy", p>>>> : p \in {u, NoFile}}

(* One legacy entry is a finding of u, the other names no file.            *)
MCLegacy == <<[admissible |-> TRUE, finding |-> Finding("legacy", u, a, a, d)],
              [admissible |-> TRUE, finding |-> Finding("legacy", NoFile, b, b, d)]>>

Ask(full, fresh, cheap) ==
    [kind |-> "cli", full |-> full, fresh |-> fresh, cheap |-> cheap,
     batch |-> {}]
Batch(batch, fresh) ==
    [kind |-> "watch", full |-> FALSE, fresh |-> fresh, cheap |-> TRUE, batch |-> batch]
MCRequests == {Ask(TRUE, FALSE, TRUE), Ask(FALSE, FALSE, TRUE), Batch({x}, FALSE)}
Symmetry == Permutations(Process)
=============================================================================
