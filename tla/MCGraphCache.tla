---------------------------- MODULE MCGraphCache ----------------------------
(* Small instances of GraphCache for TLC. *)
EXTENDS GraphCache, TLC

CONSTANTS x, u, t, w, x1, x2, u1, u2, u3, t1, f, g, s1, s2

From(p, n) == [kind |-> "from", path |-> p, name |-> n]
Local(n)   == [kind |-> "local", path |-> x, name |-> n]
Module(p)  == [kind |-> "module", path |-> p, name |-> f]

(* t and the untracked w call x, x2 calls u, u1 and u2 call x back; u2 has *)
(* lost f and u3 has it again.  x1 imports u as a module.                  *)
MCDefs == x1 :> {f} @@ x2 :> {f} @@ u1 :> {f, g} @@ u2 :> {g} @@ u3 :> {f}
          @@ t1 :> {g}
MCRefs == x1 :> {Module(u)} @@ x2 :> {From(u, f)}
          @@ u1 :> {Local(f), From(x, f)} @@ u2 :> {From(x, f)} @@ u3 :> {}
          @@ t1 :> {From(x, f)}
MCVersions == x :> {x1, x2} @@ u :> {u1, u2, u3} @@ t :> {t1} @@ w :> {}
MCFirstTree == x :> x1 @@ u :> u1 @@ t :> t1 @@ w :> t1
Symmetry == Permutations(Scan)
=============================================================================
