----------------------------- MODULE MCPoolRoll -----------------------------
(* TLC instances of PoolRoll.                                                *)
EXTENDS PoolRoll, TLC

A == 1
B == 2
S(t, a, b, g, h) ==
    [tmpl |-> t, want |-> (A :> a @@ B :> b), gen |-> g, poolGen |-> (A :> 0 @@ B :> h)]
(* A template that cannot start, and its repair.                             *)
Repair == << S(1, 2, Absent, 1, 0), S(2, 2, Absent, 2, 0), S(3, 2, Absent, 3, 0) >>
(* Two brokers scaled away.                                                  *)
Shrink == << S(1, 3, Absent, 1, 0), S(1, 1, Absent, 2, 0) >>
(* A NodePool added and removed beside the default pool.                     *)
AddRemove == << S(1, 1, Absent, 1, 0), S(1, 1, 1, 1, 1), S(1, 1, Absent, 1, 0) >>
(* A template change and a larger pool in one edit.                          *)
Grow == << S(1, 1, Absent, 1, 0), S(3, 2, Absent, 2, 0) >>
(* A template change and a smaller pool in one edit.                         *)
ShrinkAndChange == << S(1, 2, Absent, 1, 0), S(3, 1, Absent, 2, 0) >>

AllScripts == {Repair, Shrink, AddRemove, Grow}
Lost == {ShrinkAndChange}
=============================================================================
