--------------------------- MODULE MCScopeDeploy ----------------------------
(* Scopes of up to three steps over two objects: v2 and v1 rsync steps, an  *)
(* op step and a raw command, some of them parallel.                        *)
EXTENDS ScopeDeploy

S(kind, object, gated, parallel, undo, hook) ==
  [kind |-> kind, object |-> object, gated |-> gated, parallel |-> parallel,
   undo |-> undo, hook |-> hook]

Menu ==
  {S("rsync", "f", TRUE, FALSE, TRUE, FALSE),
   S("rsync", "f", FALSE, TRUE, TRUE, FALSE),
   S("rsync", "g", TRUE, TRUE, TRUE, TRUE),
   S("op", "g", TRUE, FALSE, FALSE, FALSE),
   S("raw", "g", FALSE, TRUE, FALSE, FALSE)}

MCPlans == {<<x, y, z>> : x, y, z \in Menu}

O(dry, fast, roll, workers) ==
  [dryRun |-> dry, failFast |-> fast, rollback |-> roll, workers |-> workers, planHook |-> TRUE]

MCOptions == {O(FALSE, fast, roll, w) : fast, roll \in BOOLEAN, w \in {1, 2}}
               \union {O(TRUE, TRUE, TRUE, 2)}

MCTargets ==
  {[live |-> [f |-> l, g |-> "base"], backup |-> [f |-> b, g |-> "absent"]] :
     l \in {"base", "new"}, b \in {"absent", "stale"}}
=============================================================================
