---------------------------- MODULE MCStatePatch ----------------------------
(***************************************************************************)
(* Instances of StatePatch for TLC: one variable, one flag, one stage, and *)
(* the operations that differ in what the curator, the validator, the      *)
(* engine or the store makes of them.                                      *)
(***************************************************************************)
EXTENDS StatePatch, TLC

Keys == {"trust", "event_combat", "finale", "location", "active_npcs"}

OfferedOps ==
  { Op("set", "variables", "trust", Number(1)),
    Op("set_variable", "", "trust", Text(1)),
    Op("set", "variables", "trust", None),
    Op("increment", "variables", "trust", None),
    Op("increment", "", "trust", Number(2)),
    Op("set_scene_field", "", "location", Text(1)),
    Op("set_scene_field", "scene_state", "active_npcs", List),
    Op("set_scene_field", "scene_state", "active_npcs", None),
    Op("activate_stage", "active_stage_ids", "finale", Text(1)) }

NoSeed == {Empty.variables}
AnySeed == {[Empty.variables EXCEPT !["trust"] = v] : v \in {Nothing, Number(1)}}

Interchangeable == Permutations(Server)

=============================================================================
