--------------------------- MODULE MCDocumentSync ---------------------------
(***************************************************************************)
(* Small instances of DocumentSync.  Of the thirteen lists a server dumps, *)
(* an instance has the two or three its run is about, in their order.      *)
(***************************************************************************)
EXTENDS DocumentSync

(* Geometries, and entities that refer to them and to each other. *)
SceneOrder == <<"geometries", "entities">>
SceneCounted == {"geometries", "entities"}
SceneTargets ==
  [l \in {"geometries", "entities"} |->
     IF l = "entities" THEN {"geometries", "entities"} ELSE {}]

(* Lights, which all_element_count() does not count, and entities that     *)
(* refer to them.                                                          *)
LitOrder == <<"lights", "entities">>
LitCounted == {"entities"}
LitTargets ==
  [l \in {"lights", "entities"} |-> IF l = "entities" THEN {"lights"} ELSE {}]
=============================================================================
