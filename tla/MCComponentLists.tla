-------------------------- MODULE MCComponentLists --------------------------
(***************************************************************************)
(* Small instances of ComponentLists: one list whose components refer to   *)
(* each other, as entities do to their parents.  It is the hardest case:   *)
(* every deletion can cause others under the mutex it took itself.         *)
(***************************************************************************)
EXTENDS ComponentLists

(* One list of entities, whose parent is an entity. *)
EntityLists == {"entities"}
EntityFields == {"parent"}
EntityOwner == [f \in EntityFields |-> "entities"]
EntityTarget == [f \in EntityFields |-> "entities"]
=============================================================================
