----------------------------- MODULE IdRegistry -----------------------------
(***************************************************************************)
(* What the component lists of a colabrodo server promise about NOODLES    *)
(* IDs, with no locks, threads, free lists or reference counts.            *)
(*                                                                         *)
(* An ID names one component for ever: it is issued once, it is live until *)
(* the component is deleted, and it never comes back.  At any moment a     *)
(* slot of a list belongs to at most one live ID, so that a client may     *)
(* index an array of a list's components by slot alone.                    *)
(***************************************************************************)
EXTENDS Naturals

CONSTANTS
  ID          (* every ID: records with at least the fields list and slot *)

VARIABLES
  live,       (* IDs of the components that exist                         *)
  issued      (* every ID ever handed out                                 *)

vars == <<live, issued>>

SameSlot(a, b) == a.list = b.list /\ a.slot = b.slot

Init ==
  /\ live = {}
  /\ issued = {}

(* A component appears under an ID nobody has seen, in a slot nobody holds. *)
Issue(id) ==
  /\ id \notin issued
  /\ \A other \in live : ~ SameSlot(id, other)
  /\ live' = live \cup {id}
  /\ issued' = issued \cup {id}

(* A component disappears; its ID stays issued. *)
Retire(id) ==
  /\ id \in live
  /\ live' = live \ {id}
  /\ UNCHANGED issued

Next ==
  \/ \E id \in ID : Issue(id)
  \/ \E id \in live : Retire(id)

Spec == Init /\ [][Next]_vars
=============================================================================
