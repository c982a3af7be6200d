---------------------------- MODULE MergeSystem ----------------------------
(* noo_merge: one server that shows the documents of several others.  A    *)
(* client session runs for each upstream server, and its delegates         *)
(* (lib/replay.rs) create, patch and drop components of the merged server. *)
(*                                                                         *)
(* Of the thirteen kinds of components two are told apart: methods, which  *)
(* refer to nothing and which the document lists, and entities, with their *)
(* parent for the references a component may hold.  A session is told what *)
(* is broadcast from the moment it is subscribed, and the dump of the      *)
(* document comes when the upstream has heard its introduction: among the  *)
(* broadcasts the session has not read, not before them.  A session is     *)
(* calm if nothing changed upstream in between.                            *)
(*                                                                         *)
(* The merged component made for one of upstream u is <<u, its ID there>>. *)
(* A session that is not calm may be told twice of a component; the second *)
(* merged component then stands for both, although the first lives on while*)
(* others refer to it.                                                     *)
EXTENDS Integers, SequencesExt, FiniteSetsExt

CONSTANTS
  Upstreams,
  MaxEntities,    (* bound: entities an upstream creates *)
  MaxMethods,     (* bound: methods an upstream creates *)
  MaxChanges,     (* bound: changes upstream, all upstreams together *)
  InFlight,       (* bound: messages to a session, after those of the dump *)
  ParentsFirst    (* TRUE: a parent is older than its children *)

ASSUME MergeConstants ==
  /\ {MaxEntities, MaxMethods, MaxChanges, InFlight} \subseteq Nat
  /\ ParentsFirst \in BOOLEAN

VARIABLES
  (* the upstream servers *)
  doc,        (* their components, with the parent of each *)
  listed,     (* the methods their documents list *)
  issued,     (* IDs issued *)
  changes,    (* changes so far *)
  conn,       (* "idle", "subscribed", "dumped", "open", "over" *)
  calm,       (* history: no change between subscription and dump *)
  wire,       (* messages under way *)
  dump,       (* a dump that is taken, and not in the client's queue yet *)
  (* the sessions *)
  worker,     (* "none", "on", "ended", "panicked" *)
  delegates,  (* IDs of the delegates in the lists *)
  docHeld,    (* methods_list of the ReplayDocDelegate *)
  (* the merged server *)
  merged,     (* its components, with the parent of each *)
  comm,       (* the methods its document lists *)
  poisoned    (* a thread has panicked with the ServerState's mutex held *)

documentVars == <<doc, listed, issued, changes>>
upstreamVars == <<documentVars, conn, calm, dump>>
sessionVars == <<worker, delegates, docHeld>>
mergedVars == <<merged, comm, poisoned>>
vars == <<upstreamVars, wire, sessionVars, mergedVars>>

Entities == 1 .. MaxEntities
Methods == {-i : i \in 1 .. MaxMethods}
IDs == Entities \cup Methods
NoParent == 0
Parents == Entities \cup {NoParent}

Messages ==
  [kind : {"create", "patch"}, id : IDs, parent : Parents]
  \cup [kind : {"delete"}, id : IDs]
  \cup [kind : {"document"}, methods : SUBSET Methods]
  \cup [kind : {"signal", "reset", "closed"}]

Empty == [x \in {} |-> x]
Put(f, x, v) == [y \in DOMAIN f \cup {x} |-> IF y = x THEN v ELSE f[y]]
Without(f, x) == [y \in DOMAIN f \ {x} |-> f[y]]

Init ==
  /\ doc = [u \in Upstreams |-> Empty]
  /\ listed = [u \in Upstreams |-> {}]
  /\ issued = [u \in Upstreams |-> {}]
  /\ changes = 0
  /\ conn = [u \in Upstreams |-> "idle"]
  /\ calm = [u \in Upstreams |-> TRUE]
  /\ wire = [u \in Upstreams |-> <<>>]
  /\ dump = [u \in Upstreams |-> <<>>]
  /\ worker = [u \in Upstreams |-> "none"]
  /\ delegates = [u \in Upstreams |-> {}]
  /\ docHeld = [u \in Upstreams |-> {}]
  /\ merged = Empty /\ comm = {} /\ poisoned = FALSE

-----------------------------------------------------------------------------
(* The upstream servers *)

(* Broadcasts reach the session; at first its dump is still to come. *)
Connecting(u) == conn[u] \in {"subscribed", "dumped"}
Subscribed(u) == Connecting(u) \/ conn[u] = "open"

Tell(u, m) ==
  /\ changes < MaxChanges
  /\ changes' = changes + 1
  /\ calm' = IF Connecting(u) THEN [calm EXCEPT ![u] = FALSE] ELSE calm
  /\ UNCHANGED dump
  /\ IF Subscribed(u)
     THEN /\ Len(wire[u]) < InFlight
          /\ wire' = [wire EXCEPT ![u] = Append(@, m)]
     ELSE UNCHANGED wire

(* A component is created, after those issued before it. *)
UpCreate(u, id, parent) ==
  /\ id \notin issued[u]
  /\ (id + 1 .. -1) \cup (1 .. id - 1) \subseteq issued[u]
  /\ parent \in DOMAIN doc[u] \cup {NoParent}
  /\ id \in Methods => parent = NoParent
  /\ Tell(u, [kind |-> "create", id |-> id, parent |-> parent])
  /\ issued' = [issued EXCEPT ![u] = @ \cup {id}]
  /\ doc' = [doc EXCEPT ![u] = Put(@, id, parent)]
  /\ UNCHANGED <<listed, conn>>

(* An entity gets another parent; it is nobody's parent itself. *)
UpPatch(u, id, parent) ==
  /\ {id, parent} \subseteq DOMAIN doc[u] \cap Entities
  /\ id # parent /\ \A e \in DOMAIN doc[u] : doc[u][e] # id
  /\ ParentsFirst => parent < id
  /\ Tell(u, [kind |-> "patch", id |-> id, parent |-> parent])
  /\ doc' = [doc EXCEPT ![u][id] = parent]
  /\ UNCHANGED <<listed, issued, conn>>

(* The last reference to a component goes: neither an entity nor the       *)
(* document refers to it.                                                  *)
UpDelete(u, id) ==
  /\ id \in DOMAIN doc[u] \ listed[u]
  /\ \A e \in DOMAIN doc[u] : doc[u][e] # id
  /\ Tell(u, [kind |-> "delete", id |-> id])
  /\ doc' = [doc EXCEPT ![u] = Without(@, id)]
  /\ UNCHANGED <<listed, issued, conn>>

UpDocument(u, methods) ==
  /\ methods \subseteq DOMAIN doc[u] \cap Methods
  /\ Tell(u, [kind |-> "document", methods |-> methods])
  /\ listed' = [listed EXCEPT ![u] = methods]
  /\ UNCHANGED <<doc, issued, conn>>

(* A signal of the document; those of other components are alike. *)
UpSignal(u) ==
  /\ Subscribed(u)
  /\ Tell(u, [kind |-> "signal"])
  /\ UNCHANGED <<doc, listed, issued, conn>>

UpReset(u) ==
  /\ Subscribed(u)
  /\ Tell(u, [kind |-> "reset"])
  /\ doc' = [doc EXCEPT ![u] = Empty]
  /\ listed' = [listed EXCEPT ![u] = {}]
  /\ UNCHANGED <<issued, conn>>

(* The connection is lost: the session is told by IncomingMessage::Closed. *)
Lose(u) ==
  /\ Subscribed(u)
  /\ conn' = [conn EXCEPT ![u] = "over"]
  /\ \E k \in 0 .. Len(wire[u]) :
       wire' = [wire EXCEPT ![u] =
                  Append(SubSeq(@, 1, k), [kind |-> "closed"])]
  /\ UNCHANGED <<documentVars, calm, dump>>

Upstream(u) ==
  /\ \/ \E id \in IDs, p \in Parents : UpCreate(u, id, p) \/ UpPatch(u, id, p)
     \/ \E id \in IDs : UpDelete(u, id)
     \/ \E ms \in SUBSET Methods : UpDocument(u, ms)
     \/ UpSignal(u) \/ UpReset(u) \/ Lose(u)
  /\ UNCHANGED <<sessionVars, mergedVars>>

(* The IDs, list by list, each list in the order of creation. *)
DumpOrder ==
  [i \in 1 .. MaxMethods + MaxEntities |->
     IF i <= MaxMethods THEN -i ELSE i - MaxMethods]

(* What is written of the components ids. *)
Listing(u, ids) ==
  FoldLeft(LAMBDA written, id :
             IF id \in DOMAIN doc[u]
             THEN Append(written,
                    [kind |-> "create", id |-> id, parent |-> doc[u][id]])
             ELSE written,
           <<>>, ids)

(* Mutant of Dump: the youngest come first. *)
DumpYoungestFirst(u) ==
  Append(Listing(u, Reverse(DumpOrder)),
         [kind |-> "document", methods |-> listed[u]])

(* The dump: each list in the order of creation, then the document. *)
Dump(u) ==
  Append(Listing(u, DumpOrder), [kind |-> "document", methods |-> listed[u]])

(* make_client(): the session connects and its worker starts.  The upstream*)
(* subscribes it to the broadcasts when it accepts the connection.         *)
MakeClient(u) ==
  /\ conn[u] = "idle"
  /\ conn' = [conn EXCEPT ![u] = "subscribed"]
  /\ worker' = [worker EXCEPT ![u] = "on"]
  /\ UNCHANGED <<documentVars, calm, wire, dump, delegates, docHeld,
                 mergedVars>>

(* The upstream handles the introduction: it writes its state, locked ...  *)
TakeDump(u) ==
  /\ conn[u] = "subscribed"
  /\ conn' = [conn EXCEPT ![u] = "dumped"]
  /\ dump' = [dump EXCEPT ![u] = Dump(u)]
  /\ UNCHANGED <<documentVars, calm, wire, sessionVars, mergedVars>>

(* ... and queues it for the client.  The broadcasts a task of the client's*)
(* handler had queued by then come before it, the others after it.         *)
SendDump(u) ==
  /\ conn[u] = "dumped"
  /\ conn' = [conn EXCEPT ![u] = "open"]
  /\ dump' = [dump EXCEPT ![u] = <<>>]
  /\ \E k \in 0 .. Len(wire[u]) :
       wire' = [wire EXCEPT ![u] =
                  SubSeq(@, 1, k) \o dump[u] \o SubSeq(@, k + 1, Len(@))]
  /\ UNCHANGED <<documentVars, calm, sessionVars, mergedVars>>

-----------------------------------------------------------------------------
(* Components of the merged server *)

Made(u, ids) == {<<u, id>> : id \in ids}

(* The components that ds, the delegates, hs, the document delegates, and  *)
(* cs, the document, refer to, and those that components in m so held      *)
(* refer to.                                                               *)
HeldBy(m, ds, hs, cs) ==
  LET roots == cs \cup UNION {Made(u, ds[u] \cup hs[u]) : u \in Upstreams}
      Held[k \in 0 .. MaxEntities] ==
        IF k = 0 THEN roots
        ELSE Held[k - 1] \cup {<<c[1], m[c]>> :
               c \in {d \in Held[k - 1] \cap DOMAIN m : m[d] # NoParent}}
  IN  Held[MaxEntities]

(* The merged components become those of m that somebody still holds: the  *)
(* last reference to go deletes a component (ComponentLists).              *)
Keep(m) ==
  merged' = LET held == HeldBy(m, delegates', docHeld', comm')
            IN  [c \in DOMAIN m \cap held |-> m[c]]

(* Mutant of DropAll: the old document delegate is kept. *)
DropDelegates(u) ==
  /\ delegates' = [delegates EXCEPT ![u] = {}]
  /\ UNCHANGED <<docHeld, comm>>
  /\ Keep(merged)

(* ClientState::clear(), and the drop of a ClientState by a thread that    *)
(* unwinds: the references the session's delegates hold go, those the      *)
(* merged document holds stay.                                             *)
DropAll(u) ==
  /\ delegates' = [delegates EXCEPT ![u] = {}]
  /\ docHeld' = [docHeld EXCEPT ![u] = {}]
  /\ UNCHANGED comm
  /\ Keep(merged)

Panic(u) ==
  /\ worker' = [worker EXCEPT ![u] = "panicked"]
  /\ DropAll(u)

-----------------------------------------------------------------------------
(* The sessions: what a worker does with a message *)

Resolves(u, parent) == parent \in delegates[u] \cup {NoParent}

(* What a maker does: it locks the ServerState and creates the component,  *)
(* which its delegate then owns.                                           *)
MakeMerged(u, m) ==
  /\ delegates' = [delegates EXCEPT ![u] = @ \cup {m.id}]
  /\ UNCHANGED <<worker, docHeld, comm, poisoned>>
  /\ Keep(Put(merged, <<u, m.id>>, m.parent))

(* A reference to nothing is unwrapped.  The makers of buffer views and    *)
(* textures convert their references before they lock; those of materials, *)
(* geometries, plots and entities after, and poison the mutex.             *)
FailToMake(u) ==
  /\ Panic(u)
  /\ poisoned' \in {poisoned, TRUE}

HandleCreate(u, m) ==
  /\ m.kind = "create"
  /\ IF ~ poisoned /\ Resolves(u, m.parent)
     THEN MakeMerged(u, m) ELSE FailToMake(u)

(* The references of an update are converted first, with no lock held and  *)
(* the delegate out of its list, and then the merged component is patched. *)
PatchMerged(u, m) ==
  IF Resolves(u, m.parent) /\ m.parent # m.id
  THEN /\ UNCHANGED <<sessionVars, comm>>
       /\ Keep([merged EXCEPT ![<<u, m.id>>] = m.parent])
  ELSE Panic(u)

(* on_update() of a delegate that is listed. *)
HandlePatch(u, m) ==
  /\ m.kind = "patch"
  /\ UNCHANGED poisoned
  /\ IF m.id \in delegates[u]
     THEN PatchMerged(u, m) ELSE UNCHANGED <<sessionVars, merged, comm>>

HandleDelete(u, m) ==
  /\ m.kind = "delete"
  /\ UNCHANGED poisoned
  /\ IF m.id \in delegates[u]
     THEN /\ delegates' = [delegates EXCEPT ![u] = @ \ {m.id}]
          /\ UNCHANGED <<worker, docHeld, comm>>
          /\ Keep(merged)
     ELSE Panic(u)

(* on_document_update(): methods without a delegate are left out, and what *)
(* the merged document listed, for whichever upstream, is replaced.        *)
HandleDocument(u, m) ==
  /\ m.kind = "document"
  /\ UNCHANGED poisoned
  /\ IF poisoned
     THEN Panic(u)
     ELSE LET ms == m.methods \cap delegates[u] IN
          /\ comm' = Made(u, ms)
          /\ docHeld' = [docHeld EXCEPT ![u] = ms]
          /\ UNCHANGED <<worker, delegates>>
          /\ Keep(merged)

(* Mutant of HandleReset: the old document delegate is kept. *)
HandleResetKeeping(u, m) ==
  /\ m.kind = "reset"
  /\ DropDelegates(u)
  /\ UNCHANGED <<worker, poisoned>>

(* on_signal() of every delegate is todo!(). *)
HandleSignal(u, m) ==
  /\ m.kind = "signal"
  /\ Panic(u)
  /\ UNCHANGED poisoned

HandleReset(u, m) ==
  /\ m.kind = "reset"
  /\ DropAll(u)
  /\ UNCHANGED <<worker, poisoned>>

HandleClosed(u, m) ==
  /\ m.kind = "closed"
  /\ worker' = [worker EXCEPT ![u] = "ended"]
  /\ DropAll(u)
  /\ UNCHANGED poisoned

Worker(u) ==
  /\ worker[u] = "on"
  /\ wire[u] # <<>>
  /\ wire' = [wire EXCEPT ![u] = Tail(@)]
  /\ LET m == Head(wire[u]) IN
       \/ HandleCreate(u, m) \/ HandlePatch(u, m) \/ HandleDelete(u, m)
       \/ HandleDocument(u, m) \/ HandleSignal(u, m)
       \/ HandleReset(u, m) \/ HandleClosed(u, m)
  /\ UNCHANGED upstreamVars

Join(u) == MakeClient(u) \/ TakeDump(u) \/ SendDump(u)

Next == \E u \in Upstreams : Upstream(u) \/ Join(u) \/ Worker(u)

(* The workers' threads are scheduled; of the upstreams nothing is assumed. *)
Spec == Init /\ [][Next]_vars
FairSpec == Spec /\ \A u \in Upstreams : WF_vars(Worker(u))

-----------------------------------------------------------------------------
TypeOK ==
  /\ \A u \in Upstreams :
       /\ DOMAIN doc[u] \subseteq issued[u] /\ Range(doc[u]) \subseteq Parents
       /\ listed[u] \subseteq DOMAIN doc[u] \cap Methods
       /\ \A i \in 1 .. Len(wire[u]) : wire[u][i] \in Messages
       /\ \A i \in 1 .. Len(dump[u]) : dump[u][i] \in Messages
       /\ docHeld[u] \subseteq Methods
       /\ Made(u, delegates[u]) \subseteq DOMAIN merged
  /\ issued \in [Upstreams -> SUBSET IDs]
  /\ changes \in 0 .. MaxChanges
  /\ conn \in [Upstreams -> {"idle", "subscribed", "dumped", "open", "over"}]
  /\ calm \in [Upstreams -> BOOLEAN]
  /\ worker \in [Upstreams -> {"none", "on", "ended", "panicked"}]
  /\ DOMAIN merged \subseteq Upstreams \X IDs /\ Range(merged) \subseteq Parents
  /\ comm \subseteq DOMAIN merged
  /\ poisoned \in BOOLEAN

(* What the merged server shows of upstream u. *)
Shown(u) == {c \in DOMAIN merged : c[1] = u}

(* A session that has handled all it was sent shows the components of its  *)
(* upstream, with their parents, and no others but methods that are still  *)
(* in the merged document's list, if nothing changed upstream while it     *)
(* connected, whatever the other sessions do.                              *)
MirrorsConverge ==
  \A u \in Upstreams :
    calm[u] /\ conn[u] = "open" /\ worker[u] = "on" /\ wire[u] = <<>> =>
      /\ Shown(u) = Made(u, DOMAIN doc[u]) \cup (comm \cap Shown(u))
      /\ \A id \in DOMAIN doc[u] : merged[<<u, id>>] = doc[u][id]

(* No upstream changed while a session connected. *)
AllCalm == \A u \in Upstreams : calm[u]

(* No upstream brings the merged server down, by a session that panics with*)
(* the ServerState's mutex, as long as none changes while a session        *)
(* connects: a creation that is broadcast then overtakes the dump, which   *)
(* has the parent it refers to.                                            *)
MergedSurvives == AllCalm => ~ poisoned

(* When an upstream has gone, its components leave the merged server for   *)
(* good, but for methods the merged document still lists.                  *)
DepartedAreForgotten ==
  \A u \in Upstreams : <>[](conn[u] = "over" => Shown(u) \subseteq comm)
=============================================================================
