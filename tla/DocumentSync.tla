---------------------------- MODULE DocumentSync ----------------------------
(***************************************************************************)
(* How a client gets its copy of the document: the dump of the server state*)
(* it is sent for its introduction, and the broadcast stream it follows.   *)
(*                                                                         *)
(* The two take different ways.  The client is subscribed to the broadcast *)
(* channel when its connection is accepted; a task moves broadcasts to its *)
(* out queue.  The dump is written later, by the server's loop, list by    *)
(* list under the mutex of the ServerState (components are created under it*)
(* too, but patched and deleted without it), and goes through a queue and  *)
(* a forwarding task of its own before it reaches the out queue.           *)
(*                                                                         *)
(* The out queue, the socket and the queue of the client's worker are one  *)
(* queue here, `out`; what the worker makes of the messages is `mirror`.   *)
(***************************************************************************)
EXTENDS Naturals, Sequences, SequencesExt

CONSTANTS
  Clients,
  DumpOrder,    (* the lists, in the order they are dumped                 *)
  Counted,      (* the lists all_element_count() adds up                   *)
  Targets,      (* Targets[l]: the lists that components of l refer to     *)
  BcastCap,     (* capacity of the broadcast channel: 256 in the code      *)
  NoRef,        (* an empty reference                                      *)
  NoPatch,      (* no patch is between its broadcast and its application   *)
  NoDump,       (* no dump is being written                                *)
  MaxCreated,   (* BOUND: components created                               *)
  MaxPatches    (* BOUND: patches                                          *)

Lists == ToSet(DumpOrder)

ID == [list : Lists, n : 1 .. MaxCreated]

ASSUME SyncAssumption ==
  /\ DumpOrder \in Seq(Lists)
  /\ Counted \subseteq Lists
  /\ Targets \in [Lists -> SUBSET Lists]
  /\ {BcastCap, MaxCreated, MaxPatches} \subseteq Nat
  /\ BcastCap > 0
  /\ NoRef \notin ID
  /\ NoPatch \notin [id : ID, value : ID]

Element ==
  [kind : {"create", "update"}, id : ID, value : ID \cup {NoRef}]
    \cup [kind : {"delete"}, id : ID]
    \cup [kind : {"document", "initialized"}]

VARIABLES
  order,      (* order[l]: the IDs of list l, in the order of its IndexMap *)
  content,    (* content[id]: the reference that component id holds        *)
  patching,   (* the patch that is broadcast and not yet applied           *)
  created, patches,
  dump,       (* the dump the server's loop is writing                     *)
  phase,      (* phase[c]: how far the connection of c has come            *)
  sub,        (* sub[c]: broadcasts that c's task has not taken yet        *)
  lagged,     (* lagged[c]: c's subscription has lost a broadcast          *)
  raw,        (* raw[c]: dumps on their way through the forwarding task    *)
  out,        (* out[c]: messages on their way to the worker of c          *)
  mirror,     (* mirror[c]: the components c has, with their references    *)
  status,     (* status[c]: whether the worker of c still runs             *)
  steady      (* history: nothing was patched or deleted while c connected *)

docVars == <<order, content, patching, created, patches>>
vars == <<docVars, dump, phase, sub, lagged, raw, out, mirror, status,
          steady>>

-----------------------------------------------------------------------------
EmptyMap == [id \in {} |-> NoRef]
Put(m, id, v) == [i \in DOMAIN m \cup {id} |-> IF i = id THEN v ELSE m[i]]
Without(m, id) == [i \in DOMAIN m \ {id} |-> m[i]]

(* What a message says: a header that counts its elements, and those. *)
Message(elements) == [count |-> Len(elements), elements |-> elements]

Init ==
  /\ order = [l \in Lists |-> <<>>]
  /\ content = EmptyMap
  /\ patching = NoPatch
  /\ created = 0 /\ patches = 0
  /\ dump = NoDump
  /\ phase = [c \in Clients |-> "absent"]
  /\ sub = [c \in Clients |-> <<>>]
  /\ lagged = [c \in Clients |-> FALSE]
  /\ raw = [c \in Clients |-> <<>>]
  /\ out = [c \in Clients |-> <<>>]
  /\ mirror = [c \in Clients |-> EmptyMap]
  /\ status = [c \in Clients |-> "connecting"]
  /\ steady = [c \in Clients |-> FALSE]

-----------------------------------------------------------------------------
(* The application changes the document *)

(* Mutant of Subscribed: clients subscribe once their dump is delivered. *)
SubscribedOnceSynced(c) == phase[c] = "synced"

(* Clients have a broadcast receiver from the moment they are accepted. *)
Subscribed(c) == phase[c] # "absent"

(* An element goes to every subscriber.  One whose backlog is full loses   *)
(* its oldest broadcast; its task logs that and goes on.                   *)
Broadcast(e) ==
  /\ sub' = [c \in Clients |->
       IF ~ Subscribed(c) THEN sub[c]
       ELSE IF Len(sub[c]) < BcastCap THEN Append(sub[c], Message(<<e>>))
       ELSE Append(Tail(sub[c]), Message(<<e>>))]
  /\ lagged' = [c \in Clients |->
       lagged[c] \/ (Subscribed(c) /\ Len(sub[c]) = BcastCap)]
  /\ steady' = [c \in Clients |->
       steady[c] /\ (phase[c] = "synced" \/ e.kind = "create")]

(* new_component(), under the mutex of the ServerState. *)
Create(l, v) ==
  /\ created < MaxCreated
  /\ dump = NoDump
  /\ v \in {id \in DOMAIN content : id.list \in Targets[l]} \cup {NoRef}
  /\ LET id == [list |-> l, n |-> created + 1] IN
       /\ order' = [order EXCEPT ![l] = Append(@, id)]
       /\ content' = Put(content, id, v)
       /\ Broadcast([kind |-> "create", id |-> id, value |-> v])
  /\ created' = created + 1
  /\ UNCHANGED <<patching, patches, dump, phase, raw, out, mirror, status>>

(* patch(): the update is broadcast, ...  (No component is made its own    *)
(* parent.)                                                                *)
PatchSend(id, v) ==
  /\ patches < MaxPatches
  /\ patching = NoPatch
  /\ v # id /\ v.list \in Targets[id.list]
  /\ Broadcast([kind |-> "update", id |-> id, value |-> v])
  /\ patching' = [id |-> id, value |-> v]
  /\ patches' = patches + 1
  /\ UNCHANGED <<order, content, created, dump, phase, raw, out, mirror,
                 status>>

(* ... and then applied. *)
PatchApply ==
  /\ patching # NoPatch
  /\ content' = [content EXCEPT ![patching.id] = patching.value]
  /\ patching' = NoPatch
  /\ UNCHANGED <<order, created, patches, dump, phase, sub, lagged, raw, out,
                 mirror, status, steady>>

(* Mutant of Delete: references in other components are not counted. *)
DeleteReferenced(id) ==
  /\ patching # NoPatch => id \notin {patching.id, patching.value}
  /\ order' = [order EXCEPT ![id.list] = RemoveFirst(@, id)]
  /\ content' = Without(content, id)
  /\ Broadcast([kind |-> "delete", id |-> id])
  /\ UNCHANGED <<patching, created, patches, dump, phase, raw, out, mirror,
                 status>>

(* The last handle of a component that no other refers to goes out of scope*)
(* (a thread in patch() holds the component and the new reference).        *)
Delete(id) ==
  /\ \A other \in DOMAIN content : content[other] # id
  /\ patching # NoPatch => id \notin {patching.id, patching.value}
  /\ order' = [order EXCEPT ![id.list] = RemoveFirst(@, id)]
  /\ content' = Without(content, id)
  /\ Broadcast([kind |-> "delete", id |-> id])
  /\ UNCHANGED <<patching, created, patches, dump, phase, raw, out, mirror,
                 status>>

-----------------------------------------------------------------------------
(* Connecting *)

(* client_connect_task accepts and subscribes; client_handler registers the*)
(* client, whose introduction is already on its way.                       *)
Accept(c) ==
  /\ phase[c] = "absent"
  /\ phase' = [phase EXCEPT ![c] = "accepted"]
  /\ status' = [status EXCEPT ![c] = "running"]
  /\ steady' = [steady EXCEPT ![c] = patching = NoPatch]
  /\ UNCHANGED <<docVars, dump, sub, lagged, raw, out, mirror>>

(* Mutant of ElementCount: the document is counted as a component. *)
ElementCountWithDocument ==
  FoldLeft(LAMBDA sum, l : IF l \in Counted THEN sum + Len(order[l]) ELSE sum,
           1, DumpOrder)

(* all_element_count() *)
ElementCount ==
  FoldLeft(LAMBDA sum, l : IF l \in Counted THEN sum + Len(order[l]) ELSE sum,
           0, DumpOrder)

(* The loop handles the introduction: it locks the ServerState and writes  *)
(* the header, which counts the components and two messages more.          *)
DumpStart(c) ==
  /\ phase[c] = "accepted"
  /\ dump = NoDump
  /\ dump' = [client |-> c, next |-> 1, count |-> ElementCount + 2,
              elements |-> <<>>]
  /\ UNCHANGED <<docVars, phase, sub, lagged, raw, out, mirror, status,
                 steady>>

Listing(l) ==
  [i \in 1 .. Len(order[l]) |->
     [kind |-> "create", id |-> order[l][i], value |-> content[order[l][i]]]]

(* dump_state_helper() of the next list, under that list's mutex. *)
DumpList ==
  /\ dump # NoDump
  /\ dump.next <= Len(DumpOrder)
  /\ dump' = [dump EXCEPT !.next = @ + 1,
                          !.elements = @ \o Listing(DumpOrder[dump.next])]
  /\ UNCHANGED <<docVars, phase, sub, lagged, raw, out, mirror, status,
                 steady>>

(* The document update and the end mark follow, the mutex is released and  *)
(* the dump goes to the client's sender.                                   *)
DumpEnd ==
  /\ dump # NoDump
  /\ dump.next > Len(DumpOrder)
  /\ raw' = [raw EXCEPT ![dump.client] = Append(@,
       [count |-> dump.count,
        elements |-> dump.elements \o <<[kind |-> "document"],
                                        [kind |-> "initialized"]>>])]
  /\ phase' = [phase EXCEPT ![dump.client] = "dumped"]
  /\ dump' = NoDump
  /\ UNCHANGED <<docVars, sub, lagged, out, mirror, status, steady>>

(* client_forwarder *)
ForwardDump(c) ==
  /\ raw[c] # <<>>
  /\ out' = [out EXCEPT ![c] = Append(@, Head(raw[c]))]
  /\ raw' = [raw EXCEPT ![c] = Tail(@)]
  /\ phase' = [phase EXCEPT ![c] = "synced"]
  /\ UNCHANGED <<docVars, dump, sub, lagged, mirror, status, steady>>

(* The task that takes broadcasts to the out queue. *)
ForwardBroadcast(c) ==
  /\ sub[c] # <<>>
  /\ out' = [out EXCEPT ![c] = Append(@, Head(sub[c]))]
  /\ sub' = [sub EXCEPT ![c] = Tail(@)]
  /\ UNCHANGED <<docVars, dump, phase, lagged, raw, mirror, status, steady>>

-----------------------------------------------------------------------------
(* The client's worker *)

(* The effect of one element: on_create() replaces, an update of a         *)
(* component the client does not have is passed over.                      *)
Apply(m, e) ==
  CASE e.kind = "create" -> Put(m, e.id, e.value)
    [] e.kind = "update" /\ e.id \in DOMAIN m -> Put(m, e.id, e.value)
    [] e.kind = "delete" -> Without(m, e.id)
    [] OTHER -> m

ApplyAll(m, elements) == FoldLeft(Apply, m, elements)

(* The elements the visitor takes from a message: as many as its header    *)
(* says, and no more than there are.                                       *)
Taken(msg) ==
  IF msg.count < Len(msg.elements)
  THEN SubSeq(msg.elements, 1, msg.count)
  ELSE msg.elements

(* on_delete() unwraps the component it removes. *)
DeletesUnknown(m, elements) ==
  \E i \in 1 .. Len(elements) :
    /\ elements[i].kind = "delete"
    /\ elements[i].id \notin DOMAIN ApplyAll(m, SubSeq(elements, 1, i - 1))

(* handle_next(): the message is decoded (a header that promises more than *)
(* there is is an error, and unwrapped), then its elements are handled.    *)
Receive(c) ==
  /\ status[c] \in {"running", "ready"}
  /\ out[c] # <<>>
  /\ LET msg == Head(out[c])
         elements == Taken(msg)
     IN
       IF msg.count > Len(msg.elements) \/ DeletesUnknown(mirror[c], elements)
       THEN /\ status' = [status EXCEPT ![c] = "panicked"]
            /\ UNCHANGED mirror
       ELSE /\ mirror' = [mirror EXCEPT ![c] = ApplyAll(@, elements)]
            /\ status' = IF \E i \in 1 .. Len(elements) :
                              elements[i].kind = "initialized"
                         THEN [status EXCEPT ![c] = "ready"] ELSE status
  /\ out' = [out EXCEPT ![c] = Tail(@)]
  /\ UNCHANGED <<docVars, dump, phase, sub, lagged, raw, steady>>

-----------------------------------------------------------------------------
Application ==
  \/ \E l \in Lists : \E v \in DOMAIN content \cup {NoRef} : Create(l, v)
  \/ \E id, v \in DOMAIN content : PatchSend(id, v)
  \/ PatchApply
  \/ \E id \in DOMAIN content : Delete(id)

Connection(c) ==
  \/ DumpStart(c)
  \/ ForwardDump(c)
  \/ ForwardBroadcast(c)
  \/ Receive(c)

Next ==
  \/ Application
  \/ \E c \in Clients : Accept(c) \/ Connection(c)
  \/ DumpList
  \/ DumpEnd

Spec == Init /\ [][Next]_vars

(* The server's loop and the tasks of a connection are scheduled whenever  *)
(* they can run; clients come and the application acts as they please.     *)
FairSpec ==
  /\ Spec
  /\ WF_vars(DumpList) /\ WF_vars(DumpEnd)
  /\ \A c \in Clients :
       /\ WF_vars(DumpStart(c)) /\ WF_vars(ForwardDump(c))
       /\ WF_vars(ForwardBroadcast(c)) /\ WF_vars(Receive(c))

-----------------------------------------------------------------------------
(* Properties *)

Messages == [count : Nat, elements : Seq(Element)]

(* The variables have the types of the channels and maps they stand for. *)
TypeOK ==
  /\ order \in [Lists -> Seq(ID)]
  /\ DOMAIN content \subseteq ID
  /\ \A id \in DOMAIN content : content[id] \in ID \cup {NoRef}
  /\ \A l \in Lists : ToSet(order[l]) = {id \in DOMAIN content : id.list = l}
  /\ patching # NoPatch => {patching.id, patching.value} \subseteq DOMAIN content
  /\ dump # NoDump => dump.client \in Clients /\ dump.elements \in Seq(Element)
  /\ phase \in [Clients -> {"absent", "accepted", "dumped", "synced"}]
  /\ status \in [Clients -> {"connecting", "running", "ready", "panicked"}]
  /\ \A c \in Clients :
       /\ sub[c] \in Seq(Messages) /\ Len(sub[c]) <= BcastCap
       /\ raw[c] \in Seq(Messages) /\ Len(raw[c]) <= 1
       /\ out[c] \in Seq(Messages)
       /\ DOMAIN mirror[c] \subseteq ID

(* The document with the patch that is under way. *)
Announced ==
  IF patching = NoPatch THEN content
  ELSE [content EXCEPT ![patching.id] = patching.value]

(* What the messages q make of a client's components m, one after another. *)
Following(m, q) == FoldLeft(LAMBDA n, msg : ApplyAll(n, Taken(msg)), m, q)

Streaming(c) ==
  /\ phase[c] = "synced"
  /\ status[c] # "panicked"
  /\ ~ lagged[c]

(* If nothing was patched or deleted while a client connected, what it has *)
(* and what is on its way to it make up the document exactly, from then on *)
(* and whatever the application does, although the dump and the creations  *)
(* that raced it overtake each other.                                      *)
SteadyClientsConverge ==
  \A c \in Clients :
    steady[c] /\ Streaming(c) =>
      Following(mirror[c], out[c] \o sub[c]) = Announced

(* Such a client is never brought down by a message. *)
SteadyClientsSurvive ==
  \A c \in Clients : steady[c] /\ ~ lagged[c] => status[c] # "panicked"

(* A ready client that connected steadily never has a reference to a       *)
(* component it does not have.                                             *)
SteadyMirrorsResolve ==
  \A c \in Clients : steady[c] /\ status[c] = "ready" /\ ~ lagged[c] =>
    \A id \in DOMAIN mirror[c] :
      mirror[c][id] # NoRef => mirror[c][id] \in DOMAIN mirror[c]

(* Some component has been deleted. *)
HasDeleted == \E n \in 1 .. created : \A id \in DOMAIN content : id.n # n

(* Every client that connects is told that its document is complete.  Its  *)
(* worker panics before that only if something was deleted, and this while *)
(* the client connected or it has lost a broadcast: the dump's header then *)
(* promises a component that is not dumped, or a deletion comes to a client*)
(* that does not have the component.  Patches alone bring no client down.  *)
EventuallyReady ==
  \A c \in Clients :
    phase[c] = "accepted" ~>
      \/ status[c] = "ready"
      \/ status[c] = "panicked" /\ HasDeleted /\ (~ steady[c] \/ lagged[c])

(* "the count is the number of all components, plus two messages": the     *)
(* header of a dump counts what the dump holds.                            *)
HeaderCounts ==
  \A c \in Clients : \A i \in 1 .. Len(raw[c]) :
    raw[c][i].count = Len(raw[c][i].elements)
=============================================================================
