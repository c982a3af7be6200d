--------------------------- MODULE ComponentLists ---------------------------
(***************************************************************************)
(* The component lists of a server (ServerComponentList, ComponentCell and *)
(* ComponentReference): how IDs are provisioned and recycled, how reference*)
(* counting decides when a component dies, and what each step broadcasts.  *)
(*                                                                         *)
(* A component is an entry of its list's IndexMap, kept alive by counted   *)
(* references: the handles that threads hold, the list's own owned_list,   *)
(* and the reference fields of other components.  When the last reference  *)
(* goes, the thread that dropped it runs ComponentCell::drop: it takes the *)
(* list's mutex, broadcasts the deletion, frees the ID and moves the       *)
(* content out; after unlocking it drops the content, whose own references *)
(* may be the last of other components.                                    *)
(*                                                                         *)
(* Each action is one critical section of a list's mutex, or one reference *)
(* released between two of them.  `observed` folds the broadcast stream:   *)
(* it is the picture a receiver has that got every message in order.       *)
(***************************************************************************)
EXTENDS Naturals, Sequences, FiniteSets

CONSTANTS
  Threads,        (* threads and tasks that hold references               *)
  Lists,          (* component lists of the document                      *)
  Fields,         (* reference fields of component contents               *)
  Owner,          (* Owner[f]: the list whose components have field f     *)
  Target,         (* Target[f]: the list field f refers to                *)
  NoRef,          (* an empty reference field, or no component at all     *)
  NoPatch,        (* the thread is not inside patch()                     *)
  NoThread,       (* the mutex is free                                    *)
  GenLimit,       (* generations an ID can have: 2^32 in the code         *)
  SlotLimit,      (* slots a list can have: 2^32 in the code, and the        *)
                  (* BOUND that keeps the checked instances finite         *)
  OverflowChecks, (* TRUE: a build whose u32 addition panics on overflow; *)
                  (* FALSE: one whose addition wraps                      *)
  SerialPatches   (* TRUE: callers never patch one component concurrently *)

ID == [list : Lists, slot : 0 .. SlotLimit - 1, gen : 0 .. GenLimit - 1]

ASSUME ListsAssumption ==
  /\ Owner \in [Fields -> Lists]
  /\ Target \in [Fields -> Lists]
  /\ GenLimit \in Nat \ {0}
  /\ SlotLimit \in Nat
  /\ {OverflowChecks, SerialPatches} \subseteq BOOLEAN
  /\ NoRef \notin ID
  /\ NoThread \notin Threads

Content == [Fields -> ID \cup {NoRef}]
Patch   == [id : ID, field : Fields, value : ID]
Loose   == [holder : ID, field : Fields, ref : ID]

ASSUME PatchAssumption == NoPatch \notin Patch

VARIABLES
  content,    (* the IndexMaps: live ID -> content                        *)
  free,       (* free[l]: the free_list, its last element on top          *)
  owned,      (* the components in some owned_list                        *)
  lock,       (* lock[l]: who holds the list's mutex between two steps    *)
  handles,    (* handles[t]: the components t holds a reference to        *)
  patching,   (* patching[t]: broadcast by patch(), not yet applied       *)
  loose,      (* loose[t]: references t has moved out and not yet dropped *)
  dying,      (* dying[t]: the component whose cell t is dropping         *)
  observed,   (* the broadcast stream, folded                             *)
  issued      (* history: every ID ever provisioned                       *)

vars == <<content, free, owned, lock, handles, patching, loose, dying,
          observed, issued>>

-----------------------------------------------------------------------------
(* References and reference counts *)

Live(l) == {id \in DOMAIN content : id.list = l}

(* Something holds a counted reference to id: its strong count is positive. *)
Held(id) ==
  \/ \E t \in Threads : id \in handles[t]
  \/ id \in owned
  \/ \E h \in DOMAIN content : \E f \in Fields : content[h][f] = id
  \/ \E t \in Threads : \E r \in loose[t] : r.ref = id

(* Mutant of HeldWithout: references other threads are about to drop are   *)
(* taken for dropped already.                                              *)
HeldWithoutAnyLoose(id, t, r) ==
  \/ \E u \in Threads : id \in handles[u]
  \/ id \in owned
  \/ \E h \in DOMAIN content : \E f \in Fields : content[h][f] = id

(* id is still held when thread t has let go of the loose reference r. *)
HeldWithout(id, t, r) ==
  \/ \E u \in Threads : id \in handles[u]
  \/ id \in owned
  \/ \E h \in DOMAIN content : \E f \in Fields : content[h][f] = id
  \/ \E u \in Threads : \E s \in loose[u] : s.ref = id /\ ~ (u = t /\ s = r)

(* id is still held when thread t has dropped its handle. *)
HeldWithoutHandle(id, t) ==
  \/ \E u \in Threads \ {t} : id \in handles[u]
  \/ id \in owned
  \/ \E h \in DOMAIN content : \E f \in Fields : content[h][f] = id
  \/ \E u \in Threads : \E r \in loose[u] : r.ref = id

(* t runs application code: it is inside no call into the lists. *)
Idle(t) ==
  /\ patching[t] = NoPatch
  /\ loose[t] = {}
  /\ dying[t] = NoRef
  /\ \A l \in Lists : lock[l] # t

(* Mutant of Buildable: fields refer to any listed component, held or not. *)
BuildableFromListed(l, t) ==
  {c \in [Fields -> DOMAIN content \cup {NoRef}] :
     \A f \in Fields :
       c[f] # NoRef => Owner[f] = l /\ c[f].list = Target[f]}

(* The contents a caller can build for list l from the handles it holds. *)
Buildable(l, t) ==
  {c \in [Fields -> handles[t] \cup {NoRef}] :
     \A f \in Fields :
       c[f] # NoRef => Owner[f] = l /\ c[f].list = Target[f]}

-----------------------------------------------------------------------------
(* IDs *)

(* Mutant of NextGeneration: a slot is reused in the same generation. *)
SameGeneration(id) == id

NextGeneration(id) == [id EXCEPT !.gen = (@ + 1) % GenLimit]

(* Mutant of ProvisionID: the next unused slot is taken for len() + 1. *)
ProvisionIDFromOne(l) ==
  IF free[l] = <<>>
  THEN [list |-> l, slot |-> Cardinality(Live(l)) + 1, gen |-> 0]
  ELSE NextGeneration(free[l][Len(free[l])])

(* The ID provision_id() hands out: the next slot, or the free slot on top *)
(* of the stack in its next generation.                                    *)
ProvisionID(l) ==
  IF free[l] = <<>>
  THEN [list |-> l, slot |-> Cardinality(Live(l)), gen |-> 0]
  ELSE NextGeneration(free[l][Len(free[l])])

(* Mutant of FreeAfterProvision: the ID is read and not popped. *)
FreeAfterPeek(l) == free[l]

FreeAfterProvision(l) ==
  IF free[l] = <<>> THEN <<>> ELSE SubSeq(free[l], 1, Len(free[l]) - 1)

(* A fresh slot is inside the bound.  A recycled one does not overflow its *)
(* generation in a build that checks: the reuse that would panics with the *)
(* mutex of the list held, and so does every call on the list after it.    *)
(* The models end before that panic; without checks they go on past it.    *)
CanProvision(l) ==
  IF free[l] = <<>>
  THEN Cardinality(Live(l)) < SlotLimit
  ELSE OverflowChecks => free[l][Len(free[l])].gen + 1 < GenLimit

-----------------------------------------------------------------------------
EmptyMap == [id \in {} |-> NoRef]

Init ==
  /\ content = EmptyMap
  /\ free = [l \in Lists |-> <<>>]
  /\ owned = {}
  /\ lock = [l \in Lists |-> NoThread]
  /\ handles = [t \in Threads |-> {}]
  /\ patching = [t \in Threads |-> NoPatch]
  /\ loose = [t \in Threads |-> {}]
  /\ dying = [t \in Threads |-> NoRef]
  /\ observed = EmptyMap
  /\ issued = {}

(* The map m with entry id set to c. *)
Put(m, id, c) ==
  [i \in DOMAIN m \cup {id} |-> IF i = id THEN c ELSE m[i]]

(* The map m without entry id. *)
Without(m, id) == [i \in DOMAIN m \ {id} |-> m[i]]

(* new_component() and new_owned_component(): provision, broadcast the     *)
(* creation, insert.  The caller gets the first reference.                 *)
Create(t, l, c, own) ==
  /\ Idle(t)
  /\ lock[l] = NoThread
  /\ CanProvision(l)
  /\ c \in Buildable(l, t)
  /\ LET id == ProvisionID(l) IN
       /\ content' = Put(content, id, c)
       /\ observed' = Put(observed, id, c)
       /\ issued' = issued \cup {id}
       /\ handles' = [handles EXCEPT ![t] = @ \cup {id}]
       /\ owned' = IF own THEN owned \cup {id} ELSE owned
  /\ free' = [free EXCEPT ![l] = FreeAfterProvision(l)]
  /\ UNCHANGED <<lock, patching, loose, dying>>

(* own_component(): the caller's reference moves into owned_list. *)
OwnComponent(t, id) ==
  /\ Idle(t)
  /\ id \in handles[t]
  /\ lock[id.list] = NoThread
  /\ owned' = owned \cup {id}
  /\ handles' = [handles EXCEPT ![t] = @ \ {id}]
  /\ UNCHANGED <<content, free, lock, patching, loose, dying, observed,
                 issued>>

(* Mutant of Resolve: the weak pointer is not tried, the entry is enough. *)
ResolveListed(t, id) ==
  /\ Idle(t)
  /\ id \in DOMAIN content
  /\ lock[id.list] = NoThread
  /\ handles' = [handles EXCEPT ![t] = @ \cup {id}]
  /\ UNCHANGED <<content, free, owned, lock, patching, loose, dying,
                 observed, issued>>

(* resolve(): id_list has the ID and its weak pointer can be upgraded.     *)
(* Between the last release and return_id() the entry is there but cannot  *)
(* be upgraded, and resolve() answers None.                                *)
Resolve(t, id) ==
  /\ Idle(t)
  /\ id \in DOMAIN content
  /\ lock[id.list] = NoThread
  /\ Held(id)
  /\ handles' = [handles EXCEPT ![t] = @ \cup {id}]
  /\ UNCHANGED <<content, free, owned, lock, patching, loose, dying,
                 observed, issued>>

(* A handle goes out of scope; if it was the last reference, its thread    *)
(* starts to drop the component's cell.                                    *)
DropHandle(t, id) ==
  /\ Idle(t)
  /\ id \in handles[t]
  /\ handles' = [handles EXCEPT ![t] = @ \ {id}]
  /\ dying' = IF HeldWithoutHandle(id, t) THEN dying
              ELSE [dying EXCEPT ![t] = id]
  /\ UNCHANGED <<content, free, owned, lock, patching, loose, observed,
                 issued>>

(* patch(), first critical section: the update is broadcast.  The caller   *)
(* holds the component and the new value of the field throughout.          *)
PatchSend(t, p) ==
  /\ Idle(t)
  /\ {p.id, p.value} \subseteq handles[t]
  /\ Owner[p.field] = p.id.list /\ Target[p.field] = p.value.list
  /\ lock[p.id.list] = NoThread
  /\ SerialPatches =>
       \A u \in Threads : patching[u] # NoPatch => patching[u].id # p.id
  /\ observed' = [observed EXCEPT ![p.id][p.field] = p.value]
  /\ patching' = [patching EXCEPT ![t] = p]
  /\ UNCHANGED <<content, free, owned, lock, handles, loose, dying, issued>>

(* patch(), second critical section: mutate() assigns the field.  The old  *)
(* value is dropped by the assignment, so the mutex stays locked while it  *)
(* is: see Release and UnlockMutate.                                       *)
PatchApply(t) ==
  /\ patching[t] # NoPatch
  /\ LET p == patching[t]
         old == content[p.id][p.field]
     IN
       /\ lock[p.id.list] = NoThread
       /\ content' = [content EXCEPT ![p.id][p.field] = p.value]
       /\ IF old = NoRef
          THEN UNCHANGED <<lock, loose>>
          ELSE /\ lock' = [lock EXCEPT ![p.id.list] = t]
               /\ loose' = [loose EXCEPT ![t] =
                    @ \cup {[holder |-> p.id, field |-> p.field, ref |-> old]}]
  /\ patching' = [patching EXCEPT ![t] = NoPatch]
  /\ UNCHANGED <<free, owned, handles, dying, observed, issued>>

(* A moved-out reference is dropped.  (The order of a content's fields is  *)
(* abstracted: any of the loose references may go next.)                   *)
Release(t, r) ==
  /\ r \in loose[t]
  /\ dying[t] = NoRef
  /\ loose' = [loose EXCEPT ![t] = @ \ {r}]
  /\ dying' = IF HeldWithout(r.ref, t, r) THEN dying
              ELSE [dying EXCEPT ![t] = r.ref]
  /\ UNCHANGED <<content, free, owned, lock, handles, patching, observed,
                 issued>>

(* Mutant of ReturnID: the deletion is not broadcast. *)
ReturnIDSilently(t) ==
  /\ dying[t] # NoRef
  /\ LET id == dying[t] IN
       /\ lock[id.list] = NoThread
       /\ content' = Without(content, id)
       /\ free' = [free EXCEPT ![id.list] = Append(@, id)]
       /\ loose' = [loose EXCEPT ![t] = @ \cup
            {[holder |-> id, field |-> f, ref |-> content[id][f]] :
               f \in {g \in Fields : content[id][g] # NoRef}}]
  /\ dying' = [dying EXCEPT ![t] = NoRef]
  /\ UNCHANGED <<owned, lock, handles, patching, observed, issued>>

(* ComponentCell::drop with the mutex: return_id() broadcasts the deletion,*)
(* pushes the ID on the free list and hands the content back, which the    *)
(* thread drops after it unlocked.  The mutex is not reentrant.            *)
ReturnID(t) ==
  /\ dying[t] # NoRef
  /\ LET id == dying[t] IN
       /\ lock[id.list] = NoThread
       /\ content' = Without(content, id)
       /\ observed' = Without(observed, id)
       /\ free' = [free EXCEPT ![id.list] = Append(@, id)]
       /\ loose' = [loose EXCEPT ![t] = @ \cup
            {[holder |-> id, field |-> f, ref |-> content[id][f]] :
               f \in {g \in Fields : content[id][g] # NoRef}}]
  /\ dying' = [dying EXCEPT ![t] = NoRef]
  /\ UNCHANGED <<owned, lock, handles, patching, issued>>

(* Mutant of UnlockMutate: the guard is leaked. *)
UnlockMutateLeaked(t, l) ==
  /\ lock[l] = t
  /\ loose[t] = {}
  /\ dying[t] = NoRef
  /\ UNCHANGED vars

(* mutate() returns: the assignment has dropped everything it replaced. *)
UnlockMutate(t, l) ==
  /\ lock[l] = t
  /\ loose[t] = {}
  /\ dying[t] = NoRef
  /\ lock' = [lock EXCEPT ![l] = NoThread]
  /\ UNCHANGED <<content, free, owned, handles, patching, loose, dying,
                 observed, issued>>

-----------------------------------------------------------------------------
(* The steps a thread takes inside a call it has made. *)
Inside(t) ==
  \/ PatchApply(t)
  \/ \E r \in loose[t] : Release(t, r)
  \/ ReturnID(t)
  \/ \E l \in Lists : UnlockMutate(t, l)

(* The calls the application may make. *)
Call(t) ==
  \/ \E l \in Lists, own \in BOOLEAN :
       \E c \in Buildable(l, t) : Create(t, l, c, own)
  \/ \E id \in handles[t] : OwnComponent(t, id)
  \/ \E id \in DOMAIN content : Resolve(t, id)
  \/ \E id \in handles[t] : DropHandle(t, id)
  \/ \E id \in handles[t], v \in handles[t], f \in Fields :
       PatchSend(t, [id |-> id, field |-> f, value |-> v])

Next == \E t \in Threads : Call(t) \/ Inside(t)

Spec == Init /\ [][Next]_vars

(* A thread inside a call goes on with it.  Strong fairness, because the   *)
(* step may wait for a mutex that others take and release again and again: *)
(* a waiter is not passed over for ever.  Whether the application makes    *)
(* another call is its own affair.                                         *)
FairSpec == Spec /\ \A t \in Threads : SF_vars(Inside(t))

-----------------------------------------------------------------------------
(* Properties *)

(* The variables have the types the declarations of ServerComponentList,   *)
(* ComponentCell and ComponentReference give them.                         *)
TypeOK ==
  /\ DOMAIN content \in SUBSET ID
  /\ \A id \in DOMAIN content : content[id] \in Content
  /\ free \in [Lists -> Seq(ID)]
  /\ owned \in SUBSET ID
  /\ lock \in [Lists -> Threads \cup {NoThread}]
  /\ handles \in [Threads -> SUBSET ID]
  /\ patching \in [Threads -> Patch \cup {NoPatch}]
  /\ loose \in [Threads -> SUBSET Loose]
  /\ dying \in [Threads -> ID \cup {NoRef}]
  /\ DOMAIN observed \in SUBSET ID
  /\ \A id \in DOMAIN observed : observed[id] \in Content
  /\ issued \in SUBSET ID

LiveSlots(l) == {id.slot : id \in Live(l)}
FreeSlots(l) == {free[l][i].slot : i \in 1 .. Len(free[l])}

SlotsAccounted(l) ==
  /\ \A a, b \in Live(l) : a.slot = b.slot => a = b
  /\ \A i, j \in 1 .. Len(free[l]) :
       free[l][i].slot = free[l][j].slot => i = j
  /\ \A i \in 1 .. Len(free[l]) : free[l][i].list = l
  /\ LiveSlots(l) \cap FreeSlots(l) = {}
  /\ LiveSlots(l) \cup FreeSlots(l)
       = 0 .. Cardinality(Live(l)) + Len(free[l]) - 1

(* The slots of a list are accounted for: the live components and the free *)
(* list occupy distinct slots, and together they fill 0 .. n-1.  It is what*)
(* lets provision_id() take list.len() for the next unused slot.           *)
SlotAccounting == \A l \in Lists : SlotsAccounted(l)

(* A component somebody holds a counted reference to is in its list, even  *)
(* while other threads are dropping, patching or resolving: the unwrap()   *)
(* of inspect() in the serializer of component pointers and the get_data() *)
(* of patch() rely on it.                                                  *)
HeldIsListed == \A id \in ID : Held(id) => id \in DOMAIN content

(* A component nobody holds is being dropped by one thread: its deletion is*)
(* broadcast once, not twice and not never, whichever thread was last.     *)
DropExactlyOnce ==
  /\ \A id \in DOMAIN content :
       ~ Held(id) => \E t \in Threads : dying[t] = id
  /\ \A t \in Threads : dying[t] # NoRef =>
       /\ dying[t] \in DOMAIN content
       /\ ~ Held(dying[t])
       /\ \A u \in Threads : dying[u] = dying[t] => u = t

(* The broadcast stream never leaves a reference to a component it has not *)
(* created, or has deleted: creations come after those of the components   *)
(* they refer to, deletions before, while callers do not patch one         *)
(* component concurrently (SerialPatches).                                 *)
ObservedResolves ==
  \A id \in DOMAIN observed : \A f \in Fields :
    observed[id][f] # NoRef => observed[id][f] \in DOMAIN observed

(* A thread inside patch() holds the component it patches and the value it *)
(* assigns, and is dropping nothing.                                       *)
PatchersHold ==
  \A t \in Threads : patching[t] # NoPatch =>
    /\ {patching[t].id, patching[t].value} \subseteq handles[t]
    /\ dying[t] = NoRef
    /\ loose[t] = {}

(* The inductive invariant behind SlotAccounting, HeldIsListed and         *)
(* DropExactlyOnce: none of them is inductive without the others.          *)
IInv ==
  /\ TypeOK
  /\ IsFiniteSet(DOMAIN content)
  /\ SlotAccounting
  /\ HeldIsListed
  /\ DropExactlyOnce
  /\ PatchersHold

(* Thread t is inside a call whose next step takes the mutex of list l. *)
Needs(t, l) ==
  \/ dying[t] # NoRef /\ dying[t].list = l
  \/ patching[t] # NoPatch /\ patching[t].id.list = l

Blocked(t) == \E l \in Lists : Needs(t, l) /\ lock[l] # NoThread

RefersToItself(l) == \E f \in Fields : Owner[f] = l /\ Target[f] = l

(* Threads inside calls never wait for each other in a circle, though a    *)
(* patch holds the mutex of one list while what it replaces is dropped,    *)
(* which takes those of others: one can go on, or one waits for itself in  *)
(* a list whose components refer to each other.                            *)
NoCircularWait ==
  (\E t \in Threads : ~ Idle(t)) =>
    \/ \E t \in Threads : ~ Idle(t) /\ ~ Blocked(t)
    \/ \E t \in Threads : /\ dying[t] # NoRef /\ lock[dying[t].list] = t
                          /\ RefersToItself(dying[t].list)

(* t has broadcast, and not yet applied, that field f of id becomes v. *)
Announces(t, id, f, v) ==
  /\ patching[t] # NoPatch
  /\ patching[t].id = id /\ patching[t].field = f /\ patching[t].value = v

(* Receivers of the whole stream agree with the server on every component  *)
(* and every field, except for the update a patch() has broadcast and not  *)
(* yet applied, while callers do not patch one component concurrently      *)
(* (SerialPatches).                                                        *)
ObservedTracks ==
  /\ DOMAIN observed = DOMAIN content
  /\ \A id \in DOMAIN content : \A f \in Fields :
       observed[id][f] # content[id][f] =>
         \E t \in Threads : Announces(t, id, f, observed[id][f])

(* What ObservedTracks needs to be inductive under SerialPatches: an update *)
(* that is broadcast and not applied is what receivers hold, and no second *)
(* one is under way for the component.                                     *)
PatchesAnnounced ==
  \A t \in Threads : patching[t] # NoPatch =>
    /\ observed[patching[t].id][patching[t].field] = patching[t].value
    /\ \A u \in Threads :
         patching[u] # NoPatch /\ patching[u].id = patching[t].id => u = t

(* Every ID ever issued is no younger than the ID that now has its slot, be*)
(* that live or free.                                                      *)
IssuedCovered ==
  \A x \in issued :
    \/ \E y \in Live(x.list) : y.slot = x.slot /\ x.gen <= y.gen
    \/ \E i \in 1 .. Len(free[x.list]) :
         free[x.list][i].slot = x.slot /\ x.gen <= free[x.list][i].gen

(* The lists keep the promise of IdRegistry: an ID is issued once, and its *)
(* slot belongs to no other live component of its list.                    *)
Registry == INSTANCE IdRegistry WITH live <- DOMAIN content
RegistrySpec == Registry!Spec

(* When the last reference to a component is gone, the component leaves its*)
(* list ("when the last handle goes out of scope, the component will be    *)
(* deleted").                                                              *)
UnreferencedIsDeleted ==
  \A t \in Threads : dying[t] # NoRef ~> dying[t] = NoRef

(* A thread that drops the last reference to a component while it holds the*)
(* mutex of the component's list, inside mutate(), waits for itself.       *)
SelfLocked == \E t \in Threads : dying[t] # NoRef /\ lock[dying[t].list] = t

(* Until a thread waits for itself, every component whose last reference   *)
(* goes is deleted, whatever chain of deletions follows and whoever else   *)
(* wants the mutex.                                                        *)
DeletedUnlessSelfLocked ==
  \A t \in Threads : dying[t] # NoRef ~> dying[t] = NoRef \/ SelfLocked
=============================================================================
