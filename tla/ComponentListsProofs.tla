------------------------ MODULE ComponentListsProofs ------------------------
(***************************************************************************)
(* Proofs about ComponentLists, for every set of threads, lists and fields *)
(* and every width of slots and generations.                               *)
(***************************************************************************)
EXTENDS ComponentLists, FiniteSetTheorems, SequenceTheorems,
        WellFoundedInduction, TLAPS

(* Popping the free list keeps the rest of it. *)
LEMMA PopProperties ==
  ASSUME NEW S, NEW s \in Seq(S), s # <<>>
  PROVE  /\ Len(s) \in Nat \ {0}
         /\ s[Len(s)] \in S
         /\ SubSeq(s, 1, Len(s) - 1) \in Seq(S)
         /\ Len(SubSeq(s, 1, Len(s) - 1)) = Len(s) - 1
         /\ \A i \in 1 .. Len(s) - 1 : SubSeq(s, 1, Len(s) - 1)[i] = s[i]
<1> DEFINE n == Len(s)
           rest == SubSeq(s, 1, n - 1)
<1>1. n \in Nat \ {0} /\ \A i \in 1 .. n : s[i] \in S
  BY EmptySeq, ElementOfSeq, LenProperties
<1>2. /\ rest \in Seq(S)
      /\ Len(rest) = IF 1 <= n - 1 THEN n - 1 - 1 + 1 ELSE 0
      /\ \A i \in 1 .. n - 1 - 1 + 1 : rest[i] = s[1 + i - 1]
  <2>1. /\ 1 \in Int /\ n - 1 \in Int
        /\ \A i \in 1 .. n - 1 : s[i] \in S
    BY <1>1
  <2> HIDE DEF n
  <2>2. QED
    BY <2>1, SubSeqProperties
<1> HIDE DEF n, rest
<1>3. Len(rest) = n - 1
  BY <1>1, <1>2
<1>4. ASSUME NEW i \in 1 .. n - 1
      PROVE  rest[i] = s[i]
  <2>1. i \in 1 .. n - 1 - 1 + 1 /\ 1 + i - 1 = i
    BY <1>1
  <2>2. QED
    BY <1>2, <2>1
<1>5. s[n] \in S
  BY <1>1
<1>6. QED
  BY <1>1, <1>2, <1>3, <1>4, <1>5 DEF n, rest

(* The set of live components of a list is finite when all of them are. *)
LEMMA LiveFinite ==
  ASSUME IsFiniteSet(DOMAIN content), NEW l \in Lists
  PROVE  /\ IsFiniteSet(Live(l))
         /\ Cardinality(Live(l)) \in Nat
<1>1. Live(l) \in SUBSET DOMAIN content
  BY DEF Live
<1>2. QED
  BY <1>1, FS_Subset, FS_CardinalityType

(* provision_id() hands out an ID of its list, inside the widths. *)
LEMMA ProvisionedIsID ==
  ASSUME TypeOK, IsFiniteSet(DOMAIN content), SlotAccounting,
         NEW l \in Lists, CanProvision(l)
  PROVE  /\ ProvisionID(l) \in ID
         /\ ProvisionID(l).list = l
<1>1. CASE free[l] = <<>>
  <2>1. ProvisionID(l) = [list |-> l, slot |-> Cardinality(Live(l)), gen |-> 0]
    BY <1>1 DEF ProvisionID
  <2>2. Cardinality(Live(l)) \in 0 .. SlotLimit - 1
    BY <1>1, LiveFinite, ListsAssumption DEF CanProvision
  <2>3. QED
    BY <2>1, <2>2, ListsAssumption DEF ID
<1>2. CASE free[l] # <<>>
  <2> DEFINE old == free[l][Len(free[l])]
  <2>1. free[l] \in Seq(ID)
    BY DEF TypeOK
  <2>2. old \in ID /\ Len(free[l]) \in Nat \ {0}
    BY <1>2, <2>1, PopProperties
  <2>3. old.list = l
    BY <2>2 DEF SlotAccounting, SlotsAccounted
  <2>4. ProvisionID(l) = [old EXCEPT !.gen = (old.gen + 1) % GenLimit]
    BY <1>2 DEF ProvisionID, NextGeneration
  <2>5. (old.gen + 1) % GenLimit \in 0 .. GenLimit - 1
    BY <2>2, ListsAssumption DEF ID
  <2>6. QED
    BY <2>2, <2>3, <2>4, <2>5 DEF ID
<1>3. QED
  BY <1>1, <1>2

-----------------------------------------------------------------------------
(* Types *)

LEMMA TypeInit == Init => TypeOK
BY ListsAssumption DEF Init, TypeOK, EmptyMap

LEMMA BuildableIsContent ==
  ASSUME TypeOK, NEW t \in Threads, NEW l \in Lists, NEW c \in Buildable(l, t)
  PROVE  c \in Content
BY DEF TypeOK, Buildable, Content

LEMMA TypeStep == IInv /\ [Next]_vars => TypeOK'
<1> SUFFICES ASSUME IInv, [Next]_vars PROVE TypeOK'
  OBVIOUS
<1> USE DEF IInv
<1>1. ASSUME NEW t \in Threads, NEW l \in Lists, NEW own \in BOOLEAN,
             NEW c \in Buildable(l, t), Create(t, l, c, own)
      PROVE  TypeOK'
  <2> DEFINE id == ProvisionID(l)
  <2>1. id \in ID /\ c \in Content
    BY <1>1, ProvisionedIsID, BuildableIsContent DEF Create
  <2>2. FreeAfterProvision(l) \in Seq(ID)
    <3>1. free[l] \in Seq(ID)
      BY DEF TypeOK
    <3>2. QED
      BY <3>1, PopProperties, EmptySeq DEF FreeAfterProvision
  <2> HIDE DEF id
  <2>3. /\ content' = Put(content, id, c)
        /\ observed' = Put(observed, id, c)
        /\ issued' = issued \cup {id}
        /\ handles' = [handles EXCEPT ![t] = @ \cup {id}]
        /\ owned' \in {owned, owned \cup {id}}
        /\ free' = [free EXCEPT ![l] = FreeAfterProvision(l)]
        /\ UNCHANGED <<lock, patching, loose, dying>>
    BY <1>1 DEF Create, id
  <2>4. /\ DOMAIN content' \in SUBSET ID
        /\ \A i \in DOMAIN content' : content'[i] \in Content
    BY <2>1, <2>3 DEF Put, TypeOK
  <2>5. /\ DOMAIN observed' \in SUBSET ID
        /\ \A i \in DOMAIN observed' : observed'[i] \in Content
    BY <2>1, <2>3 DEF Put, TypeOK
  <2>6. /\ free' \in [Lists -> Seq(ID)]
        /\ owned' \in SUBSET ID
        /\ handles' \in [Threads -> SUBSET ID]
        /\ issued' \in SUBSET ID
    BY <2>1, <2>2, <2>3 DEF TypeOK
  <2>7. QED
    BY <2>3, <2>4, <2>5, <2>6 DEF TypeOK
<1>2. ASSUME NEW t \in Threads, NEW id \in handles[t], OwnComponent(t, id)
      PROVE  TypeOK'
  BY <1>2 DEF OwnComponent, TypeOK
<1>3. ASSUME NEW t \in Threads, NEW id \in DOMAIN content, Resolve(t, id)
      PROVE  TypeOK'
  BY <1>3 DEF Resolve, TypeOK
<1>4. ASSUME NEW t \in Threads, NEW id \in handles[t], DropHandle(t, id)
      PROVE  TypeOK'
  BY <1>4 DEF DropHandle, TypeOK
<1>5. ASSUME NEW t \in Threads, NEW id \in handles[t], NEW v \in handles[t],
             NEW f \in Fields,
             PatchSend(t, [id |-> id, field |-> f, value |-> v])
      PROVE  TypeOK'
  <2> DEFINE p == [id |-> id, field |-> f, value |-> v]
  <2>1. p \in Patch /\ p.id = id /\ p.field = f /\ p.value = v
    BY DEF TypeOK, Patch
  <2> HIDE DEF p
  <2>2. /\ observed' = [observed EXCEPT ![p.id][p.field] = p.value]
        /\ patching' = [patching EXCEPT ![t] = p]
        /\ UNCHANGED <<content, free, owned, lock, handles, loose, dying,
                       issued>>
    BY <1>5 DEF PatchSend, p
  <2>3. /\ DOMAIN observed' = DOMAIN observed
        /\ \A i \in DOMAIN observed : observed'[i] \in Content
    BY <2>1, <2>2 DEF TypeOK, Content, Patch
  <2>4. QED
    BY <2>1, <2>2, <2>3 DEF TypeOK
<1>6. ASSUME NEW t \in Threads, PatchApply(t)
      PROVE  TypeOK'
  <2> DEFINE p == patching[t]
             old == content[p.id][p.field]
             r == [holder |-> p.id, field |-> p.field, ref |-> old]
  <2>1. p \in Patch /\ p.id \in DOMAIN content
    BY <1>6 DEF PatchApply, TypeOK, PatchersHold, HeldIsListed, Held, Patch
  <2>2. old # NoRef => r \in Loose
    BY <2>1 DEF TypeOK, Patch, Content, Loose
  <2>3. content' = [content EXCEPT ![p.id][p.field] = p.value]
    BY <1>6 DEF PatchApply
  <2>4. /\ DOMAIN content' = DOMAIN content
        /\ \A i \in DOMAIN content : content'[i] \in Content
    BY <2>1, <2>3 DEF TypeOK, Content, Patch
  <2>5. CASE old = NoRef
    BY <1>6, <2>4, <2>5 DEF PatchApply, TypeOK
  <2>6. CASE old # NoRef
    <3>1. /\ lock' = [lock EXCEPT ![p.id.list] = t]
          /\ loose' = [loose EXCEPT ![t] = @ \cup {r}]
          /\ patching' = [patching EXCEPT ![t] = NoPatch]
          /\ UNCHANGED <<free, owned, handles, dying, observed, issued>>
      BY <1>6, <2>6 DEF PatchApply
    <3> HIDE DEF p, old, r
    <3>2. QED
      BY <2>2, <2>4, <2>6, <3>1 DEF TypeOK
  <2>7. QED
    BY <2>5, <2>6
<1>7. ASSUME NEW t \in Threads, NEW r \in loose[t], Release(t, r)
      PROVE  TypeOK'
  <2>1. r.ref \in ID
    BY DEF TypeOK, Loose
  <2>2. QED
    BY <1>7, <2>1 DEF Release, TypeOK
<1>8. ASSUME NEW t \in Threads, ReturnID(t)
      PROVE  TypeOK'
  <2> DEFINE id == dying[t]
             moved == {[holder |-> id, field |-> f, ref |-> content[id][f]] :
                          f \in {g \in Fields : content[id][g] # NoRef}}
  <2>1. id \in ID /\ id.list \in Lists /\ id \in DOMAIN content
    BY <1>8 DEF ReturnID, TypeOK, DropExactlyOnce, ID
  <2>2. moved \in SUBSET Loose
    BY <2>1 DEF TypeOK, Content, Loose
  <2>3. /\ content' = Without(content, id)
        /\ observed' = Without(observed, id)
        /\ free' = [free EXCEPT ![id.list] = Append(@, id)]
        /\ loose' = [loose EXCEPT ![t] = @ \cup moved]
        /\ dying' = [dying EXCEPT ![t] = NoRef]
        /\ UNCHANGED <<owned, lock, handles, patching, issued>>
    BY <1>8 DEF ReturnID
  <2> HIDE DEF id, moved
  <2>4. free' \in [Lists -> Seq(ID)]
    BY <2>1, <2>3 DEF TypeOK
  <2>5. /\ DOMAIN content' \in SUBSET ID
        /\ \A i \in DOMAIN content' : content'[i] \in Content
        /\ DOMAIN observed' \in SUBSET ID
        /\ \A i \in DOMAIN observed' : observed'[i] \in Content
    BY <2>3 DEF Without, TypeOK
  <2>6. QED
    BY <2>2, <2>3, <2>4, <2>5 DEF TypeOK
<1>9. ASSUME NEW t \in Threads, NEW l \in Lists, UnlockMutate(t, l)
      PROVE  TypeOK'
  BY <1>9 DEF UnlockMutate, TypeOK
<1>10. CASE UNCHANGED vars
  BY <1>10 DEF vars, TypeOK
<1>11. QED
  BY <1>1, <1>2, <1>3, <1>4, <1>5, <1>6, <1>7, <1>8, <1>9, <1>10
  DEF Next, Call, Inside

-----------------------------------------------------------------------------
(* Slots *)

(* The slot provision_id() hands out belongs to no live component of the   *)
(* list and to no ID left on the free list.                                *)
LEMMA ProvisionedIsFresh ==
  ASSUME TypeOK, IsFiniteSet(DOMAIN content), SlotAccounting,
         NEW l \in Lists, CanProvision(l)
  PROVE  /\ \A a \in Live(l) : a.slot # ProvisionID(l).slot
         /\ \A i \in 1 .. Len(FreeAfterProvision(l)) :
              FreeAfterProvision(l)[i].slot # ProvisionID(l).slot
         /\ ProvisionID(l) \notin DOMAIN content
<1>1. Cardinality(Live(l)) \in Nat
  BY LiveFinite
<1>2. free[l] \in Seq(ID)
  BY DEF TypeOK
<1>3. CASE free[l] = <<>>
  <2>1. Len(free[l]) = 0 /\ Len(FreeAfterProvision(l)) = 0
    BY <1>3, EmptySeq DEF FreeAfterProvision
  <2>2. LiveSlots(l) \subseteq 0 .. Cardinality(Live(l)) - 1
    BY <1>1, <2>1 DEF SlotAccounting, SlotsAccounted
  <2>3. ProvisionID(l).slot = Cardinality(Live(l))
    BY <1>3 DEF ProvisionID
  <2>4. \A a \in Live(l) : a.slot # ProvisionID(l).slot
    BY <1>1, <2>2, <2>3 DEF LiveSlots
  <2>5. QED
    BY <2>1, <2>4, ProvisionedIsID DEF Live
<1>4. CASE free[l] # <<>>
  <2> DEFINE n == Len(free[l])
             old == free[l][n]
             rest == FreeAfterProvision(l)
  <2>1. /\ n \in Nat \ {0} /\ old \in ID
        /\ Len(rest) = n - 1
        /\ \A i \in 1 .. n - 1 : rest[i] = free[l][i]
    BY <1>2, <1>4, PopProperties DEF FreeAfterProvision
  <2>2. ProvisionID(l).slot = old.slot
    BY <1>4, <2>1 DEF ProvisionID, NextGeneration, ID
  <2>3. old.slot \in FreeSlots(l)
    BY <2>1 DEF FreeSlots
  <2>4. \A a \in Live(l) : a.slot # old.slot
    BY <2>3 DEF SlotAccounting, SlotsAccounted, LiveSlots
  <2>5. \A i \in 1 .. Len(rest) : rest[i].slot # old.slot
    <3> HIDE DEF rest
    <3>1. ASSUME NEW i \in 1 .. Len(rest), free[l][i].slot = free[l][n].slot
          PROVE  FALSE
      <4>1. i \in 1 .. n /\ n \in 1 .. n /\ i # n
        BY <2>1
      <4>2. QED
        BY <3>1, <4>1 DEF SlotAccounting, SlotsAccounted
    <3>2. QED
      BY <2>1, <3>1
  <2>6. QED
    BY <2>2, <2>4, <2>5, ProvisionedIsID DEF Live
<1>5. QED
  BY <1>3, <1>4

(* Steps that create and delete nothing keep the accounts. *)
LEMMA SlotsUnchanged ==
  ASSUME SlotAccounting, DOMAIN content' = DOMAIN content, free' = free
  PROVE  SlotAccounting'
<1>1. \A l \in Lists : Live(l)' = Live(l)
  BY DEF Live
<1>2. \A l \in Lists : LiveSlots(l)' = LiveSlots(l)
  BY <1>1 DEF LiveSlots
<1>3. \A l \in Lists : FreeSlots(l)' = FreeSlots(l)
  BY DEF FreeSlots
<1>4. ASSUME NEW l \in Lists PROVE SlotsAccounted(l)'
  BY <1>1, <1>2, <1>3 DEF SlotAccounting, SlotsAccounted
<1>5. QED
  BY <1>4 DEF SlotAccounting

LEMMA CreateSlots ==
  ASSUME IInv, NEW t \in Threads, NEW l \in Lists, NEW own \in BOOLEAN,
         NEW c \in Buildable(l, t), Create(t, l, c, own)
  PROVE  SlotAccounting' /\ IsFiniteSet(DOMAIN content')
<1> USE DEF IInv
<1> DEFINE id == ProvisionID(l)
           rest == FreeAfterProvision(l)
<1>1. /\ id \in ID /\ id.list = l /\ id \notin DOMAIN content
      /\ \A a \in Live(l) : a.slot # id.slot
      /\ \A i \in 1 .. Len(rest) : rest[i].slot # id.slot
  BY ProvisionedIsID, ProvisionedIsFresh DEF Create
<1>2. /\ DOMAIN content' = DOMAIN content \cup {id}
      /\ free' = [free EXCEPT ![l] = rest]
  BY DEF Create, Put
<1>3. IsFiniteSet(DOMAIN content')
  BY <1>2, FS_AddElement
<1>4. free[l] \in Seq(ID) /\ free' \in [Lists -> Seq(ID)]
  BY TypeStep DEF Next, Call, TypeOK
<1>5. ASSUME NEW k \in Lists, k # l
      PROVE  Live(k)' = Live(k) /\ free'[k] = free[k]
  BY <1>1, <1>2, <1>5 DEF Live, TypeOK
<1>6. Live(l)' = Live(l) \cup {id} /\ free'[l] = rest
  BY <1>1, <1>2 DEF Live, TypeOK
<1>7. /\ IsFiniteSet(Live(l)) /\ Cardinality(Live(l)) \in Nat
      /\ Cardinality(Live(l)') = Cardinality(Live(l)) + 1
  BY <1>1, <1>6, LiveFinite, FS_AddElement DEF Live
<1>8. LiveSlots(l)' = LiveSlots(l) \cup {id.slot}
  BY <1>6 DEF LiveSlots
<1>9. /\ Len(rest) \in Nat
      /\ \A i \in 1 .. Len(rest) : i \in 1 .. Len(free[l]) /\ rest[i] = free[l][i]
  BY <1>4, PopProperties, EmptySeq DEF FreeAfterProvision
<1>10. /\ LiveSlots(l)' \cup FreeSlots(l)'
            = LiveSlots(l) \cup FreeSlots(l) \cup {id.slot}
       /\ LiveSlots(l) \cup FreeSlots(l) \cup {id.slot}
            = 0 .. Cardinality(Live(l)) + 1 + Len(rest) - 1
  <2>1. CASE free[l] = <<>>
    <3>1. Len(free[l]) = 0 /\ Len(rest) = 0 /\ id.slot = Cardinality(Live(l))
      BY <2>1, EmptySeq DEF FreeAfterProvision, ProvisionID
    <3>2. FreeSlots(l) = {} /\ FreeSlots(l)' = {}
      BY <1>6, <3>1 DEF FreeSlots
    <3>3. LiveSlots(l) \cup FreeSlots(l) = 0 .. Cardinality(Live(l)) - 1
      BY <1>7, <3>1 DEF SlotAccounting, SlotsAccounted
    <3> HIDE DEF id, rest
    <3>4. QED
      BY <1>7, <1>8, <3>1, <3>2, <3>3
  <2>2. CASE free[l] # <<>>
    <3> DEFINE n == Len(free[l])
    <3>1. n \in Nat \ {0} /\ Len(rest) = n - 1 /\ free[l][n] \in ID
      BY <1>4, <2>2, PopProperties DEF FreeAfterProvision
    <3>2. id.slot = free[l][n].slot
      BY <2>2, <3>1 DEF ProvisionID, NextGeneration, ID
    <3>3. FreeSlots(l)' = {rest[i].slot : i \in 1 .. Len(rest)}
      BY <1>6 DEF FreeSlots
    <3> HIDE DEF id, rest
    <3>4. FreeSlots(l)' \cup {id.slot} = FreeSlots(l)
      <4>1. ASSUME NEW i \in 1 .. n
            PROVE  free[l][i].slot \in FreeSlots(l)' \cup {id.slot}
        <5>1. i = n \/ i \in 1 .. Len(rest)
          BY <3>1
        <5>2. QED
          BY <1>9, <3>2, <3>3, <5>1
      <4>2. ASSUME NEW i \in 1 .. Len(rest)
            PROVE  rest[i].slot \in FreeSlots(l)
        BY <1>9 DEF FreeSlots
      <4>3. id.slot \in FreeSlots(l)
        BY <3>1, <3>2 DEF FreeSlots
      <4>4. QED
        BY <3>3, <4>1, <4>2, <4>3 DEF FreeSlots
    <3>5. LiveSlots(l) \cup FreeSlots(l) = 0 .. Cardinality(Live(l)) + n - 1
      BY DEF SlotAccounting, SlotsAccounted
    <3>6. Cardinality(Live(l)) + 1 + Len(rest) - 1 = Cardinality(Live(l)) + n - 1
      BY <1>7, <3>1
    <3>7. QED
      BY <1>8, <3>4, <3>5, <3>6
  <2>3. QED
    BY <2>1, <2>2
<1> HIDE DEF id, rest
<1>11. /\ \A a, b \in Live(l)' : a.slot = b.slot => a = b
       /\ \A i, j \in 1 .. Len(free'[l]) :
            free'[l][i].slot = free'[l][j].slot => i = j
       /\ \A i \in 1 .. Len(free'[l]) : free'[l][i].list = l
  <2>1. /\ \A a, b \in Live(l) : a.slot = b.slot => a = b
        /\ \A i, j \in 1 .. Len(free[l]) :
             free[l][i].slot = free[l][j].slot => i = j
        /\ \A i \in 1 .. Len(free[l]) : free[l][i].list = l
    BY DEF SlotAccounting, SlotsAccounted
  <2>2. \A a, b \in Live(l)' : a.slot = b.slot => a = b
    BY <1>1, <1>6, <2>1
  <2>3. QED
    BY <1>6, <1>9, <2>1, <2>2
<1>12. LiveSlots(l)' \cap FreeSlots(l)' = {}
  <2>1. \A i \in 1 .. Len(rest) : rest[i].slot \in FreeSlots(l)
    BY <1>9 DEF FreeSlots
  <2>2. FreeSlots(l)' = {rest[i].slot : i \in 1 .. Len(rest)}
    BY <1>6 DEF FreeSlots
  <2>3. QED
    BY <1>1, <1>8, <2>1, <2>2 DEF SlotAccounting, SlotsAccounted
<1>13. \A k \in Lists : k # l =>
         LiveSlots(k)' = LiveSlots(k) /\ FreeSlots(k)' = FreeSlots(k)
  BY <1>5 DEF LiveSlots, FreeSlots
<1>14. SlotsAccounted(l)'
  BY <1>6, <1>7, <1>10, <1>11, <1>12 DEF SlotsAccounted
<1>15. ASSUME NEW k \in Lists, k # l
       PROVE  SlotsAccounted(k)'
  <2>1. SlotsAccounted(k)
    BY DEF SlotAccounting
  <2>2. QED
    BY <1>5, <1>13, <1>15, <2>1 DEF SlotsAccounted
<1>16. QED
  BY <1>3, <1>14, <1>15 DEF SlotAccounting

LEMMA ReturnSlots ==
  ASSUME IInv, NEW t \in Threads, ReturnID(t)
  PROVE  SlotAccounting' /\ IsFiniteSet(DOMAIN content')
<1> USE DEF IInv
<1>1. PICK id \in ID, l \in Lists :
        id = dying[t] /\ id \in DOMAIN content /\ l = id.list
  BY DEF ReturnID, TypeOK, DropExactlyOnce, ID
<1>2. /\ DOMAIN content' = DOMAIN content \ {id}
      /\ free' = [free EXCEPT ![l] = Append(@, id)]
  BY <1>1 DEF ReturnID, Without
<1>3. IsFiniteSet(DOMAIN content')
  BY <1>2, FS_RemoveElement
<1>4. ASSUME NEW k \in Lists, k # l
      PROVE  Live(k)' = Live(k) /\ free'[k] = free[k]
  BY <1>1, <1>2, <1>4 DEF Live, TypeOK
<1>5. Live(l)' = Live(l) \ {id} /\ free'[l] = Append(free[l], id)
  <2>1. Live(l)' = {a \in DOMAIN content \ {id} : a.list = l}
    BY <1>2 DEF Live
  <2>2. l \in DOMAIN free
    BY <1>1 DEF TypeOK
  <2>3. QED
    BY <1>2, <2>1, <2>2 DEF Live
<1>6. id \in Live(l)
  BY <1>1 DEF Live
<1>7. /\ Cardinality(Live(l)) \in Nat
      /\ Cardinality(Live(l)') = Cardinality(Live(l)) - 1
  <2>1. IsFiniteSet(Live(l)) /\ Cardinality(Live(l)) \in Nat
    BY LiveFinite
  <2>2. Cardinality(Live(l) \ {id}) = Cardinality(Live(l)) - 1
    BY <1>6, <2>1, FS_RemoveElement
  <2>3. QED
    BY <1>5, <2>1, <2>2
<1> DEFINE n == Len(free[l])
<1>8. /\ n \in Nat /\ Len(free'[l]) = n + 1
      /\ \A i \in 1 .. n : free'[l][i] = free[l][i]
      /\ free'[l][n + 1] = id
  <2>1. free[l] \in Seq(ID)
    BY <1>1 DEF TypeOK
  <2>2. QED
    BY <1>1, <1>5, <2>1, AppendProperties, LenProperties
<1> HIDE DEF n
<1>9. LiveSlots(l)' = LiveSlots(l) \ {id.slot} /\ id.slot \in LiveSlots(l)
  <2>1. \A a \in Live(l) : a.slot = id.slot => a = id
    BY <1>6 DEF SlotAccounting, SlotsAccounted
  <2>2. LiveSlots(l)' = {a.slot : a \in Live(l) \ {id}}
    BY <1>5 DEF LiveSlots
  <2>3. QED
    BY <1>6, <2>1, <2>2 DEF LiveSlots
<1>10. FreeSlots(l)' = FreeSlots(l) \cup {id.slot}
  <2>1. \A i \in 1 .. n + 1 : i = n + 1 \/ i \in 1 .. n
    BY <1>8
  <2>2. FreeSlots(l)' = {free'[l][i].slot : i \in 1 .. n + 1}
    <3>1. FreeSlots(l)' = {free'[l][i].slot : i \in 1 .. Len(free'[l])}
      BY DEF FreeSlots
    <3>2. QED
      BY <1>8, <3>1
  <2>3. FreeSlots(l) = {free[l][i].slot : i \in 1 .. n}
    BY DEF FreeSlots, n
  <2>4. 1 .. n \subseteq 1 .. n + 1 /\ n + 1 \in 1 .. n + 1
    BY <1>8
  <2>5. QED
    BY <1>8, <2>1, <2>2, <2>3, <2>4
<1>11. LiveSlots(l) \cap FreeSlots(l) = {}
  BY <1>1 DEF SlotAccounting, SlotsAccounted
<1>12. \A i \in 1 .. n : free[l][i].slot # id.slot
  BY <1>9, <1>11 DEF FreeSlots, n
<1>13. /\ \A a, b \in Live(l)' : a.slot = b.slot => a = b
       /\ \A i \in 1 .. Len(free'[l]) : free'[l][i].list = l
  <2>1. \A i \in 1 .. n : free[l][i].list = l
    BY <1>1 DEF SlotAccounting, SlotsAccounted, n
  <2>2. QED
    BY <1>1, <1>5, <1>8, <2>1 DEF SlotAccounting, SlotsAccounted
<1>14. \A i, j \in 1 .. Len(free'[l]) :
         free'[l][i].slot = free'[l][j].slot => i = j
  <2>1. \A i, j \in 1 .. n : free[l][i].slot = free[l][j].slot => i = j
    BY <1>1 DEF SlotAccounting, SlotsAccounted, n
  <2>2. \A i \in 1 .. n + 1 : i = n + 1 \/ i \in 1 .. n
    BY <1>8
  <2>3. QED
    BY <1>8, <1>12, <2>1, <2>2
<1>15. LiveSlots(l)' \cup FreeSlots(l)'
         = 0 .. Cardinality(Live(l)') + Len(free'[l]) - 1
  <2>1. LiveSlots(l) \cup FreeSlots(l) = 0 .. Cardinality(Live(l)) + n - 1
    BY <1>1 DEF SlotAccounting, SlotsAccounted, n
  <2>2. Cardinality(Live(l)') + Len(free'[l]) - 1 = Cardinality(Live(l)) + n - 1
    BY <1>7, <1>8
  <2>3. QED
    BY <1>9, <1>10, <2>1, <2>2
<1>16. LiveSlots(l)' \cap FreeSlots(l)' = {}
  BY <1>9, <1>10, <1>11
<1>17. \A k \in Lists : k # l =>
         LiveSlots(k)' = LiveSlots(k) /\ FreeSlots(k)' = FreeSlots(k)
  BY <1>4 DEF LiveSlots, FreeSlots
<1>18. SlotsAccounted(l)'
  BY <1>13, <1>14, <1>15, <1>16 DEF SlotsAccounted
<1>19. ASSUME NEW k \in Lists, k # l
       PROVE  SlotsAccounted(k)'
  <2>1. SlotsAccounted(k)
    BY DEF SlotAccounting
  <2>2. QED
    BY <1>4, <1>17, <1>19, <2>1 DEF SlotsAccounted
<1>20. QED
  BY <1>3, <1>18, <1>19 DEF SlotAccounting

-----------------------------------------------------------------------------
(* Reference counts *)

(* HeldWithout and HeldWithoutHandle foresee Held in the next state. *)
LEMMA HeldAfterRelease ==
  ASSUME TypeOK, NEW t \in Threads, NEW r \in loose[t], Release(t, r)
  PROVE  /\ HeldWithout(r.ref, t, r) <=> Held(r.ref)'
         /\ \A id : id # r.ref => (Held(id)' <=> Held(id))
<1>1. /\ loose' = [loose EXCEPT ![t] = @ \ {r}]
      /\ UNCHANGED <<content, owned, handles>>
  BY DEF Release
<1>2. \A u \in Threads : \A s : s \in loose'[u] <=> s \in loose[u] /\ ~ (u = t /\ s = r)
  BY <1>1 DEF TypeOK
<1>3. HeldWithout(r.ref, t, r) <=> Held(r.ref)'
  BY <1>1, <1>2 DEF HeldWithout, Held
<1>4. ASSUME NEW id, id # r.ref
      PROVE  (\E u \in Threads : \E s \in loose[u] : s.ref = id)
               <=> (\E u \in Threads : \E s \in loose'[u] : s.ref = id)
  BY <1>2, <1>4
<1>5. \A id : id # r.ref => (Held(id)' <=> Held(id))
  BY <1>1, <1>4 DEF Held
<1>6. QED
  BY <1>3, <1>5

LEMMA HeldAfterDropHandle ==
  ASSUME TypeOK, NEW t \in Threads, NEW id \in handles[t], DropHandle(t, id)
  PROVE  /\ HeldWithoutHandle(id, t) <=> Held(id)'
         /\ \A x : x # id => (Held(x)' <=> Held(x))
<1>1. /\ handles' = [handles EXCEPT ![t] = @ \ {id}]
      /\ UNCHANGED <<content, owned, loose>>
  BY DEF DropHandle
<1>2. \A u \in Threads : \A x : x \in handles'[u] <=> x \in handles[u] /\ ~ (u = t /\ x = id)
  BY <1>1 DEF TypeOK
<1>3. (\E u \in Threads \ {t} : id \in handles[u])
         <=> (\E u \in Threads : id \in handles'[u])
  BY <1>2
<1>4. \A x : x # id => ((\E u \in Threads : x \in handles[u])
                          <=> (\E u \in Threads : x \in handles'[u]))
  BY <1>2
<1>5. QED
  BY <1>1, <1>3, <1>4 DEF Held, HeldWithoutHandle

(* Deleting an unreferenced component turns the references its content     *)
(* holds into loose ones: nothing gains or loses a holder.                 *)
LEMMA HeldAfterReturn ==
  ASSUME IInv, NEW t \in Threads, ReturnID(t)
  PROVE  \A x \in ID : Held(x)' <=> Held(x)
<1> USE DEF IInv
<1> DEFINE id == dying[t]
           moved == {[holder |-> id, field |-> f, ref |-> content[id][f]] :
                        f \in {g \in Fields : content[id][g] # NoRef}}
<1>1. id \in DOMAIN content /\ id \in ID
  BY DEF ReturnID, TypeOK, DropExactlyOnce
<1>2. /\ content' = Without(content, id)
      /\ loose' = [loose EXCEPT ![t] = @ \cup moved]
      /\ UNCHANGED <<owned, handles>>
  BY DEF ReturnID
<1>3. \A x \in ID : (\E f \in Fields : content[id][f] = x)
                      <=> (\E s \in moved : s.ref = x)
  <2>1. ASSUME NEW x \in ID, NEW f \in Fields, content[id][f] = x
        PROVE  \E s \in moved : s.ref = x
    <3>1. [holder |-> id, field |-> f, ref |-> content[id][f]] \in moved
      BY <2>1, ListsAssumption
    <3>2. QED
      BY <2>1, <3>1
  <2>2. ASSUME NEW x \in ID, NEW s \in moved, s.ref = x
        PROVE  \E f \in Fields : content[id][f] = x
    BY <2>2
  <2>3. QED
    BY <2>1, <2>2
<1> HIDE DEF id, moved
<1>4. \A x \in ID : (\E h \in DOMAIN content : \E f \in Fields : content[h][f] = x)
        <=> \/ \E h \in DOMAIN content' : \E f \in Fields : content'[h][f] = x
            \/ \E f \in Fields : content[id][f] = x
  BY <1>1, <1>2 DEF Without
<1>5. \A x \in ID : (\E u \in Threads : \E s \in loose'[u] : s.ref = x)
        <=> \/ \E u \in Threads : \E s \in loose[u] : s.ref = x
            \/ \E s \in moved : s.ref = x
  BY <1>2 DEF TypeOK
<1>6. QED
  BY <1>2, <1>3, <1>4, <1>5 DEF Held

(* Assigning a field moves the reference it held into a loose one and adds *)
(* one to a component the caller holds anyway.                             *)
LEMMA HeldAfterPatch ==
  ASSUME IInv, NEW t \in Threads, PatchApply(t)
  PROVE  /\ DOMAIN content' = DOMAIN content
         /\ \A x \in ID : Held(x)' <=> Held(x)
<1> USE DEF IInv
<1> DEFINE p == patching[t]
           old == content[p.id][p.field]
           r == [holder |-> p.id, field |-> p.field, ref |-> old]
<1>1. /\ p \in Patch /\ p.id \in DOMAIN content
      /\ p.id \in ID /\ p.field \in Fields /\ p.value \in handles[t]
      /\ content[p.id] \in Content
  BY DEF PatchApply, TypeOK, PatchersHold, HeldIsListed, Held, Patch
<1>2. /\ content' = [content EXCEPT ![p.id][p.field] = p.value]
      /\ UNCHANGED <<owned, handles>>
      /\ old # NoRef => loose' = [loose EXCEPT ![t] = @ \cup {r}]
      /\ old = NoRef => loose' = loose
  BY DEF PatchApply
<1>3. r.ref = old
  OBVIOUS
<1> HIDE DEF r
<1>4. \A x \in ID : (\E u \in Threads : \E s \in loose'[u] : s.ref = x)
        <=> \/ \E u \in Threads : \E s \in loose[u] : s.ref = x
            \/ x = old
  <2> HIDE DEF old, p
  <2>1. CASE old = NoRef
    BY <1>2, <2>1, ListsAssumption
  <2>2. CASE old # NoRef
    BY <1>2, <1>3, <2>2 DEF TypeOK
  <2>3. QED
    BY <2>1, <2>2
<1>5. /\ DOMAIN content' = DOMAIN content
      /\ \A h \in DOMAIN content : \A f \in Fields :
           content'[h][f] = IF h = p.id /\ f = p.field THEN p.value ELSE content[h][f]
  <2> HIDE DEF old, p
  <2>1. \A h \in DOMAIN content : DOMAIN content[h] = Fields
    BY DEF TypeOK, Content
  <2>2. QED
    BY <1>1, <1>2, <2>1
<1>6. ASSUME NEW x \in ID
      PROVE  Held(x)' <=> Held(x)
  <2>1. PICK v \in ID : v = p.value /\ Held(v) /\ Held(v)'
    BY <1>1, <1>2 DEF Held, Patch
  <2>2. (\E h \in DOMAIN content : \E f \in Fields : content[h][f] = x)
          => \/ \E h \in DOMAIN content' : \E f \in Fields : content'[h][f] = x
             \/ x = old
    BY <1>1, <1>5
  <2>3. (\E h \in DOMAIN content' : \E f \in Fields : content'[h][f] = x)
          => \/ \E h \in DOMAIN content : \E f \in Fields : content[h][f] = x
             \/ x = p.value
    BY <1>1, <1>5
  <2>4. x = old => \E h \in DOMAIN content : \E f \in Fields : content[h][f] = x
    BY <1>1
  <2> HIDE DEF old, p
  <2>5. QED
    BY <1>2, <1>4, <2>1, <2>2, <2>3, <2>4 DEF Held
<1>7. QED
  BY <1>5, <1>6

-----------------------------------------------------------------------------
(* The inductive invariant *)

LEMMA InvInit == Init => IInv
<1> SUFFICES ASSUME Init PROVE IInv
  OBVIOUS
<1>1. TypeOK
  BY TypeInit
<1>2. DOMAIN content = {} /\ IsFiniteSet(DOMAIN content)
  BY FS_EmptySet DEF Init, EmptyMap
<1>3. SlotAccounting
  <2> SUFFICES ASSUME NEW l \in Lists PROVE SlotsAccounted(l)
    BY DEF SlotAccounting
  <2>1. Live(l) = {} /\ Len(free[l]) = 0
    BY <1>2, EmptySeq DEF Live, Init
  <2>2. LiveSlots(l) = {} /\ FreeSlots(l) = {}
    BY <2>1 DEF LiveSlots, FreeSlots
  <2>3. QED
    BY <2>1, <2>2, FS_EmptySet DEF SlotsAccounted
<1>4. \A id : ~ Held(id)
  BY <1>2 DEF Init, Held
<1>5. QED
  BY <1>1, <1>2, <1>3, <1>4
  DEF IInv, HeldIsListed, DropExactlyOnce, PatchersHold, Init

(* A step that changes neither the live components nor who is dropped, and *)
(* lets no component gain its first or lose its last reference, keeps the  *)
(* last three parts of the invariant when it keeps the patching threads.   *)
LEMMA CountsUnchanged ==
  ASSUME IInv, DOMAIN content' = DOMAIN content, dying' = dying,
         \A x \in ID : Held(x)' <=> Held(x)
  PROVE  HeldIsListed' /\ DropExactlyOnce'
<1>1. HeldIsListed'
  BY DEF IInv, HeldIsListed
<1>2. DOMAIN content \subseteq ID /\ \A t \in Threads : dying[t] # NoRef => dying[t] \in ID
  BY DEF IInv, TypeOK
<1>3. QED
  BY <1>1, <1>2 DEF IInv, DropExactlyOnce

(* When a thread gives up a reference to x and starts to drop x exactly if *)
(* nothing holds it any more, drops stay unique.                           *)
LEMMA CountsAfterLoss ==
  ASSUME IInv, NEW t \in Threads, NEW x \in ID, Held(x),
         content' = content, dying[t] = NoRef,
         \A y : y # x => (Held(y)' <=> Held(y)),
         dying' = IF Held(x)' THEN dying ELSE [dying EXCEPT ![t] = x]
  PROVE  HeldIsListed' /\ DropExactlyOnce'
<1> USE DEF IInv
<1>1. x \in DOMAIN content
  BY DEF HeldIsListed
<1>2. HeldIsListed'
  BY <1>1 DEF HeldIsListed
<1>3. \A u \in Threads : dying[u] # x
  BY ListsAssumption DEF DropExactlyOnce
<1>4. \A u \in Threads : dying'[u] = IF u = t /\ ~ Held(x)' THEN x ELSE dying[u]
  BY DEF TypeOK
<1> DEFINE lost == ~ Held(x)'
<1>5. ASSUME NEW id \in DOMAIN content, ~ Held(id)'
      PROVE  \E u \in Threads : dying'[u] = id
  <2>1. CASE id = x
    BY <1>4, <1>5, <2>1
  <2>2. CASE id # x
    <3>1. PICK u \in Threads : dying[u] = id
      BY <1>5, <2>2 DEF DropExactlyOnce
    <3>2. id \in ID /\ id # NoRef
      BY ListsAssumption DEF TypeOK
    <3>3. u # t
      BY <3>1, <3>2
    <3>4. QED
      BY <1>4, <3>1, <3>3
  <2>3. QED
    BY <2>1, <2>2
<1>6. ASSUME NEW u \in Threads, dying'[u] # NoRef
      PROVE  /\ dying'[u] \in DOMAIN content
             /\ ~ Held(dying[u])'
             /\ \A w \in Threads : dying'[w] = dying'[u] => w = u
  <2>1. CASE u = t /\ ~ Held(x)'
    <3>1. dying'[u] = x
      BY <1>4, <2>1
    <3>2. QED
      BY <1>1, <1>3, <1>4, <2>1, <3>1 DEF Held
  <2>2. CASE ~ (u = t /\ ~ Held(x)')
    <3>1. dying'[u] = dying[u]
      BY <1>4, <2>2
    <3>2. /\ dying[u] \in DOMAIN content
          /\ ~ Held(dying[u])
          /\ \A w \in Threads : dying[w] = dying[u] => w = u
      BY <1>6, <3>1 DEF DropExactlyOnce
    <3>3. dying[u] # x
      BY <1>3
    <3>4. \A w \in Threads : dying'[w] = dying[u] => w = u
      BY <1>4, <3>2, <3>3
    <3>5. PICK y : y = dying[u]
      OBVIOUS
    <3>6. ~ Held(y)'
      BY <3>2, <3>3, <3>5
    <3>7. QED
      BY <3>1, <3>2, <3>4, <3>5, <3>6 DEF Held
  <2>3. QED
    BY <2>1, <2>2
<1>7. DropExactlyOnce'
  BY <1>5, <1>6 DEF DropExactlyOnce
<1>8. QED
  BY <1>2, <1>7

LEMMA CountsStep ==
  ASSUME IInv, [Next]_vars
  PROVE  HeldIsListed' /\ DropExactlyOnce' /\ PatchersHold'
<1> USE DEF IInv
<1>1. ASSUME NEW t \in Threads, NEW l \in Lists, NEW own \in BOOLEAN,
             NEW c \in Buildable(l, t), Create(t, l, c, own)
      PROVE  HeldIsListed' /\ DropExactlyOnce' /\ PatchersHold'
  <2>1. PICK id \in ID : id = ProvisionID(l) /\ id \notin DOMAIN content
    BY <1>1, ProvisionedIsID, ProvisionedIsFresh DEF Create
  <2>2. /\ content' = Put(content, id, c)
        /\ handles' = [handles EXCEPT ![t] = @ \cup {id}]
        /\ owned' = owned \/ owned' = owned \cup {id}
        /\ UNCHANGED <<loose, dying, patching>>
        /\ Idle(t)
    BY <1>1, <2>1 DEF Create
  <2>3. \A f \in Fields : c[f] # NoRef => Held(c[f])
    BY DEF Buildable, Held
  <2>4. /\ DOMAIN content' = DOMAIN content \cup {id}
        /\ content'[id] = c
        /\ \A h \in DOMAIN content : content'[h] = content[h]
    BY <2>1, <2>2 DEF Put
  <2>5. \A u \in Threads : \A x : x \in handles'[u] <=> x \in handles[u] \/ (u = t /\ x = id)
    BY <2>2 DEF TypeOK
  <2>6. ASSUME NEW x \in ID
        PROVE  Held(x)' <=> (Held(x) \/ x = id)
    <3>1. x # NoRef
      BY ListsAssumption
    <3>2. Held(x) => Held(x)'
      BY <2>1, <2>2, <2>4, <2>5 DEF Held
    <3>3. x = id => Held(x)'
      BY <2>5 DEF Held
    <3>4. ASSUME Held(x)', x # id PROVE Held(x)
      <4>1. CASE \E u \in Threads : x \in handles'[u]
        BY <2>5, <3>4, <4>1 DEF Held
      <4>2. CASE x \in owned'
        BY <2>2, <3>4, <4>2 DEF Held
      <4>3. CASE \E h \in DOMAIN content' : \E f \in Fields : content'[h][f] = x
        BY <2>3, <2>4, <3>1, <4>3 DEF Held
      <4>4. CASE \E u \in Threads : \E r \in loose'[u] : r.ref = x
        BY <2>2, <4>4 DEF Held
      <4>5. QED
        BY <3>4, <4>1, <4>2, <4>3, <4>4 DEF Held
    <3>5. QED
      BY <3>2, <3>3, <3>4
  <2>7. HeldIsListed'
    BY <2>4, <2>6 DEF HeldIsListed
  <2>8. \A u \in Threads : dying[u] # id
    BY <2>1, ListsAssumption DEF DropExactlyOnce
  <2>9. DropExactlyOnce'
    <3>1. \A u \in Threads : dying[u] # NoRef => dying[u] \in ID
      BY DEF TypeOK
    <3>2. DOMAIN content \subseteq ID
      BY DEF TypeOK
    <3>3. \A i \in DOMAIN content' : ~ Held(i)' => \E u \in Threads : dying'[u] = i
      BY <2>1, <2>2, <2>4, <2>6, <3>2 DEF DropExactlyOnce
    <3>4. ASSUME NEW u \in Threads, dying'[u] # NoRef
          PROVE  /\ dying'[u] \in DOMAIN content'
                 /\ ~ Held(dying[u])'
                 /\ \A w \in Threads : dying'[w] = dying'[u] => w = u
      <4>1. PICK y \in ID : y = dying[u] /\ y = dying'[u]
        BY <2>2, <3>1, <3>4
      <4>2. ~ Held(y) /\ y # id
        BY <2>8, <3>4, <4>1 DEF DropExactlyOnce
      <4>3. ~ Held(y)'
        BY <2>6, <4>2
      <4>4. QED
        <5>1. /\ y \in DOMAIN content
              /\ \A w \in Threads : dying[w] = y => w = u
          BY <2>2, <3>4, <4>1 DEF DropExactlyOnce
        <5>2. QED
          BY <2>2, <2>4, <4>1, <4>3, <5>1 DEF Held
    <3>5. QED
      BY <3>3, <3>4 DEF DropExactlyOnce
  <2>10. PatchersHold'
    BY <2>2, <2>5 DEF PatchersHold
  <2>11. QED
    BY <2>7, <2>9, <2>10
<1>2. ASSUME NEW t \in Threads, NEW id \in handles[t], OwnComponent(t, id)
      PROVE  HeldIsListed' /\ DropExactlyOnce' /\ PatchersHold'
  <2>1. /\ owned' = owned \cup {id}
        /\ handles' = [handles EXCEPT ![t] = @ \ {id}]
        /\ UNCHANGED <<content, loose, dying, patching>>
        /\ Idle(t)
    BY <1>2 DEF OwnComponent
  <2>2. \A u \in Threads : \A x : x \in handles'[u] <=> x \in handles[u] /\ ~ (u = t /\ x = id)
    BY <2>1 DEF TypeOK
  <2>3. \A x \in ID : Held(x)' <=> Held(x)
    BY <2>1, <2>2 DEF Held
  <2>4. PatchersHold'
    BY <2>1, <2>2 DEF PatchersHold, Idle
  <2>5. QED
    BY <2>1, <2>3, <2>4, CountsUnchanged
<1>3. ASSUME NEW t \in Threads, NEW id \in DOMAIN content, Resolve(t, id)
      PROVE  HeldIsListed' /\ DropExactlyOnce' /\ PatchersHold'
  <2>1. /\ handles' = [handles EXCEPT ![t] = @ \cup {id}]
        /\ UNCHANGED <<content, owned, loose, dying, patching>>
        /\ Held(id)
    BY <1>3 DEF Resolve
  <2>2. \A u \in Threads : \A x : x \in handles'[u] <=> x \in handles[u] \/ (u = t /\ x = id)
    BY <2>1 DEF TypeOK
  <2>3. \A x \in ID : Held(x)' <=> Held(x)
    BY <2>1, <2>2 DEF Held
  <2>4. PatchersHold'
    BY <2>1, <2>2 DEF PatchersHold
  <2>5. QED
    BY <2>1, <2>3, <2>4, CountsUnchanged
<1>4. ASSUME NEW t \in Threads, NEW id \in handles[t], DropHandle(t, id)
      PROVE  HeldIsListed' /\ DropExactlyOnce' /\ PatchersHold'
  <2>1. /\ handles' = [handles EXCEPT ![t] = @ \ {id}]
        /\ UNCHANGED <<content, patching, loose>>
        /\ Idle(t)
    BY <1>4 DEF DropHandle
  <2>2. id \in ID /\ Held(id)
    BY DEF TypeOK, Held
  <2>3. dying' = IF Held(id)' THEN dying ELSE [dying EXCEPT ![t] = id]
    BY <1>4, HeldAfterDropHandle DEF DropHandle
  <2>4. HeldIsListed' /\ DropExactlyOnce'
    BY <1>4, <2>1, <2>2, <2>3, HeldAfterDropHandle, CountsAfterLoss DEF Idle
  <2>5. PatchersHold'
    BY <2>1, <2>3 DEF PatchersHold, Idle, TypeOK
  <2>6. QED
    BY <2>4, <2>5
<1>5. ASSUME NEW t \in Threads, NEW id \in handles[t], NEW v \in handles[t],
             NEW f \in Fields,
             PatchSend(t, [id |-> id, field |-> f, value |-> v])
      PROVE  HeldIsListed' /\ DropExactlyOnce' /\ PatchersHold'
  <2> DEFINE p == [id |-> id, field |-> f, value |-> v]
  <2>1. /\ patching' = [patching EXCEPT ![t] = p]
        /\ UNCHANGED <<content, owned, handles, loose, dying>>
        /\ Idle(t)
    BY <1>5 DEF PatchSend
  <2>2. p.id \in handles[t] /\ p.value \in handles[t]
    OBVIOUS
  <2> HIDE DEF p
  <2>3. \A x \in ID : Held(x)' <=> Held(x)
    BY <2>1 DEF Held
  <2>4. PatchersHold'
    BY <2>1, <2>2 DEF PatchersHold, Idle, TypeOK
  <2>5. QED
    BY <2>1, <2>3, <2>4, CountsUnchanged
<1>6. ASSUME NEW t \in Threads, PatchApply(t)
      PROVE  HeldIsListed' /\ DropExactlyOnce' /\ PatchersHold'
  <2>1. /\ patching' = [patching EXCEPT ![t] = NoPatch]
        /\ UNCHANGED <<handles, dying>>
        /\ \A u \in Threads : u # t => loose'[u] = loose[u]
    BY <1>6 DEF PatchApply, TypeOK
  <2>2. PatchersHold'
    BY <2>1 DEF PatchersHold, TypeOK
  <2>3. QED
    BY <1>6, <2>1, <2>2, HeldAfterPatch, CountsUnchanged
<1>7. ASSUME NEW t \in Threads, NEW r \in loose[t], Release(t, r)
      PROVE  HeldIsListed' /\ DropExactlyOnce' /\ PatchersHold'
  <2>1. /\ loose' = [loose EXCEPT ![t] = @ \ {r}]
        /\ UNCHANGED <<content, handles, patching>>
        /\ dying[t] = NoRef
    BY <1>7 DEF Release
  <2>2. r.ref \in ID /\ Held(r.ref)
    BY DEF TypeOK, Loose, Held
  <2>3. dying' = IF Held(r.ref)' THEN dying ELSE [dying EXCEPT ![t] = r.ref]
    BY <1>7, HeldAfterRelease DEF Release
  <2>4. HeldIsListed' /\ DropExactlyOnce'
    BY <1>7, <2>1, <2>2, <2>3, HeldAfterRelease, CountsAfterLoss
  <2>5. patching[t] = NoPatch
    BY DEF PatchersHold
  <2>6. PatchersHold'
    BY <2>1, <2>3, <2>5 DEF PatchersHold, TypeOK
  <2>7. QED
    BY <2>4, <2>6
<1>8. ASSUME NEW t \in Threads, ReturnID(t)
      PROVE  HeldIsListed' /\ DropExactlyOnce' /\ PatchersHold'
  <2>1. PICK id \in ID :
          /\ id = dying[t] /\ id \in DOMAIN content /\ ~ Held(id)
          /\ \A u \in Threads : dying[u] = id => u = t
    BY <1>8 DEF ReturnID, DropExactlyOnce, TypeOK
  <2>2. /\ DOMAIN content' = DOMAIN content \ {id}
        /\ dying' = [dying EXCEPT ![t] = NoRef]
        /\ UNCHANGED <<handles, patching>>
        /\ \A u \in Threads : u # t => loose'[u] = loose[u]
    BY <1>8, <2>1 DEF ReturnID, Without, TypeOK
  <2>3. \A x \in ID : Held(x)' <=> Held(x)
    BY <1>8, HeldAfterReturn
  <2>4. HeldIsListed'
    BY <2>1, <2>2, <2>3 DEF HeldIsListed
  <2>5. \A u \in Threads : dying'[u] = IF u = t THEN NoRef ELSE dying[u]
    BY <2>2 DEF TypeOK
  <2>6. \A x \in DOMAIN content' : ~ Held(x)' => \E u \in Threads : dying'[u] = x
    <3>1. ASSUME NEW x \in DOMAIN content', ~ Held(x)'
          PROVE  \E u \in Threads : dying'[u] = x
      <4>1. x \in ID /\ x \in DOMAIN content /\ x # id
        BY <2>2 DEF TypeOK
      <4>2. PICK u \in Threads : dying[u] = x
        BY <2>3, <3>1, <4>1 DEF DropExactlyOnce
      <4>3. u # t
        BY <2>1, <4>1, <4>2
      <4>4. QED
        BY <2>5, <4>2, <4>3
    <3>2. QED
      BY <3>1
  <2>7. ASSUME NEW u \in Threads, dying'[u] # NoRef
        PROVE  /\ dying'[u] \in DOMAIN content'
               /\ ~ Held(dying[u])'
               /\ \A w \in Threads : dying'[w] = dying'[u] => w = u
    <3>1. u # t /\ dying'[u] = dying[u]
      BY <2>5, <2>7
    <3>2. PICK y \in ID : y = dying[u] /\ y = dying'[u]
      BY <2>7, <3>1 DEF TypeOK
    <3>3. /\ y \in DOMAIN content /\ ~ Held(y) /\ y # id
          /\ \A w \in Threads : dying[w] = y => w = u
      BY <2>1, <2>7, <3>1, <3>2 DEF DropExactlyOnce
    <3>4. ~ Held(y)'
      BY <2>3, <3>3
    <3>5. \A w \in Threads : dying'[w] = y => w = u
      BY <2>5, <3>2, <3>3, ListsAssumption
    <3>6. QED
      BY <2>2, <3>2, <3>3, <3>4, <3>5 DEF Held
  <2>8. patching[t] = NoPatch
    BY <2>1, ListsAssumption DEF PatchersHold
  <2>9. PatchersHold'
    BY <2>2, <2>5, <2>8 DEF PatchersHold
  <2>10. QED
    BY <2>4, <2>6, <2>7, <2>9 DEF DropExactlyOnce
<1>9. ASSUME NEW t \in Threads, NEW l \in Lists, UnlockMutate(t, l)
      PROVE  HeldIsListed' /\ DropExactlyOnce' /\ PatchersHold'
  <2>1. UNCHANGED <<content, owned, handles, loose, dying, patching>>
    BY <1>9 DEF UnlockMutate
  <2>2. \A x \in ID : Held(x)' <=> Held(x)
    BY <2>1 DEF Held
  <2>3. QED
    BY <2>1, <2>2, CountsUnchanged DEF PatchersHold
<1>10. CASE UNCHANGED vars
  <2>1. UNCHANGED <<content, owned, handles, loose, dying, patching>>
    BY <1>10 DEF vars
  <2>2. \A x \in ID : Held(x)' <=> Held(x)
    BY <2>1 DEF Held
  <2>3. QED
    BY <2>1, <2>2, CountsUnchanged DEF PatchersHold
<1>11. QED
  BY <1>1, <1>2, <1>3, <1>4, <1>5, <1>6, <1>7, <1>8, <1>9, <1>10
  DEF Next, Call, Inside

LEMMA InvStep == IInv /\ [Next]_vars => IInv'
<1> SUFFICES ASSUME IInv, [Next]_vars PROVE IInv'
  OBVIOUS
<1>1. TypeOK'
  BY TypeStep
<1>2. HeldIsListed' /\ DropExactlyOnce' /\ PatchersHold'
  BY CountsStep
<1>3. SlotAccounting' /\ IsFiniteSet(DOMAIN content')
  <2> USE DEF IInv
  <2>1. ASSUME NEW t \in Threads, NEW l \in Lists, NEW own \in BOOLEAN,
               NEW c \in Buildable(l, t), Create(t, l, c, own)
        PROVE  SlotAccounting' /\ IsFiniteSet(DOMAIN content')
    BY <2>1, CreateSlots
  <2>2. ASSUME NEW t \in Threads, ReturnID(t)
        PROVE  SlotAccounting' /\ IsFiniteSet(DOMAIN content')
    BY <2>2, ReturnSlots
  <2>3. ASSUME NEW t \in Threads, PatchApply(t)
        PROVE  DOMAIN content' = DOMAIN content /\ free' = free
    BY <2>3, HeldAfterPatch DEF PatchApply
  <2>4. ASSUME NEW t \in Threads, NEW x, NEW y,
               \/ OwnComponent(t, x) \/ Resolve(t, x) \/ DropHandle(t, x)
               \/ PatchSend(t, x) \/ Release(t, x) \/ UnlockMutate(t, x)
        PROVE  DOMAIN content' = DOMAIN content /\ free' = free
    BY <2>4 DEF OwnComponent, Resolve, DropHandle, PatchSend, Release,
                UnlockMutate
  <2>5. UNCHANGED vars => DOMAIN content' = DOMAIN content /\ free' = free
    BY DEF vars
  <2>6. CASE DOMAIN content' = DOMAIN content /\ free' = free
    BY <2>6, SlotsUnchanged
  <2>7. QED
    BY <2>1, <2>2, <2>3, <2>4, <2>5, <2>6 DEF Next, Call, Inside
<1>4. QED
  BY <1>1, <1>2, <1>3 DEF IInv

LEMMA Invariance == Spec => []IInv
BY InvInit, InvStep, PTL DEF Spec

-----------------------------------------------------------------------------
(* Theorems *)

(* Every reachable state is well typed. *)
THEOREM TypeCorrect == Spec => []TypeOK
<1>1. IInv => TypeOK
  BY DEF IInv
<1>2. QED
  BY <1>1, Invariance, PTL

(* The slots of live and free IDs are always distinct and without gaps, so *)
(* list.len() is an unused slot whenever the free list is empty; it holds  *)
(* in builds whose generation counter wraps as well.                       *)
THEOREM SlotsAlwaysAccounted == Spec => []SlotAccounting
<1>1. IInv => SlotAccounting
  BY DEF IInv
<1>2. QED
  BY <1>1, Invariance, PTL

(* A counted reference always leads to a listed component, whatever the    *)
(* threads do concurrently.                                                *)
THEOREM HeldAlwaysListed == Spec => []HeldIsListed
<1>1. IInv => HeldIsListed
  BY DEF IInv
<1>2. QED
  BY <1>1, Invariance, PTL

(* The last release of a component is seen by exactly one thread. *)
THEOREM DroppedExactlyOnce == Spec => []DropExactlyOnce
<1>1. IInv => DropExactlyOnce
  BY DEF IInv
<1>2. QED
  BY <1>1, Invariance, PTL

-----------------------------------------------------------------------------
(* What receivers of the whole broadcast stream know *)

TrackInv == ObservedTracks /\ PatchesAnnounced

LEMMA TrackInit == Init => TrackInv
BY DEF Init, TrackInv, ObservedTracks, PatchesAnnounced, EmptyMap

LEMMA TrackStep ==
  ASSUME SerialPatches
  PROVE  IInv /\ TrackInv /\ [Next]_vars => TrackInv'
<1> SUFFICES ASSUME IInv, TrackInv, [Next]_vars PROVE TrackInv'
  OBVIOUS
<1> USE DEF IInv, TrackInv
<1>1. ASSUME NEW t \in Threads, NEW l \in Lists, NEW own \in BOOLEAN,
             NEW c \in Buildable(l, t), Create(t, l, c, own)
      PROVE  TrackInv'
  <2>1. PICK id \in ID : id = ProvisionID(l) /\ id \notin DOMAIN content
    BY <1>1, ProvisionedIsID, ProvisionedIsFresh DEF Create
  <2>2. /\ content' = Put(content, id, c)
        /\ observed' = Put(observed, id, c)
        /\ UNCHANGED patching
    BY <1>1, <2>1 DEF Create
  <2>3. \A t1 \in Threads : patching[t1] # NoPatch => patching[t1].id \in DOMAIN content
    BY DEF PatchersHold, HeldIsListed, Held, TypeOK, Patch
  <2>4. /\ DOMAIN content' = DOMAIN content \cup {id}
        /\ DOMAIN observed' = DOMAIN content \cup {id}
        /\ content'[id] = observed'[id]
        /\ \A h \in DOMAIN content :
             content'[h] = content[h] /\ observed'[h] = observed[h]
    BY <2>1, <2>2 DEF Put, ObservedTracks
  <2>5. PatchesAnnounced'
    BY <2>2, <2>3, <2>4 DEF PatchesAnnounced
  <2>6. ASSUME NEW h \in DOMAIN content', NEW g \in Fields,
               observed'[h][g] # content'[h][g]
        PROVE  \E u \in Threads : Announces(u, h, g, observed[h][g])'
    <3>1. h \in DOMAIN content
      BY <2>4, <2>6
    <3>2. PICK u \in Threads : Announces(u, h, g, observed[h][g])
      BY <2>4, <2>6, <3>1 DEF ObservedTracks
    <3>3. QED
      BY <2>2, <2>4, <3>1, <3>2 DEF Announces
  <2>7. ObservedTracks'
    BY <2>4, <2>6 DEF ObservedTracks
  <2>8. QED
    BY <2>5, <2>7
<1>2. ASSUME UNCHANGED <<content, observed, patching>>
      PROVE  TrackInv'
  BY <1>2 DEF ObservedTracks, PatchesAnnounced, Announces
<1>3. ASSUME NEW t \in Threads, NEW id \in handles[t], NEW v \in handles[t],
             NEW f \in Fields,
             PatchSend(t, [id |-> id, field |-> f, value |-> v])
      PROVE  TrackInv'
  <2> DEFINE p == [id |-> id, field |-> f, value |-> v]
  <2>1. p \in Patch /\ p.id = id /\ p.field = f /\ p.value = v /\ p # NoPatch
    BY PatchAssumption DEF TypeOK, Patch
  <2> HIDE DEF p
  <2>2. /\ observed' = [observed EXCEPT ![id][f] = v]
        /\ patching' = [patching EXCEPT ![t] = p]
        /\ UNCHANGED content
        /\ patching[t] = NoPatch
        /\ \A u \in Threads : patching[u] # NoPatch => patching[u].id # id
    BY <1>3, <2>1 DEF PatchSend, Idle, p
  <2>3. id \in DOMAIN content /\ id \in DOMAIN observed
    BY DEF HeldIsListed, Held, TypeOK, ObservedTracks
  <2>4. /\ DOMAIN observed' = DOMAIN content
        /\ \A h \in DOMAIN content : \A g \in Fields :
             observed'[h][g] = IF h = id /\ g = f THEN v ELSE observed[h][g]
    BY <2>2, <2>3 DEF TypeOK, Content, ObservedTracks
  <2>5. \A u \in Threads : patching'[u] = IF u = t THEN p ELSE patching[u]
    BY <2>2 DEF TypeOK
  <2>6. PatchesAnnounced'
    <3>1. ASSUME NEW u \in Threads, patching'[u] # NoPatch
          PROVE  /\ observed'[patching'[u].id][patching'[u].field] = patching'[u].value
                 /\ \A w \in Threads :
                      patching'[w] # NoPatch /\ patching'[w].id = patching'[u].id => w = u
      <4>1. CASE u = t
        BY <2>1, <2>2, <2>3, <2>4, <2>5, <4>1
      <4>2. CASE u # t
        <5>1. /\ patching'[u] = patching[u] /\ patching[u] \in Patch
              /\ patching[u].id # id
              /\ patching[u].id \in DOMAIN content
          BY <2>2, <2>5, <3>1, <4>2
          DEF TypeOK, PatchersHold, HeldIsListed, Held, Patch
        <5>2. QED
          BY <2>1, <2>4, <2>5, <3>1, <4>2, <5>1 DEF PatchesAnnounced, Patch
      <4>3. QED
        BY <4>1, <4>2
    <3>2. QED
      BY <3>1 DEF PatchesAnnounced
  <2>7. ObservedTracks'
    <3>1. ASSUME NEW h \in DOMAIN content, NEW g \in Fields,
                 observed'[h][g] # content[h][g]
          PROVE  \E u \in Threads : Announces(u, h, g, observed[h][g])'
      <4>1. CASE h = id /\ g = f
        BY <2>1, <2>4, <2>5, <4>1 DEF Announces
      <4>2. CASE ~ (h = id /\ g = f)
        <5>1. PICK u \in Threads : Announces(u, h, g, observed[h][g])
          BY <2>4, <3>1, <4>2 DEF ObservedTracks
        <5>2. QED
          BY <2>2, <2>4, <2>5, <4>2, <5>1 DEF Announces
      <4>3. QED
        BY <4>1, <4>2
    <3>2. QED
      BY <2>2, <2>4, <3>1 DEF ObservedTracks
  <2>8. QED
    BY <2>6, <2>7
<1>4. ASSUME NEW t \in Threads, PatchApply(t)
      PROVE  TrackInv'
  <2>1. PICK p \in Patch :
          /\ p = patching[t] /\ p # NoPatch /\ p.id \in DOMAIN content
          /\ observed[p.id][p.field] = p.value
          /\ \A u \in Threads :
               patching[u] # NoPatch /\ patching[u].id = p.id => u = t
    BY <1>4 DEF PatchApply, TypeOK, PatchersHold, HeldIsListed, Held, Patch,
                PatchesAnnounced
  <2>2. /\ content' = [content EXCEPT ![p.id][p.field] = p.value]
        /\ patching' = [patching EXCEPT ![t] = NoPatch]
        /\ UNCHANGED observed
    BY <1>4, <2>1 DEF PatchApply
  <2>3. /\ DOMAIN content' = DOMAIN content
        /\ \A h \in DOMAIN content : \A g \in Fields :
             content'[h][g] = IF h = p.id /\ g = p.field THEN p.value ELSE content[h][g]
    BY <2>1, <2>2 DEF TypeOK, Content
  <2>4. \A u \in Threads : patching'[u] = IF u = t THEN NoPatch ELSE patching[u]
    BY <2>2 DEF TypeOK
  <2>5. PatchesAnnounced'
    BY <2>2, <2>4 DEF PatchesAnnounced
  <2>6. ASSUME NEW h \in DOMAIN content, NEW g \in Fields,
               observed[h][g] # content'[h][g]
        PROVE  \E u \in Threads : Announces(u, h, g, observed[h][g])'
    <3>1. ~ (h = p.id /\ g = p.field)
      BY <2>1, <2>3, <2>6
    <3>2. PICK u \in Threads : Announces(u, h, g, observed[h][g])
      BY <2>3, <2>6, <3>1 DEF ObservedTracks
    <3>3. u # t
      BY <2>1, <3>1, <3>2 DEF Announces
    <3>4. QED
      BY <2>2, <2>4, <3>2, <3>3 DEF Announces
  <2>7. ObservedTracks'
    BY <2>2, <2>3, <2>6 DEF ObservedTracks
  <2>8. QED
    BY <2>5, <2>7
<1>5. ASSUME NEW t \in Threads, ReturnID(t)
      PROVE  TrackInv'
  <2>1. PICK id \in ID :
          id = dying[t] /\ id \in DOMAIN content /\ ~ Held(id)
    BY <1>5 DEF ReturnID, DropExactlyOnce, TypeOK
  <2>2. /\ content' = Without(content, id)
        /\ observed' = Without(observed, id)
        /\ UNCHANGED patching
    BY <1>5, <2>1 DEF ReturnID
  <2>3. \A u \in Threads : patching[u] # NoPatch =>
          patching[u].id \in DOMAIN content /\ patching[u].id # id
    BY <2>1 DEF PatchersHold, HeldIsListed, Held, TypeOK, Patch
  <2>4. QED
    BY <2>1, <2>2, <2>3 DEF Without, ObservedTracks, PatchesAnnounced, Announces
<1>6. ASSUME NEW t \in Threads, NEW x, NEW y,
             \/ OwnComponent(t, x) \/ Resolve(t, x) \/ DropHandle(t, x)
             \/ Release(t, x) \/ UnlockMutate(t, x)
      PROVE  UNCHANGED <<content, observed, patching>>
  BY <1>6 DEF OwnComponent, Resolve, DropHandle, Release, UnlockMutate
<1>7. UNCHANGED vars => UNCHANGED <<content, observed, patching>>
  BY DEF vars
<1>8. QED
  BY <1>1, <1>2, <1>3, <1>4, <1>5, <1>6, <1>7 DEF Next, Call, Inside

LEMMA TrackResolves == IInv /\ TrackInv => ObservedResolves
<1> SUFFICES ASSUME IInv, TrackInv,
                    NEW id \in DOMAIN observed, NEW f \in Fields,
                    observed[id][f] # NoRef
             PROVE  observed[id][f] \in DOMAIN observed
  BY DEF ObservedResolves
<1> USE DEF IInv, TrackInv
<1>1. DOMAIN observed = DOMAIN content /\ observed[id][f] \in ID
  BY DEF ObservedTracks, TypeOK, Content
<1>2. CASE observed[id][f] = content[id][f]
  BY <1>1, <1>2 DEF HeldIsListed, Held
<1>3. CASE observed[id][f] # content[id][f]
  <2>1. PICK t \in Threads : Announces(t, id, f, observed[id][f])
    BY <1>1, <1>3 DEF ObservedTracks
  <2>2. observed[id][f] \in handles[t]
    BY <2>1 DEF Announces, PatchersHold
  <2>3. QED
    BY <1>1, <2>2 DEF HeldIsListed, Held
<1>4. QED
  BY <1>2, <1>3

(* When callers do not patch one component concurrently, receivers of the  *)
(* whole stream agree with the server up to the update under way.          *)
THEOREM ReceiversTrack ==
  ASSUME SerialPatches
  PROVE  Spec => []ObservedTracks
<1>1. IInv /\ TrackInv /\ [Next]_vars => TrackInv'
  BY TrackStep
<1>2. TrackInv => ObservedTracks
  BY DEF TrackInv
<1>3. QED
  BY <1>1, <1>2, TrackInit, Invariance, PTL DEF Spec

(* Under the same condition they never hold a reference that leads nowhere.*)
THEOREM ReceiversResolve ==
  ASSUME SerialPatches
  PROVE  Spec => []ObservedResolves
<1>1. IInv /\ TrackInv /\ [Next]_vars => TrackInv'
  BY TrackStep
<1>2. QED
  BY <1>1, TrackResolves, TrackInit, Invariance, PTL DEF Spec
-----------------------------------------------------------------------------
(* The lists implement the registry *)

LEMMA SmallRemainder ==
  ASSUME NEW a \in Nat, NEW b \in Nat, a < b
  PROVE  a % b = a
OBVIOUS

(* A recycled ID is the next generation of the one on top of the free list.*)
LEMMA RecycledIsYounger ==
  ASSUME OverflowChecks, IInv, NEW l \in Lists, CanProvision(l),
         free[l] # <<>>
  PROVE  /\ Len(free[l]) \in Nat \ {0}
         /\ free[l][Len(free[l])] \in ID
         /\ ProvisionID(l).slot = free[l][Len(free[l])].slot
         /\ ProvisionID(l).gen = free[l][Len(free[l])].gen + 1
         /\ Len(FreeAfterProvision(l)) = Len(free[l]) - 1
         /\ \A i \in 1 .. Len(free[l]) - 1 :
              FreeAfterProvision(l)[i] = free[l][i]
<1> DEFINE n == Len(free[l])
           old == free[l][n]
<1>1. free[l] \in Seq(ID)
  BY DEF IInv, TypeOK
<1>2. /\ n \in Nat \ {0} /\ old \in ID
      /\ Len(FreeAfterProvision(l)) = n - 1
      /\ \A i \in 1 .. n - 1 : FreeAfterProvision(l)[i] = free[l][i]
  BY <1>1, PopProperties DEF FreeAfterProvision
<1>3. ProvisionID(l) = [old EXCEPT !.gen = (old.gen + 1) % GenLimit]
  BY DEF ProvisionID, NextGeneration
<1>4. old.gen \in Nat /\ old.gen + 1 < GenLimit
  BY <1>2 DEF CanProvision, ID
<1> HIDE DEF old
<1>5. (old.gen + 1) % GenLimit = old.gen + 1
  BY <1>4, SmallRemainder, ListsAssumption
<1>6. ProvisionID(l).slot = old.slot /\ ProvisionID(l).gen = old.gen + 1
  BY <1>2, <1>3, <1>5 DEF ID
<1>7. QED
  BY <1>2, <1>6 DEF old

(* An ID that provision_id() hands out was never handed out before. *)
LEMMA ProvisionedIsNew ==
  ASSUME OverflowChecks, IInv, IssuedCovered, NEW l \in Lists, CanProvision(l)
  PROVE  ProvisionID(l) \notin issued
<1> USE DEF IInv
<1>1. SUFFICES ASSUME ProvisionID(l) \in issued PROVE FALSE
  OBVIOUS
<1>2. PICK x \in ID : x = ProvisionID(l) /\ x.list = l /\ x \in issued
  BY <1>1, ProvisionedIsID
<1>3. \A y \in Live(l) : y.slot # x.slot
  BY <1>2, ProvisionedIsFresh
<1>4. PICK i \in 1 .. Len(free[l]) :
        free[l][i].slot = x.slot /\ x.gen <= free[l][i].gen
  BY <1>2, <1>3 DEF IssuedCovered
<1>5. free[l] # <<>>
  <2>1. Len(<<>>) = 0
    OBVIOUS
  <2>2. QED
    BY <1>4, <2>1
<1>6. /\ Len(free[l]) \in Nat \ {0}
      /\ free[l][Len(free[l])] \in ID
      /\ x.slot = free[l][Len(free[l])].slot
      /\ x.gen = free[l][Len(free[l])].gen + 1
  BY <1>2, <1>5, RecycledIsYounger
<1>7. i = Len(free[l])
  BY <1>4, <1>6 DEF SlotAccounting, SlotsAccounted
<1>8. QED
  BY <1>4, <1>6, <1>7 DEF ID

LEMMA IssuedInit == Init => IssuedCovered
BY DEF Init, IssuedCovered

(* Creation moves the cover of a recycled ID from the free list to the new *)
(* component, deletion moves it back.                                      *)
LEMMA IssuedStep ==
  ASSUME OverflowChecks
  PROVE  IInv /\ IssuedCovered /\ [Next]_vars => IssuedCovered'
<1> SUFFICES ASSUME IInv, IssuedCovered, [Next]_vars PROVE IssuedCovered'
  OBVIOUS
<1> USE DEF IInv
<1>1. ASSUME NEW t \in Threads, NEW l \in Lists, NEW own \in BOOLEAN,
             NEW c \in Buildable(l, t), Create(t, l, c, own)
      PROVE  IssuedCovered'
  <2>1. PICK id \in ID : id = ProvisionID(l) /\ id.list = l
    BY <1>1, ProvisionedIsID DEF Create
  <2>2. /\ DOMAIN content' = DOMAIN content \cup {id}
        /\ issued' = issued \cup {id}
        /\ \A k \in Lists :
             free'[k] = IF k = l THEN FreeAfterProvision(l) ELSE free[k]
        /\ CanProvision(l)
    BY <1>1, <2>1 DEF Create, Put, TypeOK
  <2>3. ASSUME NEW x \in issued'
        PROVE  \/ \E y \in Live(x.list)' : y.slot = x.slot /\ x.gen <= y.gen
               \/ \E i \in 1 .. Len(free'[x.list]) :
                    free'[x.list][i].slot = x.slot
                    /\ x.gen <= free'[x.list][i].gen
    <3>1. x \in ID /\ x.list \in Lists /\ x.gen \in Nat
      BY <2>2 DEF TypeOK, ID
    <3>2. CASE x = id
      BY <2>1, <2>2, <3>1, <3>2 DEF Live
    <3>3. CASE \E y \in Live(x.list) : y.slot = x.slot /\ x.gen <= y.gen
      BY <2>2, <3>3 DEF Live
    <3>4. ASSUME NEW i \in 1 .. Len(free[x.list]),
                 free[x.list][i].slot = x.slot, x.gen <= free[x.list][i].gen
          PROVE  \/ \E y \in Live(x.list)' : y.slot = x.slot /\ x.gen <= y.gen
                 \/ \E j \in 1 .. Len(free'[x.list]) :
                      free'[x.list][j].slot = x.slot
                      /\ x.gen <= free'[x.list][j].gen
      <4>1. CASE x.list # l
        BY <2>2, <3>1, <3>4, <4>1
      <4>2. CASE x.list = l
        <5>1. free[l] # <<>>
          <6>1. Len(<<>>) = 0
            OBVIOUS
          <6>2. QED
            BY <3>4, <4>2, <6>1
        <5>2. /\ Len(free[l]) \in Nat \ {0}
              /\ free[l][Len(free[l])] \in ID
              /\ id.slot = free[l][Len(free[l])].slot
              /\ id.gen = free[l][Len(free[l])].gen + 1
              /\ Len(FreeAfterProvision(l)) = Len(free[l]) - 1
              /\ \A j \in 1 .. Len(free[l]) - 1 :
                   FreeAfterProvision(l)[j] = free[l][j]
          BY <2>1, <2>2, <5>1, RecycledIsYounger
        <5>3. CASE i = Len(free[l])
          <6>1. id \in Live(l)'
            BY <2>1, <2>2 DEF Live
          <6>2. id.slot = x.slot /\ x.gen <= id.gen
            BY <3>1, <3>4, <4>2, <5>2, <5>3 DEF ID
          <6>3. QED
            BY <4>2, <6>1, <6>2
        <5>4. CASE i # Len(free[l])
          <6>1. i \in 1 .. Len(free[l]) - 1
            BY <3>4, <4>2, <5>2, <5>4
          <6>2. QED
            BY <2>2, <3>4, <4>2, <5>2, <6>1
        <5>5. QED
          BY <5>3, <5>4
      <4>3. QED
        BY <4>1, <4>2
    <3>5. QED
      BY <2>2, <3>2, <3>3, <3>4 DEF IssuedCovered
  <2>4. QED
    BY <2>3 DEF IssuedCovered
<1>2. ASSUME NEW t \in Threads, ReturnID(t)
      PROVE  IssuedCovered'
  <2>1. PICK id \in ID : id = dying[t] /\ id.list \in Lists
    BY <1>2 DEF ReturnID, TypeOK, ID
  <2>2. /\ DOMAIN content' = DOMAIN content \ {id}
        /\ issued' = issued
        /\ \A k \in Lists :
             free'[k] = IF k = id.list THEN Append(free[k], id) ELSE free[k]
    BY <1>2, <2>1 DEF ReturnID, Without, TypeOK
  <2>3. ASSUME NEW k \in Lists
        PROVE  /\ Len(free[k]) \in Nat
               /\ Len(free[k]) <= Len(free'[k])
               /\ \A i \in 1 .. Len(free[k]) : free'[k][i] = free[k][i]
               /\ k = id.list =>
                    \E i \in 1 .. Len(free'[k]) : free'[k][i] = id
    <3>1. free[k] \in Seq(ID)
      BY DEF TypeOK
    <3>2. /\ Len(Append(free[k], id)) = Len(free[k]) + 1
          /\ \A i \in 1 .. Len(free[k]) : Append(free[k], id)[i] = free[k][i]
          /\ Append(free[k], id)[Len(free[k]) + 1] = id
          /\ Len(free[k]) \in Nat
      BY <3>1, AppendProperties, LenProperties
    <3>3. CASE k = id.list
      <4>1. Len(free[k]) + 1 \in 1 .. Len(free[k]) + 1
        BY <3>2
      <4>2. free'[k] = Append(free[k], id)
        BY <2>2, <3>3
      <4>3. \E i \in 1 .. Len(free'[k]) : free'[k][i] = id
        BY <3>2, <4>1, <4>2
      <4>4. \A i \in 1 .. Len(free[k]) : free'[k][i] = free[k][i]
        BY <3>2, <4>2
      <4>5. Len(free[k]) <= Len(free'[k])
        BY <3>2, <4>2
      <4>6. QED
        BY <3>2, <4>3, <4>4, <4>5
    <3>4. CASE k # id.list
      BY <2>2, <3>2, <3>4
    <3>5. QED
      BY <3>3, <3>4
  <2>4. ASSUME NEW x \in issued
        PROVE  \/ \E y \in Live(x.list)' : y.slot = x.slot /\ x.gen <= y.gen
               \/ \E i \in 1 .. Len(free'[x.list]) :
                    free'[x.list][i].slot = x.slot
                    /\ x.gen <= free'[x.list][i].gen
    <3>1. x.list \in Lists
      BY DEF TypeOK, ID
    <3>2. CASE \E y \in Live(x.list) : y.slot = x.slot /\ x.gen <= y.gen
      <4>1. PICK y \in Live(x.list) : y.slot = x.slot /\ x.gen <= y.gen
        BY <3>2
      <4>2. CASE y = id
        BY <2>3, <3>1, <4>1, <4>2 DEF Live
      <4>3. CASE y # id
        BY <2>2, <4>1, <4>3 DEF Live
      <4>4. QED
        BY <4>2, <4>3
    <3>3. ASSUME NEW i \in 1 .. Len(free[x.list]),
                 free[x.list][i].slot = x.slot, x.gen <= free[x.list][i].gen
          PROVE  \E j \in 1 .. Len(free'[x.list]) :
                   free'[x.list][j].slot = x.slot
                   /\ x.gen <= free'[x.list][j].gen
      <4>1. i \in 1 .. Len(free'[x.list]) /\ free'[x.list][i] = free[x.list][i]
        BY <2>3, <3>1, <3>3
      <4>2. QED
        BY <3>3, <4>1
    <3>4. QED
      BY <3>2, <3>3 DEF IssuedCovered
  <2>5. QED
    BY <2>2, <2>4 DEF IssuedCovered
<1>3. ASSUME DOMAIN content' = DOMAIN content, UNCHANGED <<free, issued>>
      PROVE  IssuedCovered'
  BY <1>3 DEF IssuedCovered, Live
<1>4. ASSUME NEW t \in Threads, PatchApply(t)
      PROVE  DOMAIN content' = DOMAIN content /\ UNCHANGED <<free, issued>>
  BY <1>4, HeldAfterPatch DEF PatchApply
<1>5. ASSUME NEW t \in Threads, NEW x, NEW y,
             \/ OwnComponent(t, x) \/ Resolve(t, x) \/ DropHandle(t, x)
             \/ PatchSend(t, x) \/ Release(t, x) \/ UnlockMutate(t, x)
      PROVE  DOMAIN content' = DOMAIN content /\ UNCHANGED <<free, issued>>
  BY <1>5 DEF OwnComponent, Resolve, DropHandle, PatchSend, Release,
              UnlockMutate
<1>6. UNCHANGED vars =>
        DOMAIN content' = DOMAIN content /\ UNCHANGED <<free, issued>>
  BY DEF vars
<1>7. QED
  BY <1>1, <1>2, <1>3, <1>4, <1>5, <1>6 DEF Next, Call, Inside

(* Every step of the lists issues an ID, retires one, or does neither. *)
LEMMA RegistryStep ==
  ASSUME OverflowChecks
  PROVE  IInv /\ IssuedCovered /\ [Next]_vars
           => [Registry!Next]_(Registry!vars)
<1> SUFFICES ASSUME IInv, IssuedCovered, [Next]_vars
             PROVE  [Registry!Next]_(Registry!vars)
  OBVIOUS
<1> USE DEF IInv
<1>1. ASSUME NEW t \in Threads, NEW l \in Lists, NEW own \in BOOLEAN,
             NEW c \in Buildable(l, t), Create(t, l, c, own)
      PROVE  Registry!Next
  <2>1. PICK id \in ID : id = ProvisionID(l) /\ id.list = l
    BY <1>1, ProvisionedIsID DEF Create
  <2>2. /\ DOMAIN content' = DOMAIN content \cup {id}
        /\ issued' = issued \cup {id}
        /\ CanProvision(l)
    BY <1>1, <2>1 DEF Create, Put
  <2>3. id \notin issued
    BY <2>1, <2>2, ProvisionedIsNew
  <2>4. \A a \in Live(l) : a.slot # id.slot
    BY <2>1, <2>2, ProvisionedIsFresh
  <2>5. \A a \in DOMAIN content : ~ Registry!SameSlot(id, a)
    BY <2>1, <2>4 DEF Registry!SameSlot, Live
  <2>6. Registry!Issue(id)
    BY <2>2, <2>3, <2>5 DEF Registry!Issue
  <2>7. QED
    BY <2>6 DEF Registry!Next
<1>2. ASSUME NEW t \in Threads, ReturnID(t)
      PROVE  Registry!Next
  <2>1. PICK id \in DOMAIN content : id = dying[t]
    BY <1>2 DEF ReturnID, DropExactlyOnce
  <2>2. DOMAIN content' = DOMAIN content \ {id} /\ issued' = issued
    BY <1>2, <2>1 DEF ReturnID, Without
  <2>3. QED
    BY <2>1, <2>2 DEF Registry!Next, Registry!Retire
<1>3. ASSUME NEW t \in Threads, PatchApply(t)
      PROVE  UNCHANGED <<DOMAIN content, issued>>
  BY <1>3, HeldAfterPatch DEF PatchApply
<1>4. ASSUME NEW t \in Threads, NEW x, NEW y,
             \/ OwnComponent(t, x) \/ Resolve(t, x) \/ DropHandle(t, x)
             \/ PatchSend(t, x) \/ Release(t, x) \/ UnlockMutate(t, x)
      PROVE  UNCHANGED <<DOMAIN content, issued>>
  BY <1>4 DEF OwnComponent, Resolve, DropHandle, PatchSend, Release,
              UnlockMutate
<1>5. UNCHANGED vars => UNCHANGED <<DOMAIN content, issued>>
  BY DEF vars
<1>6. UNCHANGED <<DOMAIN content, issued>> => UNCHANGED Registry!vars
  BY DEF Registry!vars
<1>7. QED
  BY <1>1, <1>2, <1>3, <1>4, <1>5, <1>6 DEF Next, Call, Inside

(* In a build whose generation counter cannot wrap unnoticed, the component*)
(* lists implement the registry: an ID that was issued is never issued     *)
(* again, and live components of a list have distinct slots, for every     *)
(* number of threads and every interleaving of create, patch and drop.     *)
THEOREM ListsImplementRegistry ==
  ASSUME OverflowChecks
  PROVE  Spec => RegistrySpec
<1>1. Init => Registry!Init
  BY DEF Init, EmptyMap, Registry!Init
<1>2. IInv /\ IssuedCovered /\ [Next]_vars => IssuedCovered'
  BY IssuedStep
<1>3. IInv /\ IssuedCovered /\ [Next]_vars => [Registry!Next]_(Registry!vars)
  BY RegistryStep
<1>4. QED
  BY <1>1, <1>2, <1>3, IssuedInit, Invariance, PTL
  DEF Spec, RegistrySpec, Registry!Spec
-----------------------------------------------------------------------------
(* Threads that wait for mutexes *)

(* Ranks of the lists by which references lead down, or to the same list.  *)
Ranked(rank) ==
  /\ rank \in [Lists -> Nat]
  /\ \A f \in Fields : Target[f] = Owner[f] \/ rank[Target[f]] < rank[Owner[f]]

AtMost(rank, k, l) == (k = l /\ RefersToItself(l)) \/ rank[k] < rank[l]

(* References lead from the list that has their field to the one it        *)
(* refers to.                                                              *)
FieldsLead ==
  /\ \A id \in DOMAIN content : \A f \in Fields :
       content[id][f] # NoRef =>
         id.list = Owner[f] /\ content[id][f].list = Target[f]
  /\ \A t \in Threads : patching[t] # NoPatch =>
       /\ patching[t].id.list = Owner[patching[t].field]
       /\ patching[t].value.list = Target[patching[t].field]

(* A thread that holds the mutex of l is dropping what was referred to     *)
(* from l, and what that refers to.                                        *)
LockOrder(rank) ==
  \A t \in Threads, l \in Lists : lock[l] = t =>
    /\ patching[t] = NoPatch
    /\ \A r \in loose[t] : AtMost(rank, r.ref.list, l)
    /\ dying[t] # NoRef => AtMost(rank, dying[t].list, l)

(* What a field of a component in a list at most l refers to is at most l. *)
LEMMA FieldsGoDown ==
  ASSUME NEW rank, Ranked(rank), NEW f \in Fields, NEW l \in Lists,
         AtMost(rank, Owner[f], l)
  PROVE  AtMost(rank, Target[f], l)
<1>1. /\ Owner[f] \in Lists /\ Target[f] \in Lists
      /\ rank[Owner[f]] \in Nat /\ rank[Target[f]] \in Nat /\ rank[l] \in Nat
  BY ListsAssumption DEF Ranked
<1>2. CASE Target[f] = Owner[f]
  BY <1>2
<1>3. CASE rank[Target[f]] < rank[Owner[f]]
  BY <1>1, <1>3 DEF AtMost
<1> QED
  BY <1>2, <1>3 DEF Ranked

(* A step that leaves mutexes, patches and what is dropped alone. *)
LEMMA OrderKept ==
  ASSUME NEW rank, LockOrder(rank), UNCHANGED <<lock, patching, loose, dying>>
  PROVE  LockOrder(rank)'
BY DEF LockOrder

LEMMA OrderStep ==
  ASSUME NEW rank, Ranked(rank), IInv, FieldsLead, LockOrder(rank), [Next]_vars
  PROVE  FieldsLead' /\ LockOrder(rank)'
<1> USE DEF IInv
<1>1. ASSUME NEW t \in Threads, NEW l \in Lists, NEW own \in BOOLEAN,
             NEW c \in Buildable(l, t), Create(t, l, c, own)
      PROVE  FieldsLead' /\ LockOrder(rank)'
  <2>1. PICK id \in ID : id = ProvisionID(l) /\ id.list = l
    BY <1>1, ProvisionedIsID DEF Create
  <2>2. /\ content' = Put(content, id, c)
        /\ UNCHANGED <<lock, patching, loose, dying>>
    BY <1>1, <2>1 DEF Create
  <2>3. \A f \in Fields : c[f] # NoRef => l = Owner[f] /\ c[f].list = Target[f]
    BY DEF Buildable
  <2>4. /\ DOMAIN content' = DOMAIN content \cup {id}
        /\ content'[id] = c
        /\ \A h \in DOMAIN content : h # id => content'[h] = content[h]
    BY <2>2 DEF Put
  <2>5. FieldsLead'
    BY <2>1, <2>2, <2>3, <2>4 DEF FieldsLead
  <2> QED
    BY <2>2, <2>5, OrderKept
<1>2. ASSUME NEW t \in Threads, NEW id, OwnComponent(t, id) \/ Resolve(t, id)
      PROVE  FieldsLead' /\ LockOrder(rank)'
  <2>1. UNCHANGED <<content, lock, patching, loose, dying>>
    BY <1>2 DEF OwnComponent, Resolve
  <2>2. FieldsLead'
    BY <2>1 DEF FieldsLead
  <2> QED
    BY <2>1, <2>2, OrderKept
<1>3. ASSUME NEW t \in Threads, NEW id \in handles[t], DropHandle(t, id)
      PROVE  FieldsLead' /\ LockOrder(rank)'
  <2>1. /\ UNCHANGED <<content, lock, patching, loose>>
        /\ \A l \in Lists : lock[l] # t
        /\ \A u \in Threads : u # t => dying'[u] = dying[u]
    BY <1>3 DEF DropHandle, Idle, TypeOK
  <2>2. FieldsLead'
    BY <2>1 DEF FieldsLead
  <2>3. LockOrder(rank)'
    BY <2>1 DEF LockOrder
  <2> QED
    BY <2>2, <2>3
<1>4. ASSUME NEW t \in Threads, NEW p, PatchSend(t, p)
      PROVE  FieldsLead' /\ LockOrder(rank)'
  <2>1. /\ UNCHANGED <<content, lock, loose, dying>>
        /\ \A l \in Lists : lock[l] # t
        /\ patching' = [patching EXCEPT ![t] = p]
        /\ Owner[p.field] = p.id.list /\ Target[p.field] = p.value.list
    BY <1>4 DEF PatchSend, Idle
  <2>2. /\ patching'[t] = p
        /\ \A u \in Threads : u # t => patching'[u] = patching[u]
    BY <2>1 DEF TypeOK
  <2>3. FieldsLead'
    BY <2>1, <2>2 DEF FieldsLead
  <2>4. LockOrder(rank)'
    BY <2>1, <2>2 DEF LockOrder
  <2> QED
    BY <2>3, <2>4
<1>5. ASSUME NEW t \in Threads, PatchApply(t)
      PROVE  FieldsLead' /\ LockOrder(rank)'
  <2> DEFINE p == patching[t]
             old == content[p.id][p.field]
             r == [holder |-> p.id, field |-> p.field, ref |-> old]
  <2>1. /\ p # NoPatch /\ p \in Patch /\ p.id \in DOMAIN content
        /\ loose[t] = {} /\ dying[t] = NoRef
    <3>1. p # NoPatch /\ p \in Patch
      BY <1>5 DEF PatchApply, TypeOK
    <3>2. p.id \in ID /\ p.id \in handles[t] /\ loose[t] = {} /\ dying[t] = NoRef
      BY <3>1 DEF PatchersHold, Patch
    <3> QED
      BY <3>1, <3>2 DEF HeldIsListed, Held
  <2>2. /\ p.field \in Fields /\ content[p.id] \in Content
        /\ p.id.list = Owner[p.field] /\ p.value.list = Target[p.field]
    BY <2>1 DEF Patch, FieldsLead, TypeOK
  <2>3. /\ content' = [content EXCEPT ![p.id][p.field] = p.value]
        /\ patching' = [patching EXCEPT ![t] = NoPatch]
        /\ dying' = dying
        /\ old = NoRef => UNCHANGED <<lock, loose>>
        /\ old # NoRef =>
             /\ lock' = [lock EXCEPT ![p.id.list] = t]
             /\ loose' = [loose EXCEPT ![t] = @ \cup {r}]
    BY <1>5 DEF PatchApply
  <2>4. /\ DOMAIN content' = DOMAIN content
        /\ \A id \in DOMAIN content : \A f \in Fields :
             content'[id][f] = IF id = p.id /\ f = p.field THEN p.value
                               ELSE content[id][f]
    <3>1. \A id \in DOMAIN content : content[id] \in Content
      BY DEF TypeOK
    <3> QED
      BY <2>1, <2>2, <2>3, <3>1 DEF Content
  <2>5. FieldsLead'
    <3>1. \A u \in Threads : patching'[u] # NoPatch => patching'[u] = patching[u]
      BY <2>3 DEF TypeOK
    <3> HIDE DEF p, old
    <3> QED
      BY <2>2, <2>4, <3>1 DEF FieldsLead
  <2>6. \A l \in Lists : lock[l] # t
    BY <2>1 DEF LockOrder
  <2>7. patching'[t] = NoPatch /\ \A u \in Threads : u # t => patching'[u] = patching[u]
    BY <2>3 DEF TypeOK
  <2>8. CASE old = NoRef
    BY <2>3, <2>5, <2>6, <2>7, <2>8 DEF LockOrder
  <2>9. CASE old # NoRef
    <3>1. old.list = Target[p.field]
      BY <2>1, <2>2, <2>9 DEF FieldsLead
    <3>2. AtMost(rank, old.list, p.id.list)
      BY <2>2, <3>1 DEF AtMost, Ranked, RefersToItself
    <3>3. loose'[t] = {r} /\ \A u \in Threads : u # t => loose'[u] = loose[u]
      BY <2>1, <2>3, <2>9 DEF TypeOK
    <3>4. \A l \in Lists : lock'[l] = IF l = p.id.list THEN t ELSE lock[l]
      BY <2>3, <2>9 DEF TypeOK
    <3>5. r.ref = old /\ dying'[t] = NoRef
      BY <2>1, <2>3
    <3> HIDE DEF p, old, r
    <3> QED
      BY <2>3, <2>5, <2>6, <2>7, <3>2, <3>3, <3>4, <3>5 DEF LockOrder
  <2> QED
    BY <2>5, <2>8, <2>9
<1>6. ASSUME NEW t \in Threads, NEW r \in loose[t], Release(t, r)
      PROVE  FieldsLead' /\ LockOrder(rank)'
  <2>1. /\ UNCHANGED <<content, lock, patching>>
        /\ loose' = [loose EXCEPT ![t] = @ \ {r}]
        /\ dying' = dying \/ dying' = [dying EXCEPT ![t] = r.ref]
    BY <1>6 DEF Release
  <2>2. /\ loose'[t] \subseteq loose[t]
        /\ dying'[t] = dying[t] \/ dying'[t] = r.ref
        /\ \A u \in Threads : u # t => loose'[u] = loose[u] /\ dying'[u] = dying[u]
    BY <2>1 DEF TypeOK
  <2>3. FieldsLead'
    BY <2>1 DEF FieldsLead
  <2>4. LockOrder(rank)'
    BY <2>1, <2>2 DEF LockOrder
  <2> QED
    BY <2>3, <2>4
<1>7. ASSUME NEW t \in Threads, ReturnID(t)
      PROVE  FieldsLead' /\ LockOrder(rank)'
  <2>1. PICK id \in DOMAIN content : id = dying[t]
    BY <1>7 DEF ReturnID, DropExactlyOnce
  <2> DEFINE moved == {[holder |-> id, field |-> f, ref |-> content[id][f]] :
                         f \in {g \in Fields : content[id][g] # NoRef}}
  <2>2. /\ content' = Without(content, id)
        /\ loose' = [loose EXCEPT ![t] = @ \cup moved]
        /\ dying' = [dying EXCEPT ![t] = NoRef]
        /\ UNCHANGED <<lock, patching>>
    BY <1>7, <2>1 DEF ReturnID
  <2>3. FieldsLead'
    BY <2>2 DEF FieldsLead, Without
  <2>4. dying[t] # NoRef
    BY <1>7 DEF ReturnID
  <2>5. ASSUME NEW l \in Lists, lock[l] = t, NEW r \in moved
        PROVE  AtMost(rank, r.ref.list, l)
    <3>1. PICK f \in Fields : content[id][f] # NoRef /\ r.ref = content[id][f]
      OBVIOUS
    <3>2. id.list = Owner[f] /\ r.ref.list = Target[f]
      BY <3>1 DEF FieldsLead
    <3>3. AtMost(rank, Owner[f], l)
      BY <2>1, <2>4, <2>5, <3>2 DEF LockOrder
    <3> QED
      BY <3>2, <3>3, FieldsGoDown
  <2>6. /\ loose'[t] = loose[t] \cup moved /\ dying'[t] = NoRef
        /\ \A u \in Threads : u # t => loose'[u] = loose[u] /\ dying'[u] = dying[u]
    BY <2>2 DEF TypeOK
  <2> HIDE DEF moved
  <2>7. LockOrder(rank)'
    BY <2>2, <2>5, <2>6 DEF LockOrder
  <2> QED
    BY <2>3, <2>7
<1>8. ASSUME NEW t \in Threads, NEW l \in Lists, UnlockMutate(t, l)
      PROVE  FieldsLead' /\ LockOrder(rank)'
  <2>1. /\ UNCHANGED <<content, patching, loose, dying>>
        /\ lock' = [lock EXCEPT ![l] = NoThread]
    BY <1>8 DEF UnlockMutate
  <2>2. \A u \in Threads, k \in Lists : lock'[k] = u => lock[k] = u
    BY <2>1, ListsAssumption DEF TypeOK
  <2>3. FieldsLead'
    BY <2>1 DEF FieldsLead
  <2>4. LockOrder(rank)'
    BY <2>1, <2>2 DEF LockOrder
  <2> QED
    BY <2>3, <2>4
<1>9. CASE UNCHANGED vars
  <2>1. UNCHANGED <<content, lock, patching, loose, dying>>
    BY <1>9 DEF vars
  <2>2. FieldsLead'
    BY <2>1 DEF FieldsLead
  <2> QED
    BY <2>1, <2>2, OrderKept
<1> QED
  BY <1>1, <1>2, <1>3, <1>4, <1>5, <1>6, <1>7, <1>8, <1>9 DEF Next, Call, Inside

(* Of some numbers one is least. *)
LEMMA LeastOf ==
  ASSUME NEW S \in SUBSET Nat, S # {}
  PROVE  \E m \in S : \A k \in S : ~ (k < m)
<1>1. PICK m \in S : \A k \in S : <<k, m>> \notin OpToRel(<, Nat)
  BY WFMin, NatLessThanWellFounded, Zenon
<1>2. \A k \in S : ~ (k < m)
  BY <1>1, Zenon DEF OpToRel
<1> QED
  BY <1>2

(* The holder of the lowest mutex that is held waits for nobody else. *)
LEMMA OrderSuffices ==
  ASSUME NEW rank, Ranked(rank), IInv, LockOrder(rank)
  PROVE  NoCircularWait
<1>1. SUFFICES ASSUME NEW t \in Threads, ~ Idle(t)
               PROVE  \/ \E u \in Threads : ~ Idle(u) /\ ~ Blocked(u)
                      \/ \E u \in Threads : /\ dying[u] # NoRef
                                            /\ lock[dying[u].list] = u
                                            /\ RefersToItself(dying[u].list)
  BY DEF NoCircularWait
<1> DEFINE S == {rank[l] : l \in {k \in Lists : lock[k] # NoThread}}
<1>2. CASE S = {}
  <2>1. \A l \in Lists : lock[l] = NoThread
    BY <1>2
  <2>2. ~ Blocked(t)
    BY <2>1 DEF Blocked
  <2> QED
    BY <1>1, <2>2
<1>3. CASE S # {}
  <2>1. S \in SUBSET Nat
    BY DEF Ranked
  <2> HIDE DEF S
  <2>2. PICK m \in S : \A k \in S : ~ (k < m)
    BY <1>3, <2>1, LeastOf
  <2>3. PICK l \in Lists : m = rank[l] /\ lock[l] # NoThread
    BY DEF S
  <2>4. PICK u \in Threads : lock[l] = u
    BY <2>3 DEF IInv, TypeOK
  <2>5. ~ Idle(u)
    BY <2>4 DEF Idle
  <2>6. CASE Blocked(u)
    <3>1. PICK k \in Lists : Needs(u, k) /\ lock[k] # NoThread
      BY <2>6 DEF Blocked
    <3>2. dying[u] # NoRef /\ dying[u].list = k
      BY <2>4, <3>1 DEF LockOrder, Needs
    <3>3. AtMost(rank, k, l)
      BY <2>4, <3>2 DEF LockOrder
    <3>4. ~ (rank[k] < rank[l])
      BY <2>2, <2>3, <3>1 DEF S
    <3>5. k = l /\ RefersToItself(l)
      BY <3>3, <3>4 DEF AtMost
    <3> QED
      BY <2>4, <3>2, <3>5
  <2> QED
    BY <2>5, <2>6
<1> QED
  BY <1>2, <1>3

(* However many threads create, patch and drop components, and however     *)
(* long the chains of deletions under the mutex of patch(), threads do not *)
(* wait for each other in a circle, as long as the lists are in an order   *)
(* by which references lead down; the document's are, in the order in      *)
(* which it is dumped.                                                     *)
THEOREM ListsNeverDeadlock ==
  ASSUME NEW rank, Ranked(rank)
  PROVE  Spec => []NoCircularWait
<1>1. Init => FieldsLead /\ LockOrder(rank)
  BY ListsAssumption DEF Init, FieldsLead, LockOrder, EmptyMap
<1>2. IInv /\ FieldsLead /\ LockOrder(rank) /\ [Next]_vars
        => FieldsLead' /\ LockOrder(rank)'
  BY OrderStep
<1>3. IInv /\ LockOrder(rank) => NoCircularWait
  BY OrderSuffices
<1> QED
  BY <1>1, <1>2, <1>3, Invariance, PTL DEF Spec
=============================================================================
