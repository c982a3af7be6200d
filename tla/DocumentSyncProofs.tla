------------------------ MODULE DocumentSyncProofs -------------------------
(***************************************************************************)
(* Proofs about DocumentSync, for every set of clients and lists, every    *)
(* capacity of the broadcast channel and any number of components.         *)
(***************************************************************************)
EXTENDS DocumentSync, TLAPS, WellFoundedInduction

-----------------------------------------------------------------------------
(* The inductive invariant *)

(* What a client may have. *)
Maps == UNION {[S -> ID \cup {NoRef}] : S \in SUBSET ID}

Closed(m) == \A id \in DOMAIN m : m[id] # NoRef => m[id] \in DOMAIN m

Patches(d) == [id : DOMAIN d, value : DOMAIN d]

(* The document refers to nothing it does not have, now and once the patch *)
(* under way is applied, and the IDs still to be given are free.           *)
Sound ==
  /\ content \in Maps
  /\ Closed(content)
  /\ created \in Nat
  /\ \A id \in DOMAIN content : id.n <= created
  /\ patching # NoPatch => patching \in Patches(content)

(* s is the list l of the document d: its components, each once. *)
Listed(l, s, d) ==
  /\ s \in Seq(ID)
  /\ \A i, j \in 1 .. Len(s) : s[i] = s[j] => i = j
  /\ \A i \in 1 .. Len(s) : s[i] \in DOMAIN d /\ s[i].list = l
  /\ \A id \in DOMAIN d : id.list = l => \E i \in 1 .. Len(s) : s[i] = id

Ordered ==
  /\ order \in [Lists -> Seq(ID)]
  /\ \A l \in Lists : Listed(l, order[l], content)

Phases == {"absent", "accepted", "dumped", "synced"}
Statuses == {"connecting", "running", "ready", "panicked"}

Dumps ==
  [client : Clients, next : 1 .. Len(DumpOrder) + 1, count : Nat,
   elements : Seq(Element)]

Typed ==
  /\ dump # NoDump => dump \in Dumps
  /\ phase \in [Clients -> Phases]
  /\ status \in [Clients -> Statuses]
  /\ lagged \in [Clients -> BOOLEAN]
  /\ steady \in [Clients -> BOOLEAN]
  /\ sub \in [Clients -> Seq(Messages)]
  /\ raw \in [Clients -> Seq(Messages)]
  /\ out \in [Clients -> Seq(Messages)]
  /\ mirror \in [Clients -> Maps]

(* How far a connection is, and what is in its channels. *)
Stages ==
  /\ dump # NoDump => phase[dump.client] = "accepted"
  /\ \A c \in Clients :
       /\ Len(sub[c]) <= BcastCap
       /\ Len(raw[c]) = IF phase[c] = "dumped" THEN 1 ELSE 0
       /\ phase[c] = "absent" =>
            /\ sub[c] = <<>> /\ out[c] = <<>>
            /\ mirror[c] = EmptyMap /\ ~ steady[c]
            /\ status[c] = "connecting"

-----------------------------------------------------------------------------
Creation(d, id) == [kind |-> "create", id |-> id, value |-> d[id]]

New(q, k) == q[k].elements[1].id

(* Messages that announce one new component of d each. *)
News(q, d) ==
  \A k \in 1 .. Len(q) :
    New(q, k) \in DOMAIN d /\ q[k] = Message(<<Creation(d, New(q, k))>>)

(* m has components of d, as d has them. *)
PartOf(m, d) == DOMAIN m \subseteq DOMAIN d /\ m = [id \in DOMAIN m |-> d[id]]

(* Each is new to m; only later ones refer to it. *)
Fresh(m, q, d) ==
  /\ \A k \in 1 .. Len(q) : New(q, k) \notin DOMAIN m
  /\ \A j, k \in 1 .. Len(q) : New(q, j) = New(q, k) => j = k
  /\ \A id \in DOMAIN d : \A j \in 1 .. Len(q) :
       d[id] = New(q, j) => \E k \in j + 1 .. Len(q) : id = New(q, k)

Connecting(m, q, d) == PartOf(m, d) /\ News(q, d) /\ Fresh(m, q, d)

(* Elements that create components of d, or no component. *)
Creates(es, d) ==
  \A i \in 1 .. Len(es) :
    \/ es[i].kind \in {"document", "initialized"}
    \/ es[i].id \in DOMAIN d /\ es[i] = Creation(d, es[i].id)

Created(es) == {es[i].id : i \in {j \in 1 .. Len(es) : es[j].kind = "create"}}

(* The finished dump D creates components of d, without a reference to one *)
(* it leaves out; with m and the creations q that is all of d.             *)
Complete(D, m, q, d) ==
  /\ D.count = Len(D.elements)
  /\ Creates(D.elements, d)
  /\ \A id \in Created(D.elements) : d[id] # NoRef => d[id] \in Created(D.elements)
  /\ \A id \in DOMAIN d :
       \/ id \in Created(D.elements) \cup DOMAIN m
       \/ \E k \in 1 .. Len(q) : id = New(q, k)

(* s[k] is the number of components in the first k lists. *)
Sums(s, o) ==
  /\ s[0] = 0
  /\ \A k \in 1 .. Len(DumpOrder) : s[k] = s[k - 1] + Len(o[DumpOrder[k]])

(* The dump D that is being written has the lists before D.next, and its   *)
(* header counts the elements of all of them, o being the lists of d.      *)
Dumping(D, o, d) ==
  /\ Creates(D.elements, d)
  /\ \A k \in 1 .. D.next - 1 : \A id \in DOMAIN d :
       id.list = DumpOrder[k] => id \in Created(D.elements)
  /\ \E s \in [0 .. Len(DumpOrder) -> Nat] :
       /\ Sums(s, o)
       /\ D.count = s[Len(DumpOrder)] + 2
       /\ Len(D.elements) = s[D.next - 1]

(* The worker handles a message without an error, and m becomes n. *)
Handled(m, msg, n) ==
  /\ msg.count <= Len(msg.elements)
  /\ ~ DeletesUnknown(m, Taken(msg))
  /\ n = ApplyAll(m, Taken(msg))

Ends(msg) == \E i \in 1 .. Len(Taken(msg)) : Taken(msg)[i].kind = "initialized"

(* The messages q take m to a, one after another, and once the client is   *)
(* ready, at the latest after the end of its dump, by way of closed maps.  *)
Leads(g, m, q, a, ready) ==
  /\ g[0] = m
  /\ g[Len(q)] = a
  /\ \A k \in 1 .. Len(q) : Handled(g[k - 1], q[k], g[k])
  /\ \A k \in 0 .. Len(q) :
       ready \/ (\E j \in 1 .. k : Ends(q[j])) => Closed(g[k])

Led(m, q, a, ready) ==
  \E g \in [0 .. Len(q) -> Maps] : Leads(g, m, q, a, ready)

Queue(c) == out[c] \o sub[c]

(* The client is waiting for its dump: only creations are on the way. *)
Joining(c) ==
  /\ status[c] = "running"
  /\ patching = NoPatch
  /\ Connecting(mirror[c], Queue(c), content)
  /\ dump # NoDump /\ dump.client = c => Dumping(dump, order, content)
  /\ phase[c] = "dumped" => Complete(raw[c][1], mirror[c], Queue(c), content)

(* Its dump has been forwarded: what is on the way leads to the document. *)
Joined(c) ==
  /\ status[c] \in {"running", "ready"}
  /\ Led(mirror[c], Queue(c), Announced, status[c] = "ready")

Steadily(c) ==
  steady[c] /\ ~ lagged[c] =>
    /\ phase[c] \in {"accepted", "dumped"} => Joining(c)
    /\ phase[c] = "synced" => Joined(c)

(* What holds whatever the lists that are counted. *)
Shape == Sound /\ Ordered /\ Typed /\ Stages

Inv == Shape /\ \A c \in Clients : Steadily(c)

(* Every component is in a list that all_element_count() counts: there is  *)
(* no light.                                                               *)
AllCounted == \A id \in DOMAIN content : id.list \in Counted

-----------------------------------------------------------------------------
(* Folds *)

LEMMA NatSets ==
  ASSUME NEW T \in SUBSET Nat, 0 \in T, \A n \in T : n + 1 \in T
  PROVE  T = Nat
<1> DEFINE N == Nat \ T
<1>1. SUFFICES ASSUME N # {} PROVE FALSE
  OBVIOUS
<1>2. PICK m \in N : \A k \in N : <<k, m>> \notin OpToRel(<, Nat)
  BY <1>1, WFMin, NatLessThanWellFounded, Zenon
<1>3. \A k \in N : ~ (k < m)
  BY <1>2, Zenon DEF OpToRel
<1>4. m - 1 \in Nat /\ m - 1 < m /\ (m - 1) + 1 = m
  OBVIOUS
<1>5. (m - 1) + 1 \in T
  BY <1>3, <1>4
<1> QED
  BY <1>4, <1>5

LEMMA MaxLast ==
  ASSUME NEW k \in Nat, NEW s \in SUBSET (1 .. k)
  PROVE  Max(s \cup {k + 1}) = k + 1
<1> DEFINE T == s \cup {k + 1}
<1>1. k + 1 \in T /\ \A y \in T : k + 1 >= y
  OBVIOUS
<1>2. \A x \in T : (\A y \in T : x >= y) => x = k + 1
  OBVIOUS
<1>3. Max(T) = CHOOSE x \in T : \A y \in T : x >= y
  BY Zenon DEF Max
<1> HIDE DEF T
<1>4. Max(T) \in T /\ \A y \in T : Max(T) >= y
  BY <1>1, <1>3
<1> QED
  BY <1>2, <1>4 DEF T

(* f goes through what the elements es make of m, one after another. *)
ApplyPath(f, m, es) ==
  f[0] = m /\ \A i \in 1 .. Len(es) : f[i] = Apply(f[i - 1], es[i])

FollowPath(f, m, q) ==
  f[0] = m /\ \A i \in 1 .. Len(q) : f[i] = ApplyAll(f[i - 1], Taken(q[i]))

Plus(sum, l) == IF l \in Counted THEN sum + Len(order[l]) ELSE sum

CountPath(f) ==
  f[0] = 0 /\ \A i \in 1 .. Len(DumpOrder) : f[i] = Plus(f[i - 1], DumpOrder[i])

(* A fold is the last of such a path.  FoldLeft is a recursive function on *)
(* the sets of places, so there is one to be shown for longer and longer   *)
(* prefixes.                                                               *)
LEMMA ApplyRun ==
  ASSUME NEW V, NEW m, NEW es \in Seq(V)
  PROVE  \E f : ApplyPath(f, m, es) /\ ApplyAll(m, es) = f[Len(es)]
<1> DEFINE Body(g, s) ==
             IF s = {} THEN m ELSE Apply(g[s \ {Max(s)}], es[Max(s)])
           Iter(g, k) == g = [s \in SUBSET (1 .. k) |-> Body(g, s)]
           T == {k \in Nat : \E g : Iter(g, k)}
<1>1. 0 \in T
  <2> DEFINE g == [s \in SUBSET (1 .. 0) |-> m]
  <2>1. Iter(g, 0)
    OBVIOUS
  <2> QED
    BY <2>1
<1>2. ASSUME NEW k \in T
      PROVE  k + 1 \in T
  <2>1. PICK g : Iter(g, k)
    OBVIOUS
  <2> DEFINE h == [s \in SUBSET (1 .. k + 1) |->
                     IF k + 1 \in s THEN Apply(g[s \ {k + 1}], es[k + 1])
                     ELSE g[s]]
  <2>2. \A s \in SUBSET (1 .. k + 1) : s \ {k + 1} \in SUBSET (1 .. k)
    OBVIOUS
  <2>3. ASSUME NEW s \in SUBSET (1 .. k + 1)
        PROVE  h[s] = Body(h, s)
    <3>1. CASE k + 1 \in s
      <4>1. s = (s \ {k + 1}) \cup {k + 1}
        BY <3>1
      <4>2. Max(s) = k + 1
        BY <2>2, <4>1, MaxLast
      <4>3. h[s \ {k + 1}] = g[s \ {k + 1}]
        BY <2>2
      <4> QED
        BY <3>1, <4>2, <4>3
    <3>2. CASE k + 1 \notin s
      <4>1. s \in SUBSET (1 .. k)
        BY <3>2
      <4>2. /\ s \ {Max(s)} \in SUBSET (1 .. k)
            /\ s \ {Max(s)} \in SUBSET (1 .. k + 1)
        BY <4>1
      <4>3. h[s \ {Max(s)}] = g[s \ {Max(s)}]
        BY <4>2
      <4>4. g[s] = Body(g, s)
        BY <2>1, <4>1
      <4> QED
        BY <3>2, <4>3, <4>4
    <3> QED
      BY <3>1, <3>2
  <2>4. Iter(h, k + 1)
    BY <2>3
  <2>5. k + 1 \in Nat
    OBVIOUS
  <2> HIDE DEF h, Iter
  <2> QED
    BY <2>4, <2>5
<1> HIDE DEF T
<1>3. T = Nat
  BY <1>1, <1>2, NatSets DEF T
<1> DEFINE n == Len(es)
           iter == CHOOSE g : g = [s \in SUBSET DOMAIN es |-> Body(g, s)]
<1>4. n \in Nat /\ DOMAIN es = 1 .. n
  OBVIOUS
<1>5. Iter(iter, n)
  <2>1. \E g : Iter(g, n)
    BY <1>3, <1>4 DEF T
  <2> QED
    BY <1>4, <2>1
<1>6. ApplyAll(m, es) = iter[1 .. n]
  BY <1>4 DEF ApplyAll, FoldLeft, MapThenFoldSet
<1> HIDE DEF iter, n
<1> DEFINE f == [i \in 0 .. n |-> iter[1 .. i]]
<1>7. f[0] = m
  <2>1. 1 .. 0 = {} /\ {} \in SUBSET (1 .. n) /\ 0 \in 0 .. n
    BY <1>4
  <2>2. iter[{}] = Body(iter, {})
    BY <1>5, <2>1
  <2> QED
    BY <2>1, <2>2
<1>8. ASSUME NEW i \in 1 .. n
      PROVE  f[i] = Apply(f[i - 1], es[i])
  <2>1. /\ i \in 0 .. n /\ i - 1 \in 0 .. n
        /\ i - 1 \in Nat /\ (i - 1) + 1 = i /\ i \in Nat
    BY <1>4
  <2>2. /\ 1 .. i \in SUBSET (1 .. n) /\ 1 .. i # {}
        /\ (1 .. i) \ {i} = 1 .. (i - 1)
        /\ (1 .. (i - 1)) \cup {i} = 1 .. i
    <3>1. \A k \in 1 .. i : k \in 1 .. n
      BY <1>4
    <3>2. i \in 1 .. i
      BY <2>1
    <3>3. (1 .. i) \ {i} = 1 .. (i - 1)
      BY <2>1
    <3>4. (1 .. (i - 1)) \cup {i} = 1 .. i
      BY <2>1
    <3> QED
      BY <3>1, <3>2, <3>3, <3>4
  <2> DEFINE s == 1 .. (i - 1)
  <2>3. s \in SUBSET (1 .. (i - 1))
    OBVIOUS
  <2>4. Max(1 .. i) = i
    <3> HIDE DEF s
    <3>1. Max(s \cup {(i - 1) + 1}) = (i - 1) + 1
      BY <2>1, <2>3, MaxLast
    <3> QED
      BY <3>1, <2>1, <2>2 DEF s
  <2>5. iter[1 .. i] = Body(iter, 1 .. i)
    BY <1>5, <2>2
  <2> QED
    BY <2>1, <2>2, <2>4, <2>5
<1>9. f[n] = iter[1 .. n]
  BY <1>4
<1> HIDE DEF f
<1>10. ApplyPath(f, m, es) /\ ApplyAll(m, es) = f[Len(es)]
  BY <1>6, <1>7, <1>8, <1>9 DEF n, ApplyPath
<1> QED
  BY <1>10

LEMMA FollowRun ==
  ASSUME NEW V, NEW m, NEW q \in Seq(V)
  PROVE  \E f : FollowPath(f, m, q) /\ Following(m, q) = f[Len(q)]
<1> DEFINE Body(g, s) ==
             IF s = {} THEN m ELSE ApplyAll(g[s \ {Max(s)}], Taken(q[Max(s)]))
           Iter(g, k) == g = [s \in SUBSET (1 .. k) |-> Body(g, s)]
           T == {k \in Nat : \E g : Iter(g, k)}
<1>1. 0 \in T
  <2> DEFINE g == [s \in SUBSET (1 .. 0) |-> m]
  <2>1. Iter(g, 0)
    OBVIOUS
  <2> QED
    BY <2>1
<1>2. ASSUME NEW k \in T
      PROVE  k + 1 \in T
  <2>1. PICK g : Iter(g, k)
    OBVIOUS
  <2> DEFINE h == [s \in SUBSET (1 .. k + 1) |->
                     IF k + 1 \in s THEN ApplyAll(g[s \ {k + 1}], Taken(q[k + 1]))
                     ELSE g[s]]
  <2>2. \A s \in SUBSET (1 .. k + 1) : s \ {k + 1} \in SUBSET (1 .. k)
    OBVIOUS
  <2>3. ASSUME NEW s \in SUBSET (1 .. k + 1)
        PROVE  h[s] = Body(h, s)
    <3>1. CASE k + 1 \in s
      <4>1. s = (s \ {k + 1}) \cup {k + 1}
        BY <3>1
      <4>2. Max(s) = k + 1
        BY <2>2, <4>1, MaxLast
      <4>3. h[s \ {k + 1}] = g[s \ {k + 1}]
        BY <2>2
      <4> QED
        BY <3>1, <4>2, <4>3
    <3>2. CASE k + 1 \notin s
      <4>1. s \in SUBSET (1 .. k)
        BY <3>2
      <4>2. /\ s \ {Max(s)} \in SUBSET (1 .. k)
            /\ s \ {Max(s)} \in SUBSET (1 .. k + 1)
        BY <4>1
      <4>3. h[s \ {Max(s)}] = g[s \ {Max(s)}]
        BY <4>2
      <4>4. g[s] = Body(g, s)
        BY <2>1, <4>1
      <4> QED
        BY <3>2, <4>3, <4>4
    <3> QED
      BY <3>1, <3>2
  <2>4. Iter(h, k + 1)
    BY <2>3
  <2>5. k + 1 \in Nat
    OBVIOUS
  <2> HIDE DEF h, Iter
  <2> QED
    BY <2>4, <2>5
<1> HIDE DEF T
<1>3. T = Nat
  BY <1>1, <1>2, NatSets DEF T
<1> DEFINE n == Len(q)
           iter == CHOOSE g : g = [s \in SUBSET DOMAIN q |-> Body(g, s)]
<1>4. n \in Nat /\ DOMAIN q = 1 .. n
  OBVIOUS
<1>5. Iter(iter, n)
  <2>1. \E g : Iter(g, n)
    BY <1>3, <1>4 DEF T
  <2> QED
    BY <1>4, <2>1
<1>6. Following(m, q) = iter[1 .. n]
  BY <1>4 DEF Following, FoldLeft, MapThenFoldSet
<1> HIDE DEF iter, n
<1> DEFINE f == [i \in 0 .. n |-> iter[1 .. i]]
<1>7. f[0] = m
  <2>1. 1 .. 0 = {} /\ {} \in SUBSET (1 .. n) /\ 0 \in 0 .. n
    BY <1>4
  <2>2. iter[{}] = Body(iter, {})
    BY <1>5, <2>1
  <2> QED
    BY <2>1, <2>2
<1>8. ASSUME NEW i \in 1 .. n
      PROVE  f[i] = ApplyAll(f[i - 1], Taken(q[i]))
  <2>1. /\ i \in 0 .. n /\ i - 1 \in 0 .. n
        /\ i - 1 \in Nat /\ (i - 1) + 1 = i /\ i \in Nat
    BY <1>4
  <2>2. /\ 1 .. i \in SUBSET (1 .. n) /\ 1 .. i # {}
        /\ (1 .. i) \ {i} = 1 .. (i - 1)
        /\ (1 .. (i - 1)) \cup {i} = 1 .. i
    <3>1. \A k \in 1 .. i : k \in 1 .. n
      BY <1>4
    <3>2. i \in 1 .. i
      BY <2>1
    <3>3. (1 .. i) \ {i} = 1 .. (i - 1)
      BY <2>1
    <3>4. (1 .. (i - 1)) \cup {i} = 1 .. i
      BY <2>1
    <3> QED
      BY <3>1, <3>2, <3>3, <3>4
  <2> DEFINE s == 1 .. (i - 1)
  <2>3. s \in SUBSET (1 .. (i - 1))
    OBVIOUS
  <2>4. Max(1 .. i) = i
    <3> HIDE DEF s
    <3>1. Max(s \cup {(i - 1) + 1}) = (i - 1) + 1
      BY <2>1, <2>3, MaxLast
    <3> QED
      BY <3>1, <2>1, <2>2 DEF s
  <2>5. iter[1 .. i] = Body(iter, 1 .. i)
    BY <1>5, <2>2
  <2> QED
    BY <2>1, <2>2, <2>4, <2>5
<1>9. f[n] = iter[1 .. n]
  BY <1>4
<1> HIDE DEF f
<1>10. FollowPath(f, m, q) /\ Following(m, q) = f[Len(q)]
  BY <1>6, <1>7, <1>8, <1>9 DEF n, FollowPath
<1> QED
  BY <1>10

LEMMA CountRun ==
  ASSUME NEW V, DumpOrder \in Seq(V)
  PROVE  \E f : CountPath(f) /\ ElementCount = f[Len(DumpOrder)]
<1> DEFINE Body(g, s) ==
             IF s = {} THEN 0 ELSE Plus(g[s \ {Max(s)}], DumpOrder[Max(s)])
           Iter(g, k) == g = [s \in SUBSET (1 .. k) |-> Body(g, s)]
           T == {k \in Nat : \E g : Iter(g, k)}
<1>1. 0 \in T
  <2> DEFINE g == [s \in SUBSET (1 .. 0) |-> 0]
  <2>1. Iter(g, 0)
    OBVIOUS
  <2> QED
    BY <2>1
<1>2. ASSUME NEW k \in T
      PROVE  k + 1 \in T
  <2>1. PICK g : Iter(g, k)
    OBVIOUS
  <2> DEFINE h == [s \in SUBSET (1 .. k + 1) |->
                     IF k + 1 \in s THEN Plus(g[s \ {k + 1}], DumpOrder[k + 1])
                     ELSE g[s]]
  <2>2. \A s \in SUBSET (1 .. k + 1) : s \ {k + 1} \in SUBSET (1 .. k)
    OBVIOUS
  <2>3. ASSUME NEW s \in SUBSET (1 .. k + 1)
        PROVE  h[s] = Body(h, s)
    <3>1. CASE k + 1 \in s
      <4>1. s = (s \ {k + 1}) \cup {k + 1}
        BY <3>1
      <4>2. Max(s) = k + 1
        BY <2>2, <4>1, MaxLast
      <4>3. h[s \ {k + 1}] = g[s \ {k + 1}]
        BY <2>2
      <4> QED
        BY <3>1, <4>2, <4>3
    <3>2. CASE k + 1 \notin s
      <4>1. s \in SUBSET (1 .. k)
        BY <3>2
      <4>2. /\ s \ {Max(s)} \in SUBSET (1 .. k)
            /\ s \ {Max(s)} \in SUBSET (1 .. k + 1)
        BY <4>1
      <4>3. h[s \ {Max(s)}] = g[s \ {Max(s)}]
        BY <4>2
      <4>4. g[s] = Body(g, s)
        BY <2>1, <4>1
      <4> QED
        BY <3>2, <4>3, <4>4
    <3> QED
      BY <3>1, <3>2
  <2>4. Iter(h, k + 1)
    BY <2>3
  <2>5. k + 1 \in Nat
    OBVIOUS
  <2> HIDE DEF h, Iter
  <2> QED
    BY <2>4, <2>5
<1> HIDE DEF T
<1>3. T = Nat
  BY <1>1, <1>2, NatSets DEF T
<1> DEFINE n == Len(DumpOrder)
           iter == CHOOSE g : g = [s \in SUBSET DOMAIN DumpOrder |-> Body(g, s)]
<1>4. n \in Nat /\ DOMAIN DumpOrder = 1 .. n
  OBVIOUS
<1>5. Iter(iter, n)
  <2>1. \E g : Iter(g, n)
    BY <1>3, <1>4 DEF T
  <2> QED
    BY <1>4, <2>1
<1>6. ElementCount = iter[1 .. n]
  BY <1>4 DEF ElementCount, FoldLeft, MapThenFoldSet, Plus
<1> HIDE DEF iter, n
<1> DEFINE f == [i \in 0 .. n |-> iter[1 .. i]]
<1>7. f[0] = 0
  <2>1. 1 .. 0 = {} /\ {} \in SUBSET (1 .. n) /\ 0 \in 0 .. n
    BY <1>4
  <2>2. iter[{}] = Body(iter, {})
    BY <1>5, <2>1
  <2> QED
    BY <2>1, <2>2
<1>8. ASSUME NEW i \in 1 .. n
      PROVE  f[i] = Plus(f[i - 1], DumpOrder[i])
  <2>1. /\ i \in 0 .. n /\ i - 1 \in 0 .. n
        /\ i - 1 \in Nat /\ (i - 1) + 1 = i /\ i \in Nat
    BY <1>4
  <2>2. /\ 1 .. i \in SUBSET (1 .. n) /\ 1 .. i # {}
        /\ (1 .. i) \ {i} = 1 .. (i - 1)
        /\ (1 .. (i - 1)) \cup {i} = 1 .. i
    <3>1. \A k \in 1 .. i : k \in 1 .. n
      BY <1>4
    <3>2. i \in 1 .. i
      BY <2>1
    <3>3. (1 .. i) \ {i} = 1 .. (i - 1)
      BY <2>1
    <3>4. (1 .. (i - 1)) \cup {i} = 1 .. i
      BY <2>1
    <3> QED
      BY <3>1, <3>2, <3>3, <3>4
  <2> DEFINE s == 1 .. (i - 1)
  <2>3. s \in SUBSET (1 .. (i - 1))
    OBVIOUS
  <2>4. Max(1 .. i) = i
    <3> HIDE DEF s
    <3>1. Max(s \cup {(i - 1) + 1}) = (i - 1) + 1
      BY <2>1, <2>3, MaxLast
    <3> QED
      BY <3>1, <2>1, <2>2 DEF s
  <2>5. iter[1 .. i] = Body(iter, 1 .. i)
    BY <1>5, <2>2
  <2> QED
    BY <2>1, <2>2, <2>4, <2>5
<1>9. f[n] = iter[1 .. n]
  BY <1>4
<1> HIDE DEF f
<1>10. CountPath(f) /\ ElementCount = f[Len(DumpOrder)]
  BY <1>6, <1>7, <1>8, <1>9 DEF n, CountPath
<1> QED
  BY <1>10
-----------------------------------------------------------------------------
(* What elements and messages make of a client's components *)

LEMMA MapsAre ==
  ASSUME NEW m
  PROVE  m \in Maps <=> /\ m = [id \in DOMAIN m |-> m[id]]
                        /\ DOMAIN m \subseteq ID
                        /\ \A id \in DOMAIN m : m[id] \in ID \cup {NoRef}
<1>1. ASSUME m \in Maps
      PROVE  /\ m = [id \in DOMAIN m |-> m[id]]
             /\ DOMAIN m \subseteq ID
             /\ \A id \in DOMAIN m : m[id] \in ID \cup {NoRef}
  <2>1. PICK S \in SUBSET ID : m \in [S -> ID \cup {NoRef}]
    BY <1>1 DEF Maps
  <2> QED
    BY <2>1
<1>2. ASSUME m = [id \in DOMAIN m |-> m[id]],
             DOMAIN m \subseteq ID,
             \A id \in DOMAIN m : m[id] \in ID \cup {NoRef}
      PROVE  m \in Maps
  <2>1. m \in [DOMAIN m -> ID \cup {NoRef}]
    BY <1>2
  <2> QED
    BY <1>2, <2>1 DEF Maps
<1> QED
  BY <1>1, <1>2

LEMMA PutType ==
  ASSUME NEW m \in Maps, NEW id \in ID, NEW v \in ID \cup {NoRef}
  PROVE  Put(m, id, v) \in Maps
<1> DEFINE p == Put(m, id, v)
<1>1. /\ DOMAIN m \subseteq ID
      /\ \A i \in DOMAIN m : m[i] \in ID \cup {NoRef}
  BY MapsAre
<1>2. /\ p = [i \in DOMAIN p |-> p[i]]
      /\ DOMAIN p = DOMAIN m \cup {id}
      /\ \A i \in DOMAIN p : p[i] = IF i = id THEN v ELSE m[i]
  BY DEF Put
<1>3. DOMAIN p \subseteq ID /\ \A i \in DOMAIN p : p[i] \in ID \cup {NoRef}
  BY <1>1, <1>2
<1> HIDE DEF p
<1> QED
  BY <1>2, <1>3, MapsAre DEF p

LEMMA WithoutType ==
  ASSUME NEW m \in Maps, NEW id
  PROVE  Without(m, id) \in Maps
<1> DEFINE p == Without(m, id)
<1>1. /\ DOMAIN m \subseteq ID
      /\ \A i \in DOMAIN m : m[i] \in ID \cup {NoRef}
  BY MapsAre
<1>2. /\ p = [i \in DOMAIN p |-> p[i]]
      /\ DOMAIN p = DOMAIN m \ {id}
      /\ \A i \in DOMAIN p : p[i] = m[i]
  BY DEF Without
<1>3. DOMAIN p \subseteq ID /\ \A i \in DOMAIN p : p[i] \in ID \cup {NoRef}
  BY <1>1, <1>2
<1> HIDE DEF p
<1> QED
  BY <1>2, <1>3, MapsAre DEF p

LEMMA ElementFields ==
  ASSUME NEW e \in Element
  PROVE  /\ e.kind \in {"create", "update", "delete", "document", "initialized"}
         /\ e.kind \in {"create", "update"} =>
              e.id \in ID /\ e.value \in ID \cup {NoRef}
         /\ e.kind = "delete" => e.id \in ID
BY DEF Element

LEMMA ApplyType ==
  ASSUME NEW m \in Maps, NEW e \in Element
  PROVE  Apply(m, e) \in Maps
<1>1. CASE e.kind = "create"
  BY <1>1, ElementFields, PutType DEF Apply
<1>2. CASE e.kind = "update"
  BY <1>2, ElementFields, PutType DEF Apply
<1>3. CASE e.kind = "delete"
  BY <1>3, WithoutType DEF Apply
<1>4. CASE e.kind \notin {"create", "update", "delete"}
  BY <1>4 DEF Apply
<1> QED
  BY <1>1, <1>2, <1>3, <1>4

LEMMA ApplyAllType ==
  ASSUME NEW m \in Maps, NEW es \in Seq(Element)
  PROVE  ApplyAll(m, es) \in Maps
<1>1. PICK f : ApplyPath(f, m, es) /\ ApplyAll(m, es) = f[Len(es)]
  BY ApplyRun
<1> DEFINE T == {k \in Nat : k <= Len(es) => f[k] \in Maps}
<1>2. 0 \in T
  BY <1>1 DEF ApplyPath
<1>3. ASSUME NEW k \in T
      PROVE  k + 1 \in T
  <2>1. SUFFICES ASSUME k + 1 <= Len(es) PROVE f[k + 1] \in Maps
    OBVIOUS
  <2>2. k + 1 \in 1 .. Len(es) /\ (k + 1) - 1 = k /\ k <= Len(es)
    BY <2>1
  <2>3. f[k] \in Maps /\ es[k + 1] \in Element
    BY <2>2
  <2>4. f[k + 1] = Apply(f[k], es[k + 1])
    BY <1>1, <2>2 DEF ApplyPath
  <2> QED
    BY <2>3, <2>4, ApplyType
<1> HIDE DEF T
<1>4. T = Nat
  BY <1>2, <1>3, NatSets DEF T
<1> QED
  BY <1>1, <1>4 DEF T

LEMMA ApplyNone ==
  ASSUME NEW m
  PROVE  ApplyAll(m, <<>>) = m
<1>1. <<>> \in Seq(Nat) /\ Len(<<>>) = 0
  OBVIOUS
<1>2. \E f : ApplyPath(f, m, <<>>) /\ ApplyAll(m, <<>>) = f[0]
  BY <1>1, ApplyRun
<1> QED
  BY <1>2 DEF ApplyPath

LEMMA ApplyOne ==
  ASSUME NEW m, NEW e
  PROVE  ApplyAll(m, <<e>>) = Apply(m, e)
<1>1. /\ <<e>> \in Seq({e}) /\ Len(<<e>>) = 1 /\ <<e>>[1] = e
      /\ 1 \in 1 .. 1 /\ 1 - 1 = 0
  OBVIOUS
<1>2. \E f : ApplyPath(f, m, <<e>>) /\ ApplyAll(m, <<e>>) = f[1]
  BY <1>1, ApplyRun
<1> QED
  BY <1>1, <1>2 DEF ApplyPath

Part(d, S) == [id \in S |-> d[id]]

(* Elements that create components of d add these to a part of d, ... *)
LEMMA ApplyCreates ==
  ASSUME NEW V, NEW d, NEW m, NEW es \in Seq(V), PartOf(m, d), Creates(es, d)
  PROVE  ApplyAll(m, es) = Part(d, DOMAIN m \cup Created(es))
<1>1. PICK f : ApplyPath(f, m, es) /\ ApplyAll(m, es) = f[Len(es)]
  BY ApplyRun
<1> DEFINE I(k) == {es[i].id : i \in {j \in 1 .. k : es[j].kind = "create"}}
           S(k) == DOMAIN m \cup I(k)
           T == {k \in Nat : k <= Len(es) => f[k] = [id \in S(k) |-> d[id]]}
<1>2. 0 \in T
  <2>1. S(0) = DOMAIN m
    <3>1. \A j : j \notin 1 .. 0
      OBVIOUS
    <3>2. I(0) = {}
      BY <3>1
    <3> QED
      BY <3>2
  <2> HIDE DEF S
  <2> QED
    BY <1>1, <2>1 DEF ApplyPath, PartOf
<1>3. ASSUME NEW k \in T
      PROVE  k + 1 \in T
  <2>1. SUFFICES ASSUME k + 1 <= Len(es)
                 PROVE  f[k + 1] = [id \in S(k + 1) |-> d[id]]
    OBVIOUS
  <2> DEFINE e == es[k + 1]
  <2>2. k + 1 \in 1 .. Len(es) /\ (k + 1) - 1 = k /\ k <= Len(es) /\ k \in Nat
    BY <2>1
  <2>3. f[k] = [id \in S(k) |-> d[id]]
    BY <2>2
  <2>4. f[k + 1] = Apply(f[k], e)
    BY <1>1, <2>2 DEF ApplyPath
  <2>5. \A j : j \in 1 .. k + 1 <=> j \in 1 .. k \/ j = k + 1
    BY <2>2
  <2>6. CASE e.kind \in {"document", "initialized"}
    <3>1. e.kind # "create"
      BY <2>6
    <3>2. I(k + 1) = I(k)
      BY <2>5, <3>1
    <3>3. S(k + 1) = S(k)
      BY <3>2
    <3>4. Apply(f[k], e) = f[k]
      BY <2>6 DEF Apply
    <3> HIDE DEF S
    <3> QED
      BY <2>3, <2>4, <3>3, <3>4
  <2>7. CASE e.id \in DOMAIN d /\ e = Creation(d, e.id)
    <3>1. e.kind = "create" /\ e.value = d[e.id]
      BY <2>7 DEF Creation
    <3>2. I(k + 1) = I(k) \cup {e.id}
      BY <2>5, <3>1
    <3>3. S(k + 1) = S(k) \cup {e.id}
      BY <3>2
    <3>4. Apply(f[k], e) = Put(f[k], e.id, d[e.id])
      BY <3>1 DEF Apply
    <3> HIDE DEF S, e
    <3> QED
      BY <2>3, <2>4, <3>3, <3>4 DEF Put
  <2> QED
    BY <2>2, <2>6, <2>7 DEF Creates
<1>4. T \in SUBSET Nat
  OBVIOUS
<1> HIDE DEF T
<1>5. T = Nat
  BY <1>2, <1>3, <1>4, NatSets
<1>6. Len(es) \in T /\ Len(es) \in Nat
  BY <1>5
<1>7. f[Len(es)] = [id \in S(Len(es)) |-> d[id]]
  BY <1>6 DEF T
<1> QED
  BY <1>1, <1>7 DEF Created, Part

(* ... and delete nothing. *)
LEMMA CreatesKnown ==
  ASSUME NEW d, NEW m, NEW es, Creates(es, d)
  PROVE  ~ DeletesUnknown(m, es)
<1>1. \A i \in 1 .. Len(es) : es[i].kind # "delete"
  <2> TAKE i \in 1 .. Len(es)
  <2>1. CASE es[i].kind \in {"document", "initialized"}
    BY <2>1
  <2>2. CASE es[i] = Creation(d, es[i].id)
    <3>1. Creation(d, es[i].id).kind = "create"
      BY DEF Creation
    <3> QED
      BY <2>2, <3>1
  <2> QED
    BY <2>1, <2>2 DEF Creates
<1> QED
  BY <1>1 DEF DeletesUnknown

LEMMA TakenAll ==
  ASSUME NEW V, NEW es \in Seq(V), NEW D, D.elements = es, D.count = Len(es)
  PROVE  Taken(D) = es
BY DEF Taken

(* A message with one element is taken whole. *)
LEMMA TakenOne ==
  ASSUME NEW e
  PROVE  /\ Message(<<e>>).count = 1
         /\ Message(<<e>>).elements = <<e>>
         /\ Len(Message(<<e>>).elements) = 1
         /\ Taken(Message(<<e>>)) = <<e>>
BY DEF Message, Taken

LEMMA HandledOne ==
  ASSUME NEW m, NEW e, e.kind = "delete" => e.id \in DOMAIN m
  PROVE  Handled(m, Message(<<e>>), Apply(m, e))
<1>1. ~ DeletesUnknown(m, <<e>>)
  <2>1. SUFFICES ASSUME NEW i \in 1 .. Len(<<e>>), <<e>>[i].kind = "delete"
                 PROVE  <<e>>[i].id \in DOMAIN ApplyAll(m, SubSeq(<<e>>, 1, i - 1))
    BY DEF DeletesUnknown
  <2>2. i = 1 /\ <<e>>[i] = e
    OBVIOUS
  <2>3. SubSeq(<<e>>, 1, i - 1) = <<>>
    BY <2>2
  <2> QED
    BY <2>1, <2>2, <2>3, ApplyNone
<1> QED
  BY <1>1, TakenOne, ApplyOne DEF Handled
-----------------------------------------------------------------------------
(* A client that follows the stream *)

LEMMA PathIsFold ==
  ASSUME NEW V, NEW m, NEW q \in Seq(V), NEW g, FollowPath(g, m, q)
  PROVE  Following(m, q) = g[Len(q)]
<1>1. PICK f : FollowPath(f, m, q) /\ Following(m, q) = f[Len(q)]
  BY FollowRun
<1> DEFINE T == {k \in Nat : k <= Len(q) => f[k] = g[k]}
<1>2. 0 \in T
  BY <1>1 DEF FollowPath
<1>3. ASSUME NEW k \in T
      PROVE  k + 1 \in T
  <2>1. SUFFICES ASSUME k + 1 <= Len(q) PROVE f[k + 1] = g[k + 1]
    OBVIOUS
  <2>2. k + 1 \in 1 .. Len(q) /\ (k + 1) - 1 = k /\ k <= Len(q)
    BY <2>1
  <2>3. f[k] = g[k]
    BY <2>2
  <2>4. /\ f[k + 1] = ApplyAll(f[(k + 1) - 1], Taken(q[k + 1]))
        /\ g[k + 1] = ApplyAll(g[(k + 1) - 1], Taken(q[k + 1]))
    BY <1>1, <2>2 DEF FollowPath
  <2> QED
    BY <2>2, <2>3, <2>4
<1>4. T \in SUBSET Nat
  OBVIOUS
<1> HIDE DEF T
<1>5. T = Nat
  BY <1>2, <1>3, <1>4, NatSets
<1>6. Len(q) \in T /\ Len(q) \in Nat
  BY <1>5
<1> QED
  BY <1>1, <1>6 DEF T

LEMMA LedFollows ==
  ASSUME NEW V, NEW m, NEW q \in Seq(V), NEW a, NEW ready, Led(m, q, a, ready)
  PROVE  /\ Following(m, q) = a
         /\ ready => Closed(m)
<1>1. PICK g \in [0 .. Len(q) -> Maps] : Leads(g, m, q, a, ready)
  BY DEF Led
<1>2. FollowPath(g, m, q) /\ g[Len(q)] = a
  BY <1>1 DEF Leads, FollowPath, Handled
<1>3. 0 \in 0 .. Len(q)
  OBVIOUS
<1>4. ready => Closed(g[0])
  BY <1>1, <1>3 DEF Leads
<1>5. g[0] = m
  BY <1>1 DEF Leads
<1> QED
  BY <1>2, <1>4, <1>5, PathIsFold

LEMMA HasAppended ==
  ASSUME NEW V, NEW q \in Seq(V), NEW x \in V
  PROVE  /\ Append(q, x) \in Seq(V)
         /\ Len(Append(q, x)) = Len(q) + 1
         /\ Append(q, x)[Len(q) + 1] = x
         /\ \A k \in 1 .. Len(q) : Append(q, x)[k] = q[k]
         /\ Len(q) \in Nat
OBVIOUS

LEMMA HasTail ==
  ASSUME NEW V, NEW q \in Seq(V), q # <<>>
  PROVE  /\ Tail(q) \in Seq(V)
         /\ Len(q) \in Nat
         /\ Len(q) >= 1
         /\ Len(Tail(q)) = Len(q) - 1
         /\ Head(q) = q[1]
         /\ Head(q) \in V
         /\ \A k \in 1 .. Len(q) - 1 : Tail(q)[k] = q[k + 1]
OBVIOUS

LEMMA HasConcatenated ==
  ASSUME NEW V, NEW p \in Seq(V), NEW q \in Seq(V)
  PROVE  /\ p \o q \in Seq(V)
         /\ Len(p \o q) = Len(p) + Len(q)
         /\ Len(p) \in Nat /\ Len(q) \in Nat
         /\ \A k \in 1 .. Len(p) : (p \o q)[k] = p[k]
         /\ \A k \in Len(p) + 1 .. Len(p) + Len(q) : (p \o q)[k] = q[k - Len(p)]
OBVIOUS

(* One more broadcast, to a closed map, at the end of the stream. *)
LEMMA LedAppend ==
  ASSUME NEW V, NEW m, NEW q \in Seq(V), NEW a, NEW ready,
         NEW e, Message(<<e>>) \in V, NEW b \in Maps,
         Led(m, q, a, ready), Handled(a, Message(<<e>>), b), Closed(b)
  PROVE  Led(m, Append(q, Message(<<e>>)), b, ready)
<1> DEFINE n == Len(q)
           r == Append(q, Message(<<e>>))
<1>1. PICK g \in [0 .. n -> Maps] : Leads(g, m, q, a, ready)
  BY DEF Led
<1> DEFINE h == [k \in 0 .. n + 1 |-> IF k = n + 1 THEN b ELSE g[k]]
<1>2. /\ n \in Nat /\ Len(r) = n + 1 /\ r[n + 1] = Message(<<e>>)
      /\ \A k \in 1 .. n : r[k] = q[k]
  BY HasAppended
<1> HIDE DEF n, r
<1>3. h \in [0 .. n + 1 -> Maps]
  BY <1>1, <1>2
<1>4. h[0] = m /\ h[n + 1] = b
  BY <1>1, <1>2 DEF Leads
<1>5. ASSUME NEW k \in 1 .. n + 1
      PROVE  Handled(h[k - 1], r[k], h[k])
  <2>1. CASE k = n + 1
    <3>1. h[k - 1] = a
      BY <1>1, <1>2, <2>1 DEF Leads, n
    <3> QED
      BY <1>2, <1>4, <2>1, <3>1
  <2>2. CASE k # n + 1
    <3>1. k \in 1 .. n /\ k \in 0 .. n + 1 /\ k - 1 \in 0 .. n + 1
          /\ k - 1 # n + 1
      BY <1>2, <2>2
    <3>2. h[k - 1] = g[k - 1] /\ h[k] = g[k] /\ r[k] = q[k]
      BY <1>2, <2>2, <3>1
    <3> QED
      BY <1>1, <3>1, <3>2 DEF Leads, n
  <2> QED
    BY <2>1, <2>2
<1>6. ASSUME NEW k \in 0 .. n + 1, ready \/ \E j \in 1 .. k : Ends(r[j])
      PROVE  Closed(h[k])
  <2>1. CASE k = n + 1
    BY <1>4, <2>1
  <2>2. CASE k # n + 1
    <3>1. k \in 0 .. n /\ \A j \in 1 .. k : j \in 1 .. n
      BY <1>2, <2>2
    <3>2. h[k] = g[k] /\ \A j \in 1 .. k : r[j] = q[j]
      BY <1>2, <2>2, <3>1
    <3> QED
      BY <1>1, <1>6, <3>1, <3>2 DEF Leads, n
  <2> QED
    BY <2>1, <2>2
<1> HIDE DEF h
<1>7. Leads(h, m, r, b, ready)
  BY <1>2, <1>4, <1>5, <1>6 DEF Leads
<1> QED
  BY <1>2, <1>3, <1>7 DEF Led, r

(* The first message is handled. *)
LEMMA LedTail ==
  ASSUME NEW V, NEW m, NEW q \in Seq(V), NEW a, NEW ready, q # <<>>,
         Led(m, q, a, ready)
  PROVE  /\ Head(q).count <= Len(Head(q).elements)
         /\ ~ DeletesUnknown(m, Taken(Head(q)))
         /\ Led(ApplyAll(m, Taken(Head(q))), Tail(q), a, ready \/ Ends(Head(q)))
<1> DEFINE n == Len(q)
           t == Tail(q)
<1>1. PICK g \in [0 .. n -> Maps] : Leads(g, m, q, a, ready)
  BY DEF Led
<1> DEFINE h == [k \in 0 .. n - 1 |-> g[k + 1]]
<1>2. /\ n \in Nat /\ n >= 1 /\ Len(t) = n - 1 /\ Head(q) = q[1]
      /\ \A k \in 1 .. n - 1 : t[k] = q[k + 1]
  BY HasTail
<1> HIDE DEF n, t
<1>3. \A k \in 0 .. n - 1 : k + 1 \in 0 .. n /\ h[k] = g[k + 1]
  BY <1>2
<1>4. Handled(m, q[1], g[1])
  <2>1. 1 \in 1 .. n /\ 1 - 1 = 0
    BY <1>2
  <2>2. Handled(g[1 - 1], q[1], g[1])
    BY <1>1, <2>1 DEF Leads, n
  <2> QED
    BY <1>1, <2>1, <2>2 DEF Leads
<1>5. h \in [0 .. n - 1 -> Maps]
  BY <1>1, <1>3
<1>6. h[0] = ApplyAll(m, Taken(q[1])) /\ h[n - 1] = a
  <2>1. 0 \in 0 .. n - 1 /\ 0 + 1 = 1 /\ n - 1 \in 0 .. n - 1 /\ (n - 1) + 1 = n
    BY <1>2
  <2>2. h[0] = g[1] /\ h[n - 1] = g[n]
    BY <1>3, <2>1
  <2> QED
    BY <1>1, <1>4, <2>2 DEF Handled, Leads, n
<1>7. ASSUME NEW k \in 1 .. n - 1
      PROVE  Handled(h[k - 1], t[k], h[k])
  <2>1. /\ k + 1 \in 1 .. n /\ (k + 1) - 1 = k /\ (k - 1) + 1 = k
        /\ k \in 0 .. n - 1 /\ k - 1 \in 0 .. n - 1
    BY <1>2
  <2>2. h[k - 1] = g[k] /\ h[k] = g[k + 1]
    BY <1>3, <2>1
  <2>3. Handled(g[(k + 1) - 1], q[k + 1], g[k + 1])
    BY <1>1, <2>1 DEF Leads, n
  <2> QED
    BY <1>2, <2>1, <2>2, <2>3
<1>8. ASSUME NEW k \in 0 .. n - 1,
             (ready \/ Ends(q[1])) \/ \E j \in 1 .. k : Ends(t[j])
      PROVE  Closed(h[k])
  <2>1. k + 1 \in 0 .. n /\ 1 \in 1 .. k + 1
    BY <1>2
  <2>2. \A j \in 1 .. k : j \in 1 .. n - 1 /\ j + 1 \in 1 .. k + 1
    BY <1>2
  <2>3. ready \/ \E j \in 1 .. k + 1 : Ends(q[j])
    <3>1. CASE ready
      BY <3>1
    <3>2. CASE Ends(q[1])
      BY <2>1, <3>2
    <3>3. CASE \E j \in 1 .. k : Ends(t[j])
      BY <1>2, <2>2, <3>3
    <3> QED
      BY <1>8, <3>1, <3>2, <3>3
  <2>4. Closed(g[k + 1])
    BY <1>1, <2>1, <2>3 DEF Leads, n
  <2> QED
    BY <1>3, <2>4
<1> HIDE DEF h
<1>9. Leads(h, ApplyAll(m, Taken(q[1])), t, a, ready \/ Ends(q[1]))
  BY <1>2, <1>6, <1>7, <1>8 DEF Leads
<1>10. Led(ApplyAll(m, Taken(q[1])), t, a, ready \/ Ends(q[1]))
  BY <1>2, <1>5, <1>9 DEF Led
<1> QED
  BY <1>2, <1>4, <1>10 DEF Handled, t
-----------------------------------------------------------------------------
(* A client that connects *)

(* d with a new component. *)
Grown(d, id, v, e) ==
  /\ d \in Maps /\ Closed(d)
  /\ id \in ID /\ id \notin DOMAIN d
  /\ v \in DOMAIN d \cup {NoRef}
  /\ e = Put(d, id, v)

LEMMA GrownIs ==
  ASSUME NEW d, NEW id, NEW v, NEW e, Grown(d, id, v, e)
  PROVE  /\ DOMAIN e = DOMAIN d \cup {id}
         /\ e[id] = v
         /\ \A i \in DOMAIN d : e[i] = d[i] /\ i # id /\ d[i] # id
         /\ v # id
<1>1. /\ DOMAIN e = DOMAIN d \cup {id}
      /\ \A i \in DOMAIN e : e[i] = IF i = id THEN v ELSE d[i]
  BY DEF Grown, Put
<1>2. NoRef # id
  BY SyncAssumption DEF Grown
<1>3. \A i \in DOMAIN d : d[i] \in DOMAIN d \cup {NoRef}
  BY DEF Grown, Closed
<1> QED
  BY <1>1, <1>2, <1>3 DEF Grown

LEMMA PartGrown ==
  ASSUME NEW m, NEW d, NEW id, NEW v, NEW e, Grown(d, id, v, e), PartOf(m, d)
  PROVE  PartOf(m, e)
<1>1. /\ DOMAIN e = DOMAIN d \cup {id}
      /\ e[id] = v
      /\ \A i \in DOMAIN d : e[i] = d[i] /\ i # id /\ d[i] # id
      /\ v # id
  BY GrownIs
<1>2. DOMAIN m \subseteq DOMAIN e /\ \A i \in DOMAIN m : e[i] = d[i]
  BY <1>1 DEF PartOf
<1> QED
  BY <1>2 DEF PartOf

(* Its creation is announced to a client that connects. *)
LEMMA ConnectingGrown ==
  ASSUME NEW V, NEW m, NEW q \in Seq(V), NEW d, NEW id, NEW v, NEW e,
         Message(<<Creation(e, id)>>) \in V,
         Grown(d, id, v, e), Connecting(m, q, d)
  PROVE  Connecting(m, Append(q, Message(<<Creation(e, id)>>)), e)
<1> DEFINE n == Len(q)
           x == Message(<<Creation(e, id)>>)
           r == Append(q, x)
<1>1. /\ n \in Nat /\ Len(r) = n + 1 /\ r[n + 1] = x
      /\ \A k \in 1 .. n : r[k] = q[k]
  BY HasAppended
<1>2. /\ DOMAIN e = DOMAIN d \cup {id}
      /\ e[id] = v
      /\ \A i \in DOMAIN d : e[i] = d[i] /\ i # id /\ d[i] # id
      /\ v # id
  BY GrownIs
<1>3. New(r, n + 1) = id
  BY <1>1 DEF Message, Creation, New
<1>4. \A k \in 1 .. n : New(r, k) = New(q, k)
  BY <1>1 DEF New
<1>5. \A k : k \in 1 .. n + 1 <=> k \in 1 .. n \/ k = n + 1
  BY <1>1
<1> HIDE DEF n, r, x
<1>6. /\ \A k \in 1 .. n : New(q, k) \in DOMAIN d
      /\ \A k \in 1 .. n : q[k] = Message(<<Creation(d, New(q, k))>>)
  BY DEF Connecting, News, n
<1>7. News(r, e)
  <2>1. SUFFICES ASSUME NEW k \in 1 .. n + 1
                 PROVE  /\ New(r, k) \in DOMAIN e
                        /\ r[k] = Message(<<Creation(e, New(r, k))>>)
    BY <1>1 DEF News
  <2>2. CASE k = n + 1
    BY <1>1, <1>2, <1>3, <2>2 DEF x
  <2>3. CASE k \in 1 .. n
    <3>1. New(r, k) = New(q, k) /\ New(q, k) \in DOMAIN d /\ r[k] = q[k]
      BY <1>1, <1>4, <1>6, <2>3
    <3>2. Creation(e, New(q, k)) = Creation(d, New(q, k))
      BY <1>2, <3>1 DEF Creation
    <3> QED
      BY <1>2, <1>6, <2>3, <3>1, <3>2
  <2> QED
    BY <1>5, <2>1, <2>2, <2>3
<1>8. Fresh(m, r, e)
  <2>1. DOMAIN m \subseteq DOMAIN d
    BY DEF Connecting, PartOf
  <2>2. /\ \A k \in 1 .. n : New(q, k) \notin DOMAIN m
        /\ \A j, k \in 1 .. n : New(q, j) = New(q, k) => j = k
        /\ \A i \in DOMAIN d : \A j \in 1 .. n :
             d[i] = New(q, j) => \E k \in j + 1 .. n : i = New(q, k)
    BY DEF Connecting, Fresh, n
  <2>3. id \notin DOMAIN m /\ \A k \in 1 .. n : New(q, k) # id
    BY <1>2, <1>6, <2>1
  <2>4. \A k \in 1 .. n + 1 : New(r, k) \notin DOMAIN m
    BY <1>3, <1>4, <1>5, <2>2, <2>3
  <2>5. \A j, k \in 1 .. n + 1 : New(r, j) = New(r, k) => j = k
    BY <1>3, <1>4, <1>5, <2>2, <2>3
  <2>6. ASSUME NEW i \in DOMAIN e, NEW j \in 1 .. n + 1, e[i] = New(r, j)
        PROVE  \E k \in j + 1 .. n + 1 : i = New(r, k)
    <3>1. j # n + 1
      BY <1>2, <1>3, <2>6
    <3>2. j \in 1 .. n /\ n + 1 \in j + 1 .. n + 1
      BY <1>1, <1>5, <3>1
    <3>3. CASE i = id
      BY <1>3, <3>2, <3>3
    <3>4. CASE i # id
      <4>1. i \in DOMAIN d /\ d[i] = New(q, j)
        BY <1>2, <1>4, <2>6, <3>2, <3>4
      <4>2. PICK k \in j + 1 .. n : i = New(q, k)
        BY <2>2, <3>2, <4>1
      <4>3. k \in 1 .. n /\ k \in j + 1 .. n + 1
        BY <1>1, <3>2
      <4> QED
        BY <1>4, <4>2, <4>3
    <3> QED
      BY <3>3, <3>4
  <2> QED
    BY <1>1, <2>4, <2>5, <2>6 DEF Fresh
<1> QED
  BY <1>7, <1>8, PartGrown DEF Connecting, r, x

LEMMA CreatesGrown ==
  ASSUME NEW es, NEW d, NEW id, NEW v, NEW e, Grown(d, id, v, e),
         Creates(es, d)
  PROVE  Creates(es, e)
<1>1. /\ DOMAIN e = DOMAIN d \cup {id}
      /\ e[id] = v
      /\ \A i \in DOMAIN d : e[i] = d[i] /\ i # id /\ d[i] # id
      /\ v # id
  BY GrownIs
<1>2. \A i \in DOMAIN d : Creation(e, i) = Creation(d, i)
  BY <1>1 DEF Creation
<1> QED
  BY <1>1, <1>2 DEF Creates

(* The components that a list of creations creates are of d. *)
LEMMA CreatedIn ==
  ASSUME NEW es, NEW d, Creates(es, d)
  PROVE  Created(es) \subseteq DOMAIN d
BY DEF Creates, Created

LEMMA CompleteGrown ==
  ASSUME NEW V, NEW D, NEW m, NEW q \in Seq(V),
         NEW d, NEW id, NEW v, NEW e,
         Message(<<Creation(e, id)>>) \in V,
         Grown(d, id, v, e), Complete(D, m, q, d)
  PROVE  Complete(D, m, Append(q, Message(<<Creation(e, id)>>)), e)
<1> DEFINE n == Len(q)
           x == Message(<<Creation(e, id)>>)
           r == Append(q, x)
           C == Created(D.elements)
<1>1. /\ n \in Nat /\ Len(r) = n + 1 /\ r[n + 1] = x
      /\ \A k \in 1 .. n : r[k] = q[k]
  BY HasAppended
<1>2. /\ DOMAIN e = DOMAIN d \cup {id}
      /\ e[id] = v
      /\ \A i \in DOMAIN d : e[i] = d[i] /\ i # id /\ d[i] # id
      /\ v # id
  BY GrownIs
<1>3. New(r, n + 1) = id /\ n + 1 \in 1 .. n + 1
  BY <1>1 DEF Message, Creation, New
<1>4. \A k \in 1 .. n : New(r, k) = New(q, k) /\ k \in 1 .. n + 1
  BY <1>1 DEF New
<1> HIDE DEF n, r, x
<1>5. Creates(D.elements, e)
  BY CreatesGrown DEF Complete
<1>6. C \subseteq DOMAIN d /\ \A i \in C : d[i] # NoRef => d[i] \in C
  BY CreatedIn DEF Complete
<1>7. \A i \in DOMAIN d : i \in C \cup DOMAIN m \/ \E k \in 1 .. n : i = New(q, k)
  BY DEF Complete, n
<1> HIDE DEF C
<1>8. \A i \in C : e[i] # NoRef => e[i] \in C
  BY <1>2, <1>6
<1>9. ASSUME NEW i \in DOMAIN e
      PROVE  i \in C \cup DOMAIN m \/ \E k \in 1 .. n + 1 : i = New(r, k)
  <2>1. CASE i = id
    BY <1>3, <2>1
  <2>2. CASE i \in DOMAIN d
    BY <1>4, <1>7, <2>2
  <2> QED
    BY <1>2, <2>1, <2>2
<1>10. D.count = Len(D.elements)
  BY DEF Complete
<1> QED
  BY <1>1, <1>5, <1>8, <1>9, <1>10 DEF Complete, C, r, x

(* A client that connects handles a creation. *)
LEMMA ConnectingTail ==
  ASSUME NEW V, NEW m, NEW q \in Seq(V), NEW d, q # <<>>, Connecting(m, q, d)
  PROVE  /\ Head(q).count = Len(Head(q).elements)
         /\ Taken(Head(q)) = <<Creation(d, New(q, 1))>>
         /\ ~ DeletesUnknown(m, Taken(Head(q)))
         /\ ApplyAll(m, Taken(Head(q))) = Put(m, New(q, 1), d[New(q, 1)])
         /\ ~ Ends(Head(q))
         /\ Connecting(Put(m, New(q, 1), d[New(q, 1)]), Tail(q), d)
         /\ \A D : Complete(D, m, q, d) =>
              Complete(D, Put(m, New(q, 1), d[New(q, 1)]), Tail(q), d)
<1> DEFINE n == Len(q)
           t == Tail(q)
           id == New(q, 1)
           p == Put(m, id, d[id])
           c == Creation(d, id)
<1>1. /\ n \in Nat /\ n >= 1 /\ Len(t) = n - 1 /\ Head(q) = q[1]
      /\ \A k \in 1 .. n - 1 : t[k] = q[k + 1]
  BY HasTail
<1>2. \A k \in 1 .. n - 1 : New(t, k) = New(q, k + 1)
  BY <1>1 DEF New
<1>3. 1 \in 1 .. n /\ \A k \in 1 .. n - 1 : k + 1 \in 1 .. n
  BY <1>1
<1>4. News(q, d) /\ Fresh(m, q, d) /\ PartOf(m, d)
  BY DEF Connecting
<1>5. id \in DOMAIN d /\ Head(q) = Message(<<c>>)
  BY <1>1, <1>3, <1>4 DEF News
<1> HIDE DEF n, t, id
<1>6. c.kind = "create" /\ c.id = id /\ c.value = d[id]
  BY DEF Creation
<1>7. DOMAIN p = DOMAIN m \cup {id} /\ PartOf(p, d)
  BY <1>4, <1>5 DEF Put, PartOf
<1>8. Apply(m, c) = p
  BY <1>6 DEF Apply
<1>9. Handled(m, Message(<<c>>), p)
  <2> HIDE DEF c
  <2>1. c.kind # "delete"
    BY <1>6
  <2> QED
    BY <1>8, <2>1, HandledOne
<1> HIDE DEF c, p
<1>10. /\ Head(q).count = Len(Head(q).elements)
       /\ Taken(Head(q)) = <<c>>
       /\ ~ DeletesUnknown(m, Taken(Head(q)))
       /\ ApplyAll(m, Taken(Head(q))) = p
  BY <1>5, <1>9, TakenOne DEF Handled
<1>11. ~ Ends(Head(q))
  BY <1>6, <1>10 DEF Ends
<1>12. News(t, d)
  BY <1>1, <1>2, <1>3, <1>4 DEF News, n
<1>13. Fresh(p, t, d)
  <2>1. /\ \A k \in 1 .. n : New(q, k) \notin DOMAIN m
        /\ \A j, k \in 1 .. n : New(q, j) = New(q, k) => j = k
        /\ \A i \in DOMAIN d : \A j \in 1 .. n :
             d[i] = New(q, j) => \E k \in j + 1 .. n : i = New(q, k)
    BY <1>4 DEF Fresh, n
  <2>2. ASSUME NEW k \in 1 .. n - 1
        PROVE  New(t, k) \notin DOMAIN p
    <3>1. New(t, k) = New(q, k + 1) /\ k + 1 \in 1 .. n /\ k + 1 # 1
      BY <1>2, <1>3
    <3>2. New(q, k + 1) # id
      BY <1>3, <2>1, <3>1 DEF id
    <3> QED
      BY <1>7, <2>1, <3>1, <3>2
  <2>3. ASSUME NEW j \in 1 .. n - 1, NEW k \in 1 .. n - 1, New(t, j) = New(t, k)
        PROVE  j = k
    <3>1. j + 1 = k + 1
      BY <1>2, <1>3, <2>1, <2>3
    <3> QED
      BY <3>1
  <2>4. ASSUME NEW i \in DOMAIN d, NEW j \in 1 .. n - 1, d[i] = New(t, j)
        PROVE  \E k \in j + 1 .. n - 1 : i = New(t, k)
    <3>1. j + 1 \in 1 .. n /\ d[i] = New(q, j + 1)
      BY <1>2, <1>3, <2>4
    <3>2. PICK k \in (j + 1) + 1 .. n : i = New(q, k)
      BY <2>1, <3>1
    <3>3. k - 1 \in j + 1 .. n - 1 /\ k - 1 \in 1 .. n - 1 /\ (k - 1) + 1 = k
      BY <1>1, <3>1
    <3>4. New(t, k - 1) = New(q, k)
      BY <1>2, <3>3
    <3> QED
      BY <3>2, <3>3, <3>4
  <2> QED
    BY <1>1, <2>2, <2>3, <2>4 DEF Fresh
<1>14. ASSUME NEW D, Complete(D, m, q, d)
       PROVE  Complete(D, p, t, d)
  <2> DEFINE C == Created(D.elements)
  <2>1. \A i \in DOMAIN d : i \in C \cup DOMAIN m \/ \E k \in 1 .. n : i = New(q, k)
    BY <1>14 DEF Complete, n
  <2> HIDE DEF C
  <2>2. ASSUME NEW i \in DOMAIN d
        PROVE  i \in C \cup DOMAIN p \/ \E k \in 1 .. n - 1 : i = New(t, k)
    <3>1. CASE i \in C \cup DOMAIN m
      BY <1>7, <3>1
    <3>2. CASE \E k \in 1 .. n : i = New(q, k)
      <4>1. PICK k \in 1 .. n : i = New(q, k)
        BY <3>2
      <4>2. CASE k = 1
        BY <1>7, <4>1, <4>2 DEF id
      <4>3. CASE k # 1
        <5>1. k - 1 \in 1 .. n - 1 /\ (k - 1) + 1 = k
          BY <1>1, <4>3
        <5>2. New(t, k - 1) = i
          BY <1>2, <4>1, <5>1
        <5> QED
          BY <5>1, <5>2
      <4> QED
        BY <4>2, <4>3
    <3> QED
      BY <2>1, <3>1, <3>2
  <2> QED
    BY <1>1, <1>14, <2>2 DEF Complete, C
<1> QED
  BY <1>7, <1>10, <1>11, <1>12, <1>13, <1>14 DEF Connecting, id, p, c, t
-----------------------------------------------------------------------------
(* The dump reaches the stream of a client that connects *)

(* The components that the first k messages of q announce. *)
NewIDs(q, k) == {New(q, j) : j \in 1 .. k}

LEMMA PartType ==
  ASSUME NEW d \in Maps, NEW S \in SUBSET DOMAIN d
  PROVE  Part(d, S) \in Maps
<1> DEFINE p == Part(d, S)
<1>1. /\ DOMAIN d \subseteq ID
      /\ \A i \in DOMAIN d : d[i] \in ID \cup {NoRef}
  BY MapsAre
<1>2. p = [i \in DOMAIN p |-> p[i]] /\ DOMAIN p = S /\ \A i \in S : p[i] = d[i]
  BY DEF Part
<1>3. DOMAIN p \subseteq ID /\ \A i \in DOMAIN p : p[i] \in ID \cup {NoRef}
  BY <1>1, <1>2
<1> HIDE DEF p
<1> QED
  BY <1>2, <1>3, MapsAre DEF p

LEMMA PartHandles ==
  ASSUME NEW d, NEW S \in SUBSET DOMAIN d, NEW id \in DOMAIN d
  PROVE  /\ Handled(Part(d, S), Message(<<Creation(d, id)>>), Part(d, S \cup {id}))
         /\ ~ Ends(Message(<<Creation(d, id)>>))
<1> DEFINE c == Creation(d, id)
<1>1. c.kind = "create" /\ c.id = id /\ c.value = d[id]
  BY DEF Creation
<1> HIDE DEF c
<1>2. Apply(Part(d, S), c) = Put(Part(d, S), id, d[id])
  BY <1>1 DEF Apply
<1>3. Put(Part(d, S), id, d[id]) = Part(d, S \cup {id})
  BY DEF Put, Part
<1>4. c.kind # "delete"
  BY <1>1
<1>5. Handled(Part(d, S), Message(<<c>>), Part(d, S \cup {id}))
  BY <1>2, <1>3, <1>4, HandledOne
<1>6. ~ Ends(Message(<<c>>))
  BY <1>1, TakenOne DEF Ends
<1> QED
  BY <1>5, <1>6 DEF c

(* The dump adds its components to a part of d. *)
LEMMA DumpHandled ==
  ASSUME NEW D \in Messages, NEW m, NEW q, NEW d, NEW S \in SUBSET DOMAIN d,
         Complete(D, m, q, d)
  PROVE  Handled(Part(d, S), D, Part(d, S \cup Created(D.elements)))
<1> DEFINE es == D.elements
<1>1. es \in Seq(Element) /\ D.count = Len(es) /\ Creates(es, d)
  BY DEF Messages, Complete
<1>2. Taken(D) = es
  BY <1>1, TakenAll
<1>3. DOMAIN Part(d, S) = S /\ PartOf(Part(d, S), d)
  BY DEF Part, PartOf
<1> HIDE DEF es
<1>4. ApplyAll(Part(d, S), es) = Part(d, DOMAIN Part(d, S) \cup Created(es))
  BY <1>1, <1>3, ApplyCreates
<1>5. ApplyAll(Part(d, S), es) = Part(d, S \cup Created(es))
  BY <1>3, <1>4
<1>6. ~ DeletesUnknown(Part(d, S), es)
  BY <1>1, CreatesKnown
<1>7. D.count <= Len(D.elements)
  BY <1>1 DEF es
<1> QED
  BY <1>2, <1>5, <1>6, <1>7 DEF Handled, es

(* With the dump a client has what all it has refers to: what refers to a  *)
(* component announced later is announced later still, or is in the dump.  *)
LEMMA WithDumpClosed ==
  ASSUME NEW V, NEW D, NEW m, NEW q \in Seq(V), NEW d, NEW k \in 0 .. Len(q),
         Closed(d), Connecting(m, q, d), Complete(D, m, q, d)
  PROVE  Closed(Part(d, (DOMAIN m \cup NewIDs(q, k)) \cup Created(D.elements)))
<1> DEFINE n == Len(q)
           C == Created(D.elements)
           S == (DOMAIN m \cup NewIDs(q, k)) \cup C
<1>1. n \in Nat
  OBVIOUS
<1>2. /\ \A j \in 1 .. n : New(q, j) \notin DOMAIN m
      /\ \A i, j \in 1 .. n : New(q, i) = New(q, j) => i = j
      /\ \A id \in DOMAIN d : \A j \in 1 .. n :
           d[id] = New(q, j) => \E i \in j + 1 .. n : id = New(q, i)
  BY DEF Connecting, Fresh, n
<1>3. /\ \A id \in C : d[id] # NoRef => d[id] \in C
      /\ \A id \in DOMAIN d : id \in C \cup DOMAIN m \/ \E j \in 1 .. n : id = New(q, j)
  BY DEF Complete, n
<1>4. C \subseteq DOMAIN d /\ DOMAIN m \subseteq DOMAIN d
  BY CreatedIn DEF Complete, Connecting, PartOf
<1>5. \A j \in 1 .. n : New(q, j) \in DOMAIN d
  BY DEF Connecting, News, n
<1> HIDE DEF n, C
<1>6. \A j \in 1 .. k : j \in 1 .. n
  BY <1>1 DEF n
<1>7. S \subseteq DOMAIN d
  BY <1>4, <1>5, <1>6 DEF NewIDs
<1>8. ASSUME NEW id \in S, d[id] # NoRef
      PROVE  d[id] \in S
  <2>1. CASE id \in C
    BY <1>3, <1>8, <2>1
  <2>2. CASE id \notin C
    <3>1. SUFFICES ASSUME d[id] \notin S PROVE FALSE
      OBVIOUS
    <3>2. id \in DOMAIN d /\ d[id] \in DOMAIN d
      BY <1>7, <1>8 DEF Closed
    <3>3. PICK j \in 1 .. n : d[id] = New(q, j)
      BY <1>3, <3>1, <3>2
    <3>4. ~ (j \in 1 .. k)
      BY <3>1, <3>3 DEF NewIDs
    <3>5. PICK i \in j + 1 .. n : id = New(q, i)
      BY <1>2, <3>2, <3>3
    <3>6. i \in 1 .. n /\ i \notin 1 .. k
      BY <1>1, <3>4
    <3>7. id \notin DOMAIN m
      BY <1>2, <3>5, <3>6
    <3>8. PICK h \in 1 .. k : id = New(q, h)
      BY <2>2, <3>7 DEF NewIDs
    <3>9. h = i
      BY <1>2, <1>6, <3>5, <3>6, <3>8
    <3> QED
      BY <3>6, <3>8, <3>9
  <2> QED
    BY <2>1, <2>2
<1> HIDE DEF S
<1>9. Closed(Part(d, S))
  BY <1>8 DEF Closed, Part
<1> QED
  BY <1>9 DEF S, C

LEMMA LedByDump ==
  ASSUME NEW D \in Messages, NEW m, NEW p \in Seq(Messages),
         NEW s \in Seq(Messages), NEW d \in Maps, Closed(d),
         Connecting(m, p \o s, d), Complete(D, m, p \o s, d)
  PROVE  Led(m, Append(p, D) \o s, d, FALSE)
<1> DEFINE q == p \o s
           a == Append(p, D)
           r == a \o s
           n == Len(p)
           l == Len(s)
           C == Created(D.elements)
<1>1. /\ q \in Seq(Messages) /\ Len(q) = n + l /\ n \in Nat /\ l \in Nat
      /\ \A k \in 1 .. n : q[k] = p[k]
      /\ \A k \in n + 1 .. n + l : q[k] = s[k - n]
  BY HasConcatenated
<1>2. /\ a \in Seq(Messages) /\ Len(a) = n + 1 /\ a[n + 1] = D
      /\ \A k \in 1 .. n : a[k] = p[k]
  BY HasAppended
<1>3. /\ r \in Seq(Messages) /\ Len(r) = (n + 1) + l
      /\ \A k \in 1 .. n + 1 : r[k] = a[k]
      /\ \A k \in (n + 1) + 1 .. (n + 1) + l : r[k] = s[k - (n + 1)]
  <2> HIDE DEF a
  <2>1. /\ a \o s \in Seq(Messages)
        /\ Len(a \o s) = Len(a) + Len(s)
        /\ Len(a) \in Nat /\ Len(s) \in Nat
        /\ \A k \in 1 .. Len(a) : (a \o s)[k] = a[k]
        /\ \A k \in Len(a) + 1 .. Len(a) + Len(s) : (a \o s)[k] = s[k - Len(a)]
    BY <1>2, HasConcatenated
  <2> QED
    BY <1>2, <2>1
<1> HIDE DEF q, a, r, n, l, C
<1>4. /\ \A k \in 1 .. n : r[k] = q[k]
      /\ r[n + 1] = D
      /\ \A k \in n + 2 .. n + l + 1 : r[k] = q[k - 1]
  <2>1. ASSUME NEW k \in 1 .. n
        PROVE  r[k] = q[k]
    <3>1. k \in 1 .. n + 1
      BY <1>1
    <3> QED
      BY <1>1, <1>2, <1>3, <3>1
  <2>2. r[n + 1] = D
    <3>1. n + 1 \in 1 .. n + 1
      BY <1>1
    <3> QED
      BY <1>2, <1>3, <3>1
  <2>3. ASSUME NEW k \in n + 2 .. n + l + 1
        PROVE  r[k] = q[k - 1]
    <3>1. /\ k \in (n + 1) + 1 .. (n + 1) + l /\ k - 1 \in n + 1 .. n + l
          /\ (k - 1) - n = k - (n + 1)
      BY <1>1
    <3> QED
      BY <1>1, <1>3, <3>1
  <2> QED
    BY <2>1, <2>2, <2>3
<1>5. Connecting(m, q, d) /\ Complete(D, m, q, d)
  BY DEF q
<1>6. \A k \in 1 .. n + l : /\ New(q, k) \in DOMAIN d
                            /\ q[k] = Message(<<Creation(d, New(q, k))>>)
  BY <1>1, <1>5 DEF Connecting, News
<1>7. DOMAIN m \subseteq DOMAIN d /\ m = Part(d, DOMAIN m) /\ C \subseteq DOMAIN d
  BY <1>5, CreatedIn DEF Connecting, PartOf, Part, Complete, C
<1>8. \A i \in DOMAIN d : i \in C \cup DOMAIN m \/ \E k \in 1 .. n + l : i = New(q, k)
  BY <1>1, <1>5 DEF Complete, C
<1> DEFINE N(k) == DOMAIN m \cup NewIDs(q, k)
           S(k) == IF k <= n THEN N(k) ELSE N(k - 1) \cup C
           g == [k \in 0 .. n + l + 1 |-> Part(d, S(k))]
<1>9. \A k \in 0 .. n + l : N(k) \in SUBSET DOMAIN d
  <2> TAKE k \in 0 .. n + l
  <2>1. \A j \in 1 .. k : j \in 1 .. n + l
    BY <1>1
  <2> QED
    BY <1>6, <1>7, <2>1 DEF NewIDs
<1>10. \A k \in 1 .. n + l : N(k) = N(k - 1) \cup {New(q, k)}
  <2> TAKE k \in 1 .. n + l
  <2>1. \A j : j \in 1 .. k <=> j \in 1 .. k - 1 \/ j = k
    BY <1>1
  <2> QED
    BY <2>1 DEF NewIDs
<1>11. N(0) = DOMAIN m
  <2>1. \A j : j \notin 1 .. 0
    OBVIOUS
  <2> QED
    BY <2>1 DEF NewIDs
<1> HIDE DEF N
<1>12. \A k \in 0 .. n + l + 1 : S(k) \in SUBSET DOMAIN d
  <2> TAKE k \in 0 .. n + l + 1
  <2>1. CASE k <= n
    <3>1. k \in 0 .. n + l
      BY <1>1, <2>1
    <3> QED
      BY <1>9, <2>1, <3>1
  <2>2. CASE ~ (k <= n)
    <3>1. k - 1 \in 0 .. n + l
      BY <1>1, <2>2
    <3> QED
      BY <1>7, <1>9, <2>2, <3>1
  <2> QED
    BY <2>1, <2>2
<1>13. g \in [0 .. n + l + 1 -> Maps]
  <2> HIDE DEF S
  <2> QED
    BY <1>12, PartType
<1>14. g[0] = m
  <2>1. 0 \in 0 .. n + l + 1 /\ S(0) = DOMAIN m
    BY <1>1, <1>11
  <2> HIDE DEF S
  <2> QED
    BY <1>7, <2>1
<1>15. g[n + l + 1] = d
  <2>1. /\ n + l + 1 \in 0 .. n + l + 1 /\ ~ (n + l + 1 <= n)
        /\ (n + l + 1) - 1 = n + l /\ n + l \in 0 .. n + l
    BY <1>1
  <2>2. S(n + l + 1) = N(n + l) \cup C
    BY <2>1
  <2>3. DOMAIN d \subseteq N(n + l) \cup C
    BY <1>8 DEF N, NewIDs
  <2>4. N(n + l) \cup C = DOMAIN d
    BY <1>7, <1>9, <2>1, <2>3
  <2>5. Part(d, DOMAIN d) = d
    BY MapsAre DEF Part
  <2> HIDE DEF S
  <2> QED
    BY <2>1, <2>2, <2>4, <2>5
<1>16. ASSUME NEW k \in 1 .. n + l + 1
       PROVE  Handled(g[k - 1], r[k], g[k])
  <2>1. k \in 0 .. n + l + 1 /\ k - 1 \in 0 .. n + l + 1
    BY <1>1
  <2>2. g[k - 1] = Part(d, S(k - 1)) /\ g[k] = Part(d, S(k))
    BY <2>1
  <2>3. CASE k <= n
    <3>1. k \in 1 .. n /\ k - 1 <= n /\ k \in 1 .. n + l /\ k - 1 \in 0 .. n + l
      BY <1>1, <2>3
    <3>2. S(k - 1) = N(k - 1) /\ S(k) = N(k - 1) \cup {New(q, k)}
      BY <1>10, <2>3, <3>1
    <3>3. r[k] = Message(<<Creation(d, New(q, k))>>) /\ New(q, k) \in DOMAIN d
      BY <1>4, <1>6, <3>1
    <3> HIDE DEF S, g
    <3> QED
      BY <1>9, <2>2, <3>1, <3>2, <3>3, PartHandles
  <2>4. CASE k = n + 1
    <3>1. k - 1 <= n /\ ~ (k <= n) /\ k - 1 \in 0 .. n + l
      BY <1>1, <2>4
    <3>2. S(k - 1) = N(k - 1) /\ S(k) = N(k - 1) \cup C
      BY <3>1
    <3>3. r[k] = D
      BY <1>4, <2>4
    <3>4. N(k - 1) \in SUBSET DOMAIN d
      BY <1>9, <3>1
    <3>5. Handled(Part(d, N(k - 1)), D, Part(d, N(k - 1) \cup C))
      BY <1>5, <3>4, DumpHandled DEF C
    <3> HIDE DEF S, g
    <3> QED
      BY <2>2, <3>2, <3>3, <3>5
  <2>5. CASE k > n + 1
    <3>1. /\ k \in n + 2 .. n + l + 1 /\ ~ (k - 1 <= n) /\ ~ (k <= n)
          /\ k - 1 \in 1 .. n + l /\ (k - 1) - 1 \in 0 .. n + l
      BY <1>1, <2>5
    <3>2. N(k - 1) = N((k - 1) - 1) \cup {New(q, k - 1)}
      BY <1>10, <3>1
    <3>3. /\ S(k - 1) = N((k - 1) - 1) \cup C
          /\ S(k) = (N((k - 1) - 1) \cup C) \cup {New(q, k - 1)}
      BY <3>1, <3>2
    <3>4. r[k] = Message(<<Creation(d, New(q, k - 1))>>) /\ New(q, k - 1) \in DOMAIN d
      BY <1>4, <1>6, <3>1
    <3>5. N((k - 1) - 1) \cup C \in SUBSET DOMAIN d
      BY <1>7, <1>9, <3>1
    <3> HIDE DEF S, g
    <3> QED
      BY <2>2, <3>3, <3>4, <3>5, PartHandles
  <2> QED
    BY <1>1, <2>3, <2>4, <2>5
<1>17. ASSUME NEW k \in 0 .. n + l + 1, \E j \in 1 .. k : Ends(r[j])
       PROVE  Closed(g[k])
  <2>1. PICK j \in 1 .. k : Ends(r[j])
    BY <1>17
  <2>2. ~ (k <= n)
    <3>1. SUFFICES ASSUME k <= n PROVE FALSE
      OBVIOUS
    <3>2. j \in 1 .. n /\ j \in 1 .. n + l
      BY <1>1, <3>1
    <3>3. r[j] = Message(<<Creation(d, New(q, j))>>) /\ New(q, j) \in DOMAIN d
      BY <1>4, <1>6, <3>2
    <3>4. {} \in SUBSET DOMAIN d
      OBVIOUS
    <3> QED
      BY <2>1, <3>3, <3>4, PartHandles
  <2>3. k - 1 \in 0 .. Len(q)
    BY <1>1, <2>2
  <2>4. g[k] = Part(d, N(k - 1) \cup C)
    BY <2>2
  <2>5. Closed(Part(d, (DOMAIN m \cup NewIDs(q, k - 1)) \cup Created(D.elements)))
    BY <1>1, <1>5, <2>3, WithDumpClosed
  <2> QED
    BY <2>4, <2>5 DEF N, C
<1> HIDE DEF g
<1>18. (n + 1) + l = n + l + 1
  BY <1>1
<1>19. Leads(g, m, r, d, FALSE)
  BY <1>3, <1>14, <1>15, <1>16, <1>17, <1>18 DEF Leads
<1>20. Led(m, r, d, FALSE)
  BY <1>3, <1>13, <1>18, <1>19 DEF Led
<1> QED
  BY <1>20 DEF r, a
-----------------------------------------------------------------------------
(* The dump *)

LEMMA PlusType ==
  ASSUME Ordered, NEW sum \in Nat, NEW l \in Lists
  PROVE  Plus(sum, l) \in Nat
<1>1. order[l] \in Seq(ID)
  BY DEF Ordered
<1>2. Len(order[l]) \in Nat
  BY <1>1
<1> QED
  BY <1>2 DEF Plus

(* Every list counts: one that all_element_count() leaves out is empty. *)
LEMMA PlusAll ==
  ASSUME Ordered, AllCounted, NEW sum \in Nat, NEW l \in Lists
  PROVE  Plus(sum, l) = sum + Len(order[l])
<1>1. CASE l \in Counted
  BY <1>1 DEF Plus
<1>2. CASE l \notin Counted
  <2>1. order[l] \in Seq(ID)
    BY DEF Ordered
  <2>2. Len(order[l]) \in Nat
    BY <2>1
  <2>3. ASSUME NEW i \in 1 .. Len(order[l])
        PROVE  FALSE
    <3>1. order[l][i] \in DOMAIN content /\ order[l][i].list = l
      BY DEF Ordered, Listed
    <3> QED
      BY <1>2, <3>1 DEF AllCounted
  <2>4. Len(order[l]) = 0
    <3>1. Len(order[l]) >= 1 => 1 \in 1 .. Len(order[l])
      BY <2>2
    <3> QED
      BY <2>2, <2>3, <3>1
  <2> QED
    BY <1>2, <2>4 DEF Plus
<1> QED
  BY <1>1, <1>2

LEMMA InDumpOrder ==
  /\ Len(DumpOrder) \in Nat
  /\ \A k \in 1 .. Len(DumpOrder) : DumpOrder[k] \in Lists
  /\ \A l \in Lists : \E k \in 1 .. Len(DumpOrder) : DumpOrder[k] = l
<1>1. DumpOrder \in Seq(Lists)
  BY SyncAssumption
<1>2. DOMAIN DumpOrder = 1 .. Len(DumpOrder) /\ Len(DumpOrder) \in Nat
  BY <1>1
<1> QED
  BY <1>2 DEF Lists, ToSet

LEMMA Counting ==
  ASSUME Ordered
  PROVE  /\ ElementCount \in Nat
         /\ AllCounted =>
              \E s \in [0 .. Len(DumpOrder) -> Nat] :
                Sums(s, order) /\ ElementCount = s[Len(DumpOrder)]
<1> DEFINE n == Len(DumpOrder)
<1>1. n \in Nat /\ \A k \in 1 .. n : DumpOrder[k] \in Lists
  BY InDumpOrder
<1>2. PICK f : CountPath(f) /\ ElementCount = f[n]
  BY SyncAssumption, CountRun
<1> DEFINE T == {k \in Nat : k <= n => f[k] \in Nat}
<1> HIDE DEF n
<1>3. f[0] = 0 /\ \A k \in 1 .. n : f[k] = Plus(f[k - 1], DumpOrder[k])
  BY <1>2 DEF CountPath, n
<1>4. 0 \in T
  BY <1>3
<1>5. ASSUME NEW k \in T
      PROVE  k + 1 \in T
  <2>1. SUFFICES ASSUME k + 1 <= n PROVE f[k + 1] \in Nat
    OBVIOUS
  <2>2. k + 1 \in 1 .. n /\ (k + 1) - 1 = k /\ k <= n
    BY <1>1, <2>1
  <2>3. f[k] \in Nat /\ DumpOrder[k + 1] \in Lists
    BY <1>1, <2>2
  <2>4. f[k + 1] = Plus(f[k], DumpOrder[k + 1])
    BY <1>3, <2>2
  <2> QED
    BY <2>3, <2>4, PlusType
<1>6. T \in SUBSET Nat
  OBVIOUS
<1> HIDE DEF T
<1>7. T = Nat
  BY <1>4, <1>5, <1>6, NatSets
<1>8. \A k \in 0 .. n : f[k] \in Nat
  <2> TAKE k \in 0 .. n
  <2>1. k \in T /\ k <= n
    BY <1>1, <1>7
  <2> QED
    BY <2>1 DEF T
<1>9. ASSUME AllCounted
      PROVE  \E s \in [0 .. n -> Nat] : Sums(s, order) /\ ElementCount = s[n]
  <2> DEFINE s == [k \in 0 .. n |-> f[k]]
  <2>1. s \in [0 .. n -> Nat]
    BY <1>8
  <2>2. s[0] = 0 /\ ElementCount = s[n]
    BY <1>1, <1>2, <1>3
  <2>3. ASSUME NEW k \in 1 .. n
        PROVE  s[k] = s[k - 1] + Len(order[DumpOrder[k]])
    <3>1. k \in 0 .. n /\ k - 1 \in 0 .. n
      BY <1>1
    <3>2. s[k] = f[k] /\ s[k - 1] = f[k - 1] /\ f[k - 1] \in Nat
      BY <1>8, <3>1
    <3>3. Plus(f[k - 1], DumpOrder[k]) = f[k - 1] + Len(order[DumpOrder[k]])
      BY <1>1, <1>9, <3>2, PlusAll
    <3> QED
      BY <1>3, <3>2, <3>3
  <2> HIDE DEF s
  <2>4. Sums(s, order)
    BY <2>2, <2>3 DEF Sums, n
  <2> QED
    BY <2>1, <2>2, <2>4
<1>10. n \in 0 .. n
  BY <1>1
<1> QED
  BY <1>2, <1>8, <1>9, <1>10 DEF n

(* What list l adds to the dump. *)
LEMMA ListingIs ==
  ASSUME Sound, Ordered, NEW l \in Lists
  PROVE  /\ Listing(l) \in Seq(Element)
         /\ Len(Listing(l)) = Len(order[l])
         /\ \A i \in 1 .. Len(order[l]) :
              /\ order[l][i] \in DOMAIN content
              /\ Listing(l)[i] = Creation(content, order[l][i])
         /\ \A id \in DOMAIN content : id.list = l =>
              \E i \in 1 .. Len(order[l]) : order[l][i] = id
<1> DEFINE n == Len(order[l])
<1>1. order[l] \in Seq(ID) /\ n \in Nat
  <2>1. order[l] \in Seq(ID)
    BY DEF Ordered
  <2> QED
    BY <2>1
<1>2. Listed(l, order[l], content)
  BY DEF Ordered
<1>3. /\ \A i \in 1 .. n : order[l][i] \in DOMAIN content
      /\ \A id \in DOMAIN content : id.list = l =>
           \E i \in 1 .. n : order[l][i] = id
  BY <1>2 DEF Listed
<1>4. ASSUME NEW id \in DOMAIN content
      PROVE  Creation(content, id) \in Element
  <2>1. id \in ID /\ content[id] \in ID \cup {NoRef}
    BY MapsAre DEF Sound
  <2> QED
    BY <2>1 DEF Creation, Element
<1> HIDE DEF n
<1>5. Listing(l) = [i \in 1 .. n |-> Creation(content, order[l][i])]
  BY DEF Listing, Creation, n
<1>6. Listing(l) \in [1 .. n -> Element]
  BY <1>3, <1>4, <1>5
<1>7. Listing(l) \in Seq(Element) /\ Len(Listing(l)) = n
  <2>1. DOMAIN Listing(l) = 1 .. n
    BY <1>6
  <2>2. Listing(l) \in Seq(Element)
    BY <1>1, <1>6
  <2> QED
    BY <1>1, <2>1, <2>2
<1> QED
  BY <1>3, <1>5, <1>7 DEF n

LEMMA CreatesJoined ==
  ASSUME NEW V, NEW p \in Seq(V), NEW q \in Seq(V), NEW d,
         Creates(p, d), Creates(q, d)
  PROVE  /\ Creates(p \o q, d)
         /\ Created(p \o q) = Created(p) \cup Created(q)
<1> DEFINE n == Len(p)
           l == Len(q)
           r == p \o q
<1>1. /\ Len(r) = n + l /\ n \in Nat /\ l \in Nat
      /\ \A k \in 1 .. n : r[k] = p[k]
      /\ \A k \in n + 1 .. n + l : r[k] = q[k - n]
  BY HasConcatenated
<1> HIDE DEF n, l, r
<1>2. \A k \in 1 .. n + l : k \in 1 .. n \/ (k \in n + 1 .. n + l /\ k - n \in 1 .. l)
  BY <1>1
<1>3. /\ \A k \in 1 .. n : k \in 1 .. n + l
      /\ \A k \in 1 .. l : k + n \in n + 1 .. n + l /\ (k + n) - n = k
                           /\ k + n \in 1 .. n + l
  BY <1>1
<1>4. Creates(r, d)
  <2>1. SUFFICES ASSUME NEW k \in 1 .. n + l
                 PROVE  \/ r[k].kind \in {"document", "initialized"}
                        \/ r[k].id \in DOMAIN d /\ r[k] = Creation(d, r[k].id)
    BY <1>1 DEF Creates
  <2>2. CASE k \in 1 .. n
    BY <1>1, <2>2 DEF Creates, n
  <2>3. CASE k \in n + 1 .. n + l /\ k - n \in 1 .. l
    BY <1>1, <2>3 DEF Creates, l
  <2> QED
    BY <1>2, <2>2, <2>3
<1>5. Created(r) \subseteq Created(p) \cup Created(q)
  <2>1. SUFFICES ASSUME NEW k \in 1 .. n + l, r[k].kind = "create"
                 PROVE  r[k].id \in Created(p) \cup Created(q)
    BY <1>1 DEF Created
  <2>2. CASE k \in 1 .. n
    BY <1>1, <2>1, <2>2 DEF Created, n
  <2>3. CASE k \in n + 1 .. n + l /\ k - n \in 1 .. l
    BY <1>1, <2>1, <2>3 DEF Created, l
  <2> QED
    BY <1>2, <2>2, <2>3
<1>6. Created(p) \subseteq Created(r)
  BY <1>1, <1>3 DEF Created, n
<1>7. Created(q) \subseteq Created(r)
  <2>1. SUFFICES ASSUME NEW k \in 1 .. l, q[k].kind = "create"
                 PROVE  q[k].id \in Created(r)
    BY DEF Created, l
  <2>2. r[k + n] = q[k] /\ k + n \in 1 .. n + l
    BY <1>1, <1>3
  <2> QED
    BY <1>1, <2>1, <2>2 DEF Created
<1> QED
  BY <1>4, <1>5, <1>6, <1>7 DEF r

(* The next list joins the dump, ... *)
LEMMA DumpedList ==
  ASSUME Sound, Ordered, NEW D \in Dumps, D.next <= Len(DumpOrder),
         Dumping(D, order, content)
  PROVE  Dumping([D EXCEPT !.next = @ + 1,
                           !.elements = @ \o Listing(DumpOrder[D.next])],
                 order, content)
<1> DEFINE n == D.next
           l == DumpOrder[n]
           L == Listing(l)
           E == [D EXCEPT !.next = @ + 1, !.elements = @ \o L]
           es == D.elements
<1>1. n \in 1 .. Len(DumpOrder) /\ n \in Nat /\ l \in Lists /\ es \in Seq(Element)
  BY InDumpOrder DEF Dumps
<1>2. E.next = n + 1 /\ E.elements = es \o L /\ E.count = D.count
  BY DEF Dumps
<1> HIDE DEF E, es, n
<1>3. /\ L \in Seq(Element)
      /\ Len(L) = Len(order[l])
      /\ \A i \in 1 .. Len(order[l]) :
           /\ order[l][i] \in DOMAIN content
           /\ L[i] = Creation(content, order[l][i])
      /\ \A id \in DOMAIN content : id.list = l =>
           \E i \in 1 .. Len(order[l]) : order[l][i] = id
  BY <1>1, ListingIs
<1> HIDE DEF L, l
<1>4. \A i \in 1 .. Len(L) : L[i].kind = "create" /\ L[i].id = order[l][i]
  <2> TAKE i \in 1 .. Len(L)
  <2>1. L[i] = Creation(content, order[l][i])
    BY <1>3
  <2>2. /\ Creation(content, order[l][i]).kind = "create"
        /\ Creation(content, order[l][i]).id = order[l][i]
    BY DEF Creation
  <2> QED
    BY <2>1, <2>2
<1>5. Creates(L, content)
  BY <1>3, <1>4 DEF Creates
<1>6. \A id \in DOMAIN content : id.list = l => id \in Created(L)
  BY <1>3, <1>4 DEF Created
<1>7. Creates(es, content)
  BY DEF Dumping, es
<1>8. Creates(es \o L, content) /\ Created(es \o L) = Created(es) \cup Created(L)
  BY <1>1, <1>3, <1>5, <1>7, CreatesJoined
<1>9. ASSUME NEW k \in 1 .. (n + 1) - 1, NEW id \in DOMAIN content,
             id.list = DumpOrder[k]
      PROVE  id \in Created(es \o L)
  <2>1. CASE k = n
    BY <1>6, <1>8, <1>9, <2>1 DEF l
  <2>2. CASE k # n
    <3>1. k \in 1 .. n - 1
      BY <1>1, <2>2
    <3>2. id \in Created(es)
      BY <1>9, <3>1 DEF Dumping, n, es
    <3> QED
      BY <1>8, <3>2
  <2> QED
    BY <2>1, <2>2
<1>10. PICK s \in [0 .. Len(DumpOrder) -> Nat] :
         /\ Sums(s, order)
         /\ D.count = s[Len(DumpOrder)] + 2
         /\ Len(es) = s[n - 1]
  BY DEF Dumping, n, es
<1>11. Len(es \o L) = s[(n + 1) - 1]
  <2>1. Len(es \o L) = Len(es) + Len(L)
    BY <1>1, <1>3, HasConcatenated
  <2>2. s[n] = s[n - 1] + Len(order[DumpOrder[n]]) /\ (n + 1) - 1 = n
    BY <1>1, <1>10 DEF Sums
  <2> QED
    BY <1>3, <1>10, <2>1, <2>2 DEF l
<1>12. Dumping(E, order, content)
  BY <1>2, <1>8, <1>9, <1>10, <1>11 DEF Dumping
<1> QED
  BY <1>12 DEF E, L, l, n

DumpOf(D) ==
  [count |-> D.count,
   elements |-> D.elements \o <<[kind |-> "document"], [kind |-> "initialized"]>>]

LEMMA DumpOfType ==
  ASSUME NEW D \in Dumps
  PROVE  DumpOf(D) \in Messages
<1>1. D.count \in Nat /\ D.elements \in Seq(Element)
  BY DEF Dumps
<1>2. <<[kind |-> "document"], [kind |-> "initialized"]>> \in Seq(Element)
  BY DEF Element
<1>3. D.elements \o <<[kind |-> "document"], [kind |-> "initialized"]>> \in Seq(Element)
  BY <1>1, <1>2
<1> QED
  BY <1>1, <1>3 DEF DumpOf, Messages

(* ... and when all have, it makes up the document. *)
LEMMA Dumped ==
  ASSUME Sound, NEW D \in Dumps, D.next > Len(DumpOrder),
         Dumping(D, order, content), NEW m, NEW q
  PROVE  Complete(DumpOf(D), m, q, content)
<1> DEFINE es == D.elements
           two == <<[kind |-> "document"], [kind |-> "initialized"]>>
           n == Len(DumpOrder)
<1>1. es \in Seq(Element) /\ D.next = n + 1 /\ n \in Nat /\ D.count \in Nat
  BY InDumpOrder DEF Dumps
<1>2. two \in Seq(Element) /\ Len(two) = 2
  BY DEF Element
<1>3. /\ two[1].kind = "document" /\ two[2].kind = "initialized"
      /\ \A i \in 1 .. Len(two) : i = 1 \/ i = 2
  OBVIOUS
<1> HIDE DEF two, es
<1>4. Creates(two, content) /\ Created(two) = {}
  BY <1>3 DEF Creates, Created
<1>5. Creates(es, content)
  BY DEF Dumping, es
<1>6. /\ Creates(es \o two, content)
      /\ Created(es \o two) = Created(es) \cup Created(two)
  BY <1>1, <1>2, <1>4, <1>5, CreatesJoined
<1>7. ASSUME NEW id \in DOMAIN content
      PROVE  id \in Created(es)
  <2>1. id.list \in Lists
    <3>1. id \in ID
      BY MapsAre DEF Sound
    <3> QED
      BY <3>1 DEF ID
  <2>2. PICK k \in 1 .. n : DumpOrder[k] = id.list
    BY <2>1, InDumpOrder
  <2>3. k \in 1 .. D.next - 1
    BY <1>1
  <2> QED
    BY <2>2, <2>3 DEF Dumping, es
<1>8. Len(es \o two) = D.count
  <2>1. PICK s \in [0 .. n -> Nat] : D.count = s[n] + 2 /\ Len(es) = s[D.next - 1]
    BY DEF Dumping, es
  <2>2. Len(es \o two) = Len(es) + Len(two)
    BY <1>1, <1>2, HasConcatenated
  <2>3. D.next - 1 = n /\ Len(es \o two) = Len(es) + 2
    BY <1>1, <1>2, <2>2
  <2> QED
    BY <2>1, <2>3
<1>9. DumpOf(D).count = D.count /\ DumpOf(D).elements = es \o two
  BY DEF DumpOf, es, two
<1>10. Created(es) = DOMAIN content
  BY <1>5, <1>7, CreatedIn
<1>11. \A id \in DOMAIN content : content[id] # NoRef => content[id] \in DOMAIN content
  BY DEF Sound, Closed
<1> QED
  BY <1>4, <1>6, <1>8, <1>9, <1>10, <1>11 DEF Complete
-----------------------------------------------------------------------------
(* The lists of the document *)

LEMMA Removal ==
  ASSUME NEW V, NEW s \in Seq(V), NEW i \in 1 .. Len(s),
         \A j \in 1 .. Len(s) : s[j] = s[i] => j = i
  PROVE  /\ RemoveFirst(s, s[i]) \in Seq(V)
         /\ Len(RemoveFirst(s, s[i])) = Len(s) - 1
         /\ \A k \in 1 .. Len(s) - 1 :
              RemoveFirst(s, s[i])[k] = IF k < i THEN s[k] ELSE s[k + 1]
<1> DEFINE x == s[i]
           n == Len(s)
           I == {j \in 1 .. n : s[j] = x}
           a == SubSeq(s, 1, i - 1)
           b == SubSeq(s, i + 1, n)
<1>1. I = {i}
  OBVIOUS
<1>2. Min(I) = i
  <2> HIDE DEF I
  <2>1. Min(I) = CHOOSE m \in I : \A y \in I : m <= y
    BY Zenon DEF Min
  <2>2. i \in I /\ \A y \in I : i <= y
    BY <1>1
  <2>3. Min(I) \in I
    BY <2>1, <2>2
  <2> QED
    BY <1>1, <2>3
<1>3. SelectInSeq(s, LAMBDA v : v = x) = i
  BY <1>1, <1>2 DEF SelectInSeq
<1>4. RemoveFirst(s, x) = a \o b
  BY <1>3 DEF RemoveFirst, RemoveAt
<1>5. /\ a \in Seq(V) /\ Len(a) = i - 1
      /\ \A k \in 1 .. i - 1 : a[k] = s[k]
  OBVIOUS
<1>6. /\ b \in Seq(V) /\ Len(b) = n - i
      /\ \A k \in 1 .. n - i : b[k] = s[k + i]
  OBVIOUS
<1>7. n \in Nat /\ i \in 1 .. n
  OBVIOUS
<1> HIDE DEF a, b, I, n
<1>8. /\ a \o b \in Seq(V)
      /\ Len(a \o b) = Len(a) + Len(b)
      /\ \A k \in 1 .. Len(a) : (a \o b)[k] = a[k]
      /\ \A k \in Len(a) + 1 .. Len(a) + Len(b) : (a \o b)[k] = b[k - Len(a)]
  BY <1>5, <1>6, HasConcatenated
<1>9. Len(a \o b) = n - 1
  BY <1>5, <1>6, <1>7, <1>8
<1>10. ASSUME NEW k \in 1 .. n - 1
       PROVE  (a \o b)[k] = IF k < i THEN s[k] ELSE s[k + 1]
  <2>1. CASE k < i
    <3>1. k \in 1 .. i - 1
      BY <1>7, <2>1
    <3> QED
      BY <1>5, <1>8, <2>1, <3>1
  <2>2. CASE ~ (k < i)
    <3>1. /\ k \in (i - 1) + 1 .. (i - 1) + (n - i)
          /\ k - (i - 1) \in 1 .. n - i
          /\ (k - (i - 1)) + i = k + 1
      BY <1>7, <2>2
    <3>2. (a \o b)[k] = b[k - (i - 1)]
      BY <1>5, <1>6, <1>8, <3>1
    <3>3. b[k - (i - 1)] = s[(k - (i - 1)) + i]
      BY <1>6, <3>1
    <3> QED
      BY <2>2, <3>1, <3>2, <3>3
  <2> QED
    BY <2>1, <2>2
<1> QED
  BY <1>4, <1>8, <1>9, <1>10 DEF n

LEMMA ListedGrown ==
  ASSUME NEW l, NEW s, NEW d, NEW id, NEW v, NEW e, Grown(d, id, v, e),
         Listed(l, s, d), id.list = l
  PROVE  Listed(l, Append(s, id), e)
<1> DEFINE n == Len(s)
           r == Append(s, id)
<1>1. /\ DOMAIN e = DOMAIN d \cup {id}
      /\ e[id] = v
      /\ \A i \in DOMAIN d : e[i] = d[i] /\ i # id /\ d[i] # id
      /\ v # id
  BY GrownIs
<1>2. s \in Seq(ID) /\ id \in ID
  BY DEF Listed, Grown
<1>3. /\ r \in Seq(ID) /\ n \in Nat /\ Len(r) = n + 1 /\ r[n + 1] = id
      /\ \A k \in 1 .. n : r[k] = s[k]
  BY <1>2, HasAppended
<1>4. /\ \A i, j \in 1 .. n : s[i] = s[j] => i = j
      /\ \A i \in 1 .. n : s[i] \in DOMAIN d /\ s[i].list = l
      /\ \A i \in DOMAIN d : i.list = l => \E k \in 1 .. n : s[k] = i
  BY DEF Listed
<1> HIDE DEF n, r
<1>5. \A k : k \in 1 .. n + 1 <=> k \in 1 .. n \/ k = n + 1
  BY <1>3
<1>6. \A i, j \in 1 .. n + 1 : r[i] = r[j] => i = j
  BY <1>1, <1>3, <1>4, <1>5
<1>7. \A i \in 1 .. n + 1 : r[i] \in DOMAIN e /\ r[i].list = l
  BY <1>1, <1>3, <1>4, <1>5
<1>8. \A i \in DOMAIN e : i.list = l => \E k \in 1 .. n + 1 : r[k] = i
  BY <1>1, <1>3, <1>4, <1>5
<1> QED
  BY <1>3, <1>6, <1>7, <1>8 DEF Listed, r

LEMMA ListedOther ==
  ASSUME NEW l, NEW s, NEW d, NEW id, NEW v, NEW e, Grown(d, id, v, e),
         Listed(l, s, d)
  PROVE  id.list # l => Listed(l, s, e)
<1>1. /\ DOMAIN e = DOMAIN d \cup {id}
      /\ e[id] = v
      /\ \A i \in DOMAIN d : e[i] = d[i] /\ i # id /\ d[i] # id
      /\ v # id
  BY GrownIs
<1> QED
  BY <1>1 DEF Listed

LEMMA ListedWithout ==
  ASSUME NEW l, NEW s, NEW d, NEW id \in DOMAIN d, Listed(l, s, d), id.list = l
  PROVE  Listed(l, RemoveFirst(s, id), Without(d, id))
<1> DEFINE n == Len(s)
           r == RemoveFirst(s, id)
<1>1. s \in Seq(ID) /\ n \in Nat
  <2>1. s \in Seq(ID)
    BY DEF Listed
  <2> QED
    BY <2>1
<1>2. /\ \A i, j \in 1 .. n : s[i] = s[j] => i = j
      /\ \A i \in 1 .. n : s[i] \in DOMAIN d /\ s[i].list = l
      /\ \A i \in DOMAIN d : i.list = l => \E k \in 1 .. n : s[k] = i
  BY DEF Listed
<1>3. PICK i \in 1 .. n : s[i] = id
  BY <1>2
<1>4. /\ r \in Seq(ID)
      /\ Len(r) = n - 1
      /\ \A k \in 1 .. n - 1 : r[k] = IF k < i THEN s[k] ELSE s[k + 1]
  <2>1. \A j \in 1 .. Len(s) : s[j] = s[i] => j = i
    BY <1>2
  <2>2. /\ RemoveFirst(s, s[i]) \in Seq(ID)
        /\ Len(RemoveFirst(s, s[i])) = Len(s) - 1
        /\ \A k \in 1 .. Len(s) - 1 :
             RemoveFirst(s, s[i])[k] = IF k < i THEN s[k] ELSE s[k + 1]
    BY <1>1, <2>1, Removal
  <2> QED
    BY <1>3, <2>2
<1> HIDE DEF n, r
<1>5. DOMAIN Without(d, id) = DOMAIN d \ {id}
  BY DEF Without
<1>6. \A k \in 1 .. n - 1 : /\ k < i => k \in 1 .. n /\ k # i
                            /\ ~ (k < i) => k + 1 \in 1 .. n /\ k + 1 # i
  BY <1>1, <1>3
<1>7. ASSUME NEW j \in 1 .. n - 1, NEW k \in 1 .. n - 1, r[j] = r[k]
      PROVE  j = k
  <2>1. CASE j < i /\ k < i
    BY <1>2, <1>4, <1>6, <1>7, <2>1
  <2>2. CASE j < i /\ ~ (k < i)
    <3>1. s[j] = s[k + 1]
      BY <1>4, <1>7, <2>2
    <3>2. j = k + 1
      BY <1>2, <1>6, <2>2, <3>1
    <3> QED
      BY <2>2, <3>2
  <2>3. CASE ~ (j < i) /\ k < i
    <3>1. s[j + 1] = s[k]
      BY <1>4, <1>7, <2>3
    <3>2. j + 1 = k
      BY <1>2, <1>6, <2>3, <3>1
    <3> QED
      BY <2>3, <3>2
  <2>4. CASE ~ (j < i) /\ ~ (k < i)
    <3>1. s[j + 1] = s[k + 1]
      BY <1>4, <1>7, <2>4
    <3>2. j + 1 = k + 1
      BY <1>2, <1>6, <2>4, <3>1
    <3> QED
      BY <3>2
  <2> QED
    BY <2>1, <2>2, <2>3, <2>4
<1>8. ASSUME NEW k \in 1 .. n - 1
      PROVE  r[k] \in DOMAIN d \ {id} /\ r[k].list = l
  <2>1. CASE k < i
    BY <1>2, <1>3, <1>4, <1>6, <2>1
  <2>2. CASE ~ (k < i)
    BY <1>2, <1>3, <1>4, <1>6, <2>2
  <2> QED
    BY <2>1, <2>2
<1>9. ASSUME NEW j \in DOMAIN d \ {id}, j.list = l
      PROVE  \E k \in 1 .. n - 1 : r[k] = j
  <2>1. PICK k \in 1 .. n : s[k] = j
    BY <1>2, <1>9
  <2>2. k # i
    BY <1>3, <2>1
  <2>3. CASE k < i
    <3>1. k \in 1 .. n - 1
      BY <1>1, <1>3, <2>3
    <3>2. r[k] = s[k]
      BY <1>4, <2>3, <3>1
    <3> QED
      BY <2>1, <3>1, <3>2
  <2>4. CASE k > i
    <3>1. k - 1 \in 1 .. n - 1 /\ ~ (k - 1 < i) /\ (k - 1) + 1 = k
      BY <1>1, <1>3, <2>4
    <3>2. r[k - 1] = s[k]
      BY <1>4, <3>1
    <3> QED
      BY <2>1, <3>1, <3>2
  <2> QED
    BY <1>1, <1>3, <2>2, <2>3, <2>4
<1> QED
  BY <1>4, <1>5, <1>7, <1>8, <1>9 DEF Listed, r

LEMMA ListedElsewhere ==
  ASSUME NEW l, NEW s, NEW d, NEW id \in DOMAIN d, Listed(l, s, d), id.list # l
  PROVE  Listed(l, s, Without(d, id))
<1>1. DOMAIN Without(d, id) = DOMAIN d \ {id}
  BY DEF Without
<1> QED
  BY <1>1 DEF Listed
-----------------------------------------------------------------------------
(* Steps of the document *)

LEMMA ContentIs ==
  ASSUME Sound
  PROVE  /\ content \in Maps
         /\ content = [id \in DOMAIN content |-> content[id]]
         /\ DOMAIN content \subseteq ID
         /\ \A id \in DOMAIN content : content[id] \in DOMAIN content \cup {NoRef}
         /\ NoRef \notin ID
<1>1. content \in Maps /\ Closed(content)
  BY DEF Sound
<1>2. NoRef \notin ID
  BY SyncAssumption
<1> QED
  BY <1>1, <1>2, MapsAre DEF Closed

LEMMA AnnouncedIs ==
  ASSUME Sound
  PROVE  /\ Announced \in Maps
         /\ Closed(Announced)
         /\ DOMAIN Announced = DOMAIN content
<1>1. CASE patching = NoPatch
  BY <1>1 DEF Sound, Announced
<1>2. CASE patching # NoPatch
  <2>1. patching.id \in DOMAIN content /\ patching.value \in DOMAIN content
    BY <1>2 DEF Sound, Patches
  <2>2. /\ Announced = [id \in DOMAIN Announced |-> Announced[id]]
        /\ DOMAIN Announced = DOMAIN content
        /\ \A id \in DOMAIN content :
             Announced[id] = IF id = patching.id THEN patching.value ELSE content[id]
    BY <1>2 DEF Announced
  <2>3. \A id \in DOMAIN content : Announced[id] \in DOMAIN content \cup {NoRef}
    BY <2>1, <2>2, ContentIs
  <2>4. DOMAIN content \subseteq ID
    BY ContentIs
  <2>5. Announced \in Maps
    <3>1. \A id \in DOMAIN Announced : Announced[id] \in ID \cup {NoRef}
      BY <2>2, <2>3, <2>4
    <3> QED
      BY <2>2, <2>4, <3>1, MapsAre
  <2>6. Closed(Announced)
    BY <2>2, <2>3 DEF Closed
  <2> QED
    BY <2>2, <2>5, <2>6
<1> QED
  BY <1>1, <1>2

NewID(l) == [list |-> l, n |-> created + 1]

CreateOf(id, v) == [kind |-> "create", id |-> id, value |-> v]

LEMMA CreateGrows ==
  ASSUME Sound, NEW l \in Lists, NEW v, Create(l, v)
  PROVE  /\ Grown(content, NewID(l), v, content')
         /\ CreateOf(NewID(l), v) = Creation(content', NewID(l))
         /\ CreateOf(NewID(l), v) \in Element
         /\ NewID(l).list = l
<1> DEFINE id == NewID(l)
<1>1. /\ created \in Nat /\ created < MaxCreated /\ MaxCreated \in Nat
      /\ content' = Put(content, id, v)
      /\ v \in DOMAIN content \cup {NoRef}
  BY SyncAssumption DEF Sound, Create, NewID
<1>2. id \in ID /\ id.n = created + 1 /\ id.list = l
  BY <1>1 DEF ID, NewID
<1> HIDE DEF id
<1>3. id \notin DOMAIN content
  <2>1. \A i \in DOMAIN content : i.n <= created
    BY DEF Sound
  <2> QED
    BY <1>1, <1>2, <2>1
<1>4. Grown(content, id, v, content')
  BY <1>1, <1>2, <1>3 DEF Sound, Grown
<1>5. v \in ID \cup {NoRef}
  BY <1>1, ContentIs
<1>6. CreateOf(id, v) \in Element
  BY <1>2, <1>5 DEF CreateOf, Element
<1>7. CreateOf(id, v) = Creation(content', id)
  <2>1. /\ DOMAIN content' = DOMAIN content \cup {id}
        /\ content'[id] = v
        /\ \A i \in DOMAIN content : content'[i] = content[i] /\ i # id /\ content[i] # id
        /\ v # id
    BY <1>4, GrownIs
  <2> QED
    BY <2>1 DEF CreateOf, Creation
<1> QED
  BY <1>2, <1>4, <1>6, <1>7 DEF id

LEMMA GrownSound ==
  ASSUME NEW d, NEW id, NEW v, NEW e, Grown(d, id, v, e)
  PROVE  e \in Maps /\ Closed(e)
<1>1. /\ DOMAIN e = DOMAIN d \cup {id}
      /\ e[id] = v
      /\ \A i \in DOMAIN d : e[i] = d[i] /\ i # id /\ d[i] # id
      /\ v # id
  BY GrownIs
<1>2. Closed(e)
  BY <1>1 DEF Grown, Closed
<1>3. v \in ID \cup {NoRef}
  <2>1. DOMAIN d \subseteq ID
    BY MapsAre DEF Grown
  <2> QED
    BY <2>1 DEF Grown
<1>4. e \in Maps
  BY <1>3, PutType DEF Grown
<1> QED
  BY <1>2, <1>4

LEMMA CreateSound ==
  ASSUME Sound, NEW l \in Lists, NEW v, Create(l, v)
  PROVE  Sound'
<1> DEFINE id == NewID(l)
<1>1. Grown(content, id, v, content')
  BY CreateGrows
<1>2. id.n = created + 1 /\ created' = created + 1 /\ patching' = patching
  BY DEF NewID, Create
<1> HIDE DEF id
<1>3. /\ DOMAIN content' = DOMAIN content \cup {id}
      /\ content'[id] = v
      /\ \A i \in DOMAIN content : content'[i] = content[i] /\ i # id /\ content[i] # id
      /\ v # id
  BY <1>1, GrownIs
<1>4. content' \in Maps /\ Closed(content')
  BY <1>1, GrownSound
<1>5. \A i \in DOMAIN content : i.n <= created /\ i \in ID
  BY ContentIs DEF Sound
<1>6. created \in Nat
  BY DEF Sound
<1>7. ASSUME NEW i \in DOMAIN content'
      PROVE  i.n <= created'
  <2>1. CASE i = id
    BY <1>2, <1>6, <2>1
  <2>2. CASE i \in DOMAIN content
    <3>1. i.n \in Nat /\ i.n <= created
      BY <1>5, <2>2 DEF ID
    <3> QED
      BY <1>2, <1>6, <3>1
  <2> QED
    BY <1>3, <2>1, <2>2
<1>8. patching' # NoPatch => patching' \in Patches(content')
  BY <1>2, <1>3 DEF Sound, Patches
<1> QED
  BY <1>2, <1>4, <1>6, <1>7, <1>8 DEF Sound

LEMMA PatchSendSound ==
  ASSUME Sound, NEW id \in DOMAIN content, NEW v \in DOMAIN content,
         PatchSend(id, v)
  PROVE  Sound' /\ patching' # NoPatch
<1>1. /\ content' = content /\ created' = created
      /\ patching' = [id |-> id, value |-> v]
  BY DEF PatchSend
<1>2. patching' \in Patches(content)
  BY <1>1 DEF Patches
<1>3. patching' \in [id : ID, value : ID]
  BY <1>1, ContentIs
<1>4. patching' # NoPatch
  BY <1>3, SyncAssumption
<1> QED
  BY <1>1, <1>2, <1>4 DEF Sound

LEMMA PatchApplySound ==
  ASSUME Sound, PatchApply
  PROVE  Sound' /\ Announced' = Announced
<1>1. /\ content' = Announced /\ created' = created /\ patching' = NoPatch
  BY DEF PatchApply, Announced
<1>2. /\ Announced \in Maps
      /\ Closed(Announced)
      /\ DOMAIN Announced = DOMAIN content
  BY AnnouncedIs
<1>3. Announced' = content'
  BY <1>1 DEF Announced
<1>4. Closed(content')
  BY <1>1, <1>2
<1>5. created \in Nat /\ \A id \in DOMAIN content : id.n <= created
  BY DEF Sound
<1>6. Sound'
  BY <1>1, <1>2, <1>4, <1>5 DEF Sound
<1> QED
  BY <1>1, <1>3, <1>6

LEMMA DeleteSound ==
  ASSUME Sound, NEW id \in DOMAIN content, Delete(id)
  PROVE  Sound'
<1>1. /\ content' = Without(content, id) /\ created' = created
      /\ patching' = patching
      /\ \A i \in DOMAIN content : content[i] # id
      /\ patching # NoPatch => id \notin {patching.id, patching.value}
  BY DEF Delete
<1>2. /\ DOMAIN content' = DOMAIN content \ {id}
      /\ \A i \in DOMAIN content' : content'[i] = content[i]
  BY <1>1 DEF Without
<1>3. content' \in Maps
  BY <1>1, WithoutType DEF Sound
<1>4. Closed(content')
  BY <1>1, <1>2 DEF Sound, Closed
<1>5. patching' # NoPatch => patching' \in Patches(content')
  BY <1>1, <1>2 DEF Sound, Patches
<1>6. created' \in Nat /\ \A i \in DOMAIN content' : i.n <= created'
  BY <1>1, <1>2 DEF Sound
<1> QED
  BY <1>3, <1>4, <1>5, <1>6 DEF Sound

LEMMA SoundStep ==
  ASSUME Sound, [Next]_vars
  PROVE  Sound'
<1>1. CASE UNCHANGED docVars
  BY <1>1 DEF Sound, docVars
<1>2. ASSUME NEW l \in Lists, NEW v, Create(l, v)
      PROVE  Sound'
  BY <1>2, CreateSound
<1>3. ASSUME NEW id \in DOMAIN content, NEW v \in DOMAIN content, PatchSend(id, v)
      PROVE  Sound'
  BY <1>3, PatchSendSound
<1>4. CASE PatchApply
  BY <1>4, PatchApplySound
<1>5. ASSUME NEW id \in DOMAIN content, Delete(id)
      PROVE  Sound'
  BY <1>5, DeleteSound
<1>6. CASE Application
  BY <1>2, <1>3, <1>4, <1>5, <1>6 DEF Application
<1>7. CASE UNCHANGED vars
  BY <1>1, <1>7 DEF vars
<1>8. ASSUME NEW c \in Clients, Accept(c) \/ Connection(c)
      PROVE  Sound'
  BY <1>1, <1>8
     DEF Accept, Connection, DumpStart, ForwardDump, ForwardBroadcast, Receive
<1>9. CASE DumpList \/ DumpEnd
  BY <1>1, <1>9 DEF DumpList, DumpEnd
<1> QED
  BY <1>6, <1>7, <1>8, <1>9 DEF Next

LEMMA OrderedStep ==
  ASSUME Sound, Ordered, [Next]_vars
  PROVE  Ordered'
<1>1. /\ order \in [Lists -> Seq(ID)]
      /\ \A l \in Lists : Listed(l, order[l], content)
  BY DEF Ordered
<1>2. ASSUME order' \in [Lists -> Seq(ID)],
             \A l \in Lists : Listed(l, order'[l], content')
      PROVE  Ordered'
  BY <1>2 DEF Ordered
<1>3. CASE UNCHANGED docVars
  BY <1>1, <1>2, <1>3 DEF docVars
<1>4. ASSUME NEW k \in Lists, NEW v, Create(k, v)
      PROVE  Ordered'
  <2> DEFINE id == NewID(k)
  <2>1. Grown(content, id, v, content') /\ id.list = k
    BY <1>4, CreateGrows
  <2>2. order' = [order EXCEPT ![k] = Append(@, id)]
    BY <1>4 DEF Create, NewID
  <2>3. id \in ID
    BY <2>1 DEF Grown
  <2> HIDE DEF id
  <2>4. order' \in [Lists -> Seq(ID)]
    BY <1>1, <2>2, <2>3
  <2>5. ASSUME NEW l \in Lists
        PROVE  Listed(l, order'[l], content')
    <3>1. Listed(l, order[l], content)
      BY <1>1
    <3>2. CASE l = k
      <4>1. order'[l] = Append(order[l], id)
        BY <1>1, <2>2, <3>2
      <4>2. Listed(l, Append(order[l], id), content')
        BY <2>1, <3>1, <3>2, ListedGrown
      <4> QED
        BY <4>1, <4>2
    <3>3. CASE l # k
      <4>1. order'[l] = order[l]
        BY <1>1, <2>2, <3>3
      <4>2. id.list # l
        BY <2>1, <3>3
      <4>3. id.list # l => Listed(l, order[l], content')
        BY <2>1, <3>1, ListedOther
      <4> QED
        BY <4>1, <4>2, <4>3
    <3> QED
      BY <3>2, <3>3
  <2> QED
    BY <1>2, <2>4, <2>5
<1>5. ASSUME NEW id \in DOMAIN content, Delete(id)
      PROVE  Ordered'
  <2>1. /\ order' = [order EXCEPT ![id.list] = RemoveFirst(@, id)]
        /\ content' = Without(content, id)
    BY <1>5 DEF Delete
  <2>2. id \in ID /\ id.list \in Lists
    BY ContentIs DEF ID
  <2>3. ASSUME NEW l \in Lists
        PROVE  Listed(l, order'[l], content')
    <3>1. Listed(l, order[l], content)
      BY <1>1
    <3>2. CASE l = id.list
      <4>1. order'[l] = RemoveFirst(order[l], id)
        BY <1>1, <2>1, <3>2
      <4>2. Listed(l, RemoveFirst(order[l], id), Without(content, id))
        BY <3>1, <3>2, ListedWithout
      <4> QED
        BY <2>1, <4>1, <4>2
    <3>3. CASE l # id.list
      <4>1. order'[l] = order[l]
        BY <1>1, <2>1, <3>3
      <4>2. Listed(l, order[l], Without(content, id))
        BY <3>1, <3>3, ListedElsewhere
      <4> QED
        BY <2>1, <4>1, <4>2
    <3> QED
      BY <3>2, <3>3
  <2>4. order' \in [Lists -> Seq(ID)]
    <3>1. order' = [l \in Lists |-> order'[l]]
      BY <1>1, <2>1
    <3>2. \A l \in Lists : order'[l] \in Seq(ID)
      BY <2>3 DEF Listed
    <3> QED
      BY <3>1, <3>2
  <2> QED
    BY <1>2, <2>3, <2>4
<1>6. ASSUME NEW id \in DOMAIN content, NEW v \in DOMAIN content, PatchSend(id, v)
      PROVE  Ordered'
  BY <1>1, <1>2, <1>6 DEF PatchSend
<1>7. CASE PatchApply
  <2>1. order' = order /\ content' = Announced
    BY <1>7 DEF PatchApply, Announced
  <2>2. DOMAIN content' = DOMAIN content
    BY <2>1, AnnouncedIs
  <2>3. \A l \in Lists : Listed(l, order[l], content')
    BY <1>1, <2>2 DEF Listed
  <2> QED
    BY <1>1, <1>2, <2>1, <2>3
<1>8. CASE Application
  BY <1>4, <1>5, <1>6, <1>7, <1>8 DEF Application
<1>9. CASE UNCHANGED vars
  BY <1>3, <1>9 DEF vars
<1>10. ASSUME NEW c \in Clients, Accept(c) \/ Connection(c)
       PROVE  Ordered'
  BY <1>3, <1>10
     DEF Accept, Connection, DumpStart, ForwardDump, ForwardBroadcast, Receive
<1>11. CASE DumpList \/ DumpEnd
  BY <1>3, <1>11 DEF DumpList, DumpEnd
<1> QED
  BY <1>8, <1>9, <1>10, <1>11 DEF Next
-----------------------------------------------------------------------------
(* Steps of the channels *)

LEMMA TypedIs ==
  ASSUME dump' # NoDump => dump' \in Dumps,
         phase' \in [Clients -> Phases],
         status' \in [Clients -> Statuses],
         lagged' \in [Clients -> BOOLEAN],
         steady' \in [Clients -> BOOLEAN],
         sub' \in [Clients -> Seq(Messages)],
         raw' \in [Clients -> Seq(Messages)],
         out' \in [Clients -> Seq(Messages)],
         mirror' \in [Clients -> Maps]
  PROVE  Typed'
BY DEF Typed

LEMMA ConcatAppend ==
  ASSUME NEW V, NEW p \in Seq(V), NEW q \in Seq(V), NEW x \in V
  PROVE  p \o Append(q, x) = Append(p \o q, x)
OBVIOUS

LEMMA ConcatMove ==
  ASSUME NEW V, NEW p \in Seq(V), NEW q \in Seq(V), q # <<>>
  PROVE  Append(p, Head(q)) \o Tail(q) = p \o q
OBVIOUS

LEMMA ConcatTail ==
  ASSUME NEW V, NEW p \in Seq(V), NEW q \in Seq(V), p # <<>>
  PROVE  /\ p \o q # <<>>
         /\ Head(p \o q) = Head(p)
         /\ Tail(p \o q) = Tail(p) \o q
OBVIOUS

LEMMA MessageType ==
  ASSUME NEW e \in Element
  PROVE  Message(<<e>>) \in Messages
<1>1. <<e>> \in Seq(Element) /\ Len(<<e>>) \in Nat
  OBVIOUS
<1> QED
  BY <1>1 DEF Message, Messages

LEMMA TakenType ==
  ASSUME NEW msg \in Messages
  PROVE  Taken(msg) \in Seq(Element)
<1>1. msg.elements \in Seq(Element) /\ msg.count \in Nat
  BY DEF Messages
<1>2. CASE msg.count < Len(msg.elements)
  <2>1. SubSeq(msg.elements, 1, msg.count) \in Seq(Element)
    <3> DEFINE es == msg.elements
               n == msg.count
    <3>1. es \in Seq(Element) /\ n \in Nat /\ n < Len(es)
      BY <1>1, <1>2
    <3> HIDE DEF es, n
    <3>2. SubSeq(es, 1, n) \in Seq(Element)
      BY <3>1
    <3> QED
      BY <3>2 DEF es, n
  <2> QED
    BY <1>2, <2>1 DEF Taken
<1>3. CASE ~ (msg.count < Len(msg.elements))
  BY <1>1, <1>3 DEF Taken
<1> QED
  BY <1>2, <1>3

(* What a broadcast does to the subscriptions. *)
LEMMA Broadcasts ==
  ASSUME Typed, Stages, NEW e \in Element, Broadcast(e)
  PROVE  /\ sub' \in [Clients -> Seq(Messages)]
         /\ lagged' \in [Clients -> BOOLEAN]
         /\ steady' \in [Clients -> BOOLEAN]
         /\ \A c \in Clients :
              /\ Len(sub'[c]) <= BcastCap
              /\ phase[c] = "absent" => sub'[c] = sub[c]
              /\ steady'[c] => steady[c]
              /\ steady'[c] /\ ~ lagged'[c] =>
                   /\ ~ lagged[c]
                   /\ phase[c] = "synced" \/ e.kind = "create"
                   /\ phase[c] # "absent" =>
                        sub'[c] = Append(sub[c], Message(<<e>>))
<1> DEFINE x == Message(<<e>>)
<1>1. x \in Messages
  BY MessageType
<1>2. BcastCap \in Nat /\ BcastCap > 0
  BY SyncAssumption
<1>3. /\ sub' = [c \in Clients |->
            IF ~ Subscribed(c) THEN sub[c]
            ELSE IF Len(sub[c]) < BcastCap THEN Append(sub[c], x)
            ELSE Append(Tail(sub[c]), x)]
      /\ lagged' = [c \in Clients |->
            lagged[c] \/ (Subscribed(c) /\ Len(sub[c]) = BcastCap)]
      /\ steady' = [c \in Clients |->
            steady[c] /\ (phase[c] = "synced" \/ e.kind = "create")]
  BY DEF Broadcast
<1> HIDE DEF x
<1>4. ASSUME NEW c \in Clients
      PROVE  /\ sub'[c] \in Seq(Messages) /\ Len(sub'[c]) <= BcastCap
             /\ Subscribed(c) /\ Len(sub[c]) # BcastCap =>
                  sub'[c] = Append(sub[c], x)
  <2>1. sub[c] \in Seq(Messages) /\ Len(sub[c]) <= BcastCap
    BY DEF Typed, Stages
  <2>2. CASE ~ Subscribed(c)
    <3>1. sub'[c] = sub[c]
      BY <1>3, <2>2
    <3> QED
      BY <2>1, <2>2, <3>1
  <2>3. CASE Subscribed(c) /\ Len(sub[c]) < BcastCap
    <3>1. sub'[c] = Append(sub[c], x)
      BY <1>3, <2>3
    <3>2. Append(sub[c], x) \in Seq(Messages)
          /\ Len(Append(sub[c], x)) = Len(sub[c]) + 1 /\ Len(sub[c]) \in Nat
      BY <1>1, <2>1, HasAppended
    <3> QED
      BY <1>2, <2>3, <3>1, <3>2
  <2>4. CASE Subscribed(c) /\ ~ (Len(sub[c]) < BcastCap)
    <3> DEFINE t == Tail(sub[c])
    <3>1. sub'[c] = Append(t, x)
      BY <1>3, <2>4
    <3>2. Len(sub[c]) = BcastCap /\ sub[c] # <<>>
      BY <1>2, <2>1, <2>4
    <3>3. t \in Seq(Messages) /\ Len(t) = BcastCap - 1
      BY <2>1, <3>2, HasTail
    <3> HIDE DEF t
    <3>4. Append(t, x) \in Seq(Messages) /\ Len(Append(t, x)) = Len(t) + 1
      BY <1>1, <3>3, HasAppended
    <3> QED
      BY <1>2, <3>1, <3>2, <3>3, <3>4
  <2> QED
    BY <2>2, <2>3, <2>4
<1>5. ASSUME NEW c \in Clients
      PROVE  /\ phase[c] = "absent" => sub'[c] = sub[c]
             /\ steady'[c] => steady[c]
             /\ steady'[c] /\ ~ lagged'[c] =>
                  /\ ~ lagged[c]
                  /\ phase[c] = "synced" \/ e.kind = "create"
                  /\ Subscribed(c) => Len(sub[c]) # BcastCap
  BY <1>3 DEF Subscribed
<1>6. sub' \in [Clients -> Seq(Messages)]
  <2>1. sub' = [c \in Clients |-> sub'[c]]
    BY <1>3
  <2> QED
    BY <1>4, <2>1
<1>7. lagged' \in [Clients -> BOOLEAN] /\ steady' \in [Clients -> BOOLEAN]
  BY <1>3 DEF Typed, Subscribed
<1> QED
  BY <1>4, <1>5, <1>6, <1>7 DEF Subscribed, x

LEMMA BroadcastTyped ==
  ASSUME Typed, Stages, NEW e \in Element, Broadcast(e),
         UNCHANGED <<dump, phase, raw, out, mirror, status>>
  PROVE  Typed' /\ Stages'
<1>1. /\ sub' \in [Clients -> Seq(Messages)]
      /\ lagged' \in [Clients -> BOOLEAN]
      /\ steady' \in [Clients -> BOOLEAN]
      /\ \A c \in Clients :
           /\ Len(sub'[c]) <= BcastCap
           /\ phase[c] = "absent" => sub'[c] = sub[c]
           /\ steady'[c] => steady[c]
  BY Broadcasts
<1>2. Typed'
  <2>1. /\ dump # NoDump => dump \in Dumps
        /\ phase \in [Clients -> Phases]
        /\ status \in [Clients -> Statuses]
        /\ raw \in [Clients -> Seq(Messages)]
        /\ out \in [Clients -> Seq(Messages)]
        /\ mirror \in [Clients -> Maps]
    BY DEF Typed
  <2> QED
    BY <1>1, <2>1, TypedIs
<1>3. Stages'
  BY <1>1 DEF Stages
<1> QED
  BY <1>2, <1>3

UpdateOf(id, v) == [kind |-> "update", id |-> id, value |-> v]
DeleteOf(id) == [kind |-> "delete", id |-> id]

LEMMA ElementTypes ==
  ASSUME Sound, NEW id \in DOMAIN content, NEW v \in DOMAIN content
  PROVE  UpdateOf(id, v) \in Element /\ DeleteOf(id) \in Element
<1>1. id \in ID /\ v \in ID
  BY ContentIs
<1> QED
  BY <1>1 DEF UpdateOf, DeleteOf, Element

LEMMA ApplicationTyped ==
  ASSUME Sound, Typed, Stages, Application
  PROVE  Typed' /\ Stages'
<1>1. ASSUME NEW l \in Lists, NEW v, Create(l, v)
      PROVE  Typed' /\ Stages'
  <2>1. CreateOf(NewID(l), v) \in Element
    BY <1>1, CreateGrows
  <2>2. /\ Broadcast(CreateOf(NewID(l), v))
        /\ UNCHANGED <<dump, phase, raw, out, mirror, status>>
    BY <1>1 DEF Create, CreateOf, NewID
  <2> QED
    BY <2>1, <2>2, BroadcastTyped
<1>2. ASSUME NEW id \in DOMAIN content, NEW v \in DOMAIN content, PatchSend(id, v)
      PROVE  Typed' /\ Stages'
  <2>1. UpdateOf(id, v) \in Element
    BY ElementTypes
  <2>2. /\ Broadcast(UpdateOf(id, v))
        /\ UNCHANGED <<dump, phase, raw, out, mirror, status>>
    BY <1>2 DEF PatchSend, UpdateOf
  <2> QED
    BY <2>1, <2>2, BroadcastTyped
<1>3. CASE PatchApply
  <2>1. UNCHANGED <<dump, phase, sub, lagged, raw, out, mirror, status, steady>>
    BY <1>3 DEF PatchApply
  <2>2. Typed'
    BY <2>1, TypedIs DEF Typed
  <2> QED
    BY <2>1, <2>2 DEF Stages
<1>4. ASSUME NEW id \in DOMAIN content, Delete(id)
      PROVE  Typed' /\ Stages'
  <2>1. DeleteOf(id) \in Element
    BY ElementTypes
  <2>2. /\ Broadcast(DeleteOf(id))
        /\ UNCHANGED <<dump, phase, raw, out, mirror, status>>
    BY <1>4 DEF Delete, DeleteOf
  <2> QED
    BY <2>1, <2>2, BroadcastTyped
<1> QED
  BY <1>1, <1>2, <1>3, <1>4 DEF Application
LEMMA TypesOf ==
  ASSUME Typed
  PROVE  /\ dump # NoDump => dump \in Dumps
         /\ phase \in [Clients -> Phases]
         /\ status \in [Clients -> Statuses]
         /\ lagged \in [Clients -> BOOLEAN]
         /\ steady \in [Clients -> BOOLEAN]
         /\ sub \in [Clients -> Seq(Messages)]
         /\ raw \in [Clients -> Seq(Messages)]
         /\ out \in [Clients -> Seq(Messages)]
         /\ mirror \in [Clients -> Maps]
BY DEF Typed

LEMMA AcceptTyped ==
  ASSUME Typed, Stages, NEW c \in Clients, Accept(c)
  PROVE  Typed' /\ Stages'
<1>1. /\ phase[c] = "absent"
      /\ phase' = [phase EXCEPT ![c] = "accepted"]
      /\ status' = [status EXCEPT ![c] = "running"]
      /\ steady' = [steady EXCEPT ![c] = (patching = NoPatch)]
      /\ UNCHANGED <<dump, sub, lagged, raw, out, mirror>>
  BY DEF Accept
<1>2. Typed'
  <2>1. /\ phase' \in [Clients -> Phases]
        /\ status' \in [Clients -> Statuses]
        /\ steady' \in [Clients -> BOOLEAN]
    BY <1>1, TypesOf DEF Phases, Statuses
  <2> QED
    BY <1>1, <2>1, TypedIs, TypesOf
<1>3. phase \in [Clients -> Phases]
  BY TypesOf
<1>4. \A b \in Clients : phase'[b] = IF b = c THEN "accepted" ELSE phase[b]
  BY <1>1, <1>3
<1>5. dump' # NoDump => phase'[dump'.client] = "accepted"
  <2>1. SUFFICES ASSUME dump # NoDump PROVE phase'[dump.client] = "accepted"
    BY <1>1
  <2>2. dump.client \in Clients /\ phase[dump.client] = "accepted"
    BY <2>1, TypesOf DEF Stages, Dumps
  <2> QED
    BY <1>4, <2>2
<1>6. \A b \in Clients : b # c => steady'[b] = steady[b] /\ status'[b] = status[b]
  BY <1>1, TypesOf
<1>7. ASSUME NEW b \in Clients
      PROVE  /\ Len(sub'[b]) <= BcastCap
             /\ Len(raw'[b]) = IF phase'[b] = "dumped" THEN 1 ELSE 0
             /\ phase'[b] = "absent" =>
                  /\ sub'[b] = <<>> /\ out'[b] = <<>>
                  /\ mirror'[b] = EmptyMap /\ ~ steady'[b]
                  /\ status'[b] = "connecting"
  BY <1>1, <1>4, <1>6 DEF Stages
<1> QED
  BY <1>2, <1>5, <1>7 DEF Stages

LEMMA DumpStartTyped ==
  ASSUME Ordered, Typed, Stages, NEW c \in Clients, DumpStart(c)
  PROVE  Typed' /\ Stages'
<1>1. /\ phase[c] = "accepted"
      /\ dump' = [client |-> c, next |-> 1, count |-> ElementCount + 2,
                  elements |-> <<>>]
      /\ UNCHANGED <<phase, sub, lagged, raw, out, mirror, status, steady>>
  BY DEF DumpStart
<1>2. dump' \in Dumps
  <2>1. ElementCount \in Nat
    BY Counting
  <2>2. ElementCount + 2 \in Nat /\ <<>> \in Seq(Element)
        /\ 1 \in 1 .. Len(DumpOrder) + 1
    BY <2>1, InDumpOrder
  <2> QED
    BY <1>1, <2>2 DEF Dumps
<1>3. Typed'
  BY <1>1, <1>2, TypedIs, TypesOf
<1> QED
  BY <1>1, <1>3 DEF Stages

LEMMA DumpListTyped ==
  ASSUME Sound, Ordered, Typed, Stages, DumpList
  PROVE  Typed' /\ Stages'
<1>1. /\ dump # NoDump
      /\ dump.next <= Len(DumpOrder)
      /\ dump' = [dump EXCEPT !.next = @ + 1,
                              !.elements = @ \o Listing(DumpOrder[dump.next])]
      /\ UNCHANGED <<phase, sub, lagged, raw, out, mirror, status, steady>>
  BY DEF DumpList
<1>2. dump \in Dumps
  BY <1>1, TypesOf
<1>3. dump' \in Dumps /\ dump'.client = dump.client
  <2>1. Len(DumpOrder) \in Nat /\ DumpOrder[dump.next] \in Lists
        /\ dump.next + 1 \in 1 .. Len(DumpOrder) + 1
    BY <1>1, <1>2, InDumpOrder DEF Dumps
  <2>2. Listing(DumpOrder[dump.next]) \in Seq(Element)
    BY <2>1, ListingIs
  <2>3. dump.elements \o Listing(DumpOrder[dump.next]) \in Seq(Element)
    BY <1>2, <2>2, HasConcatenated DEF Dumps
  <2> QED
    BY <1>1, <1>2, <2>1, <2>3 DEF Dumps
<1>4. Typed'
  BY <1>1, <1>3, TypedIs, TypesOf
<1> QED
  BY <1>1, <1>3, <1>4 DEF Stages

LEMMA DumpEndTyped ==
  ASSUME Typed, Stages, DumpEnd
  PROVE  /\ Typed' /\ Stages'
         /\ raw'[dump.client] = <<DumpOf(dump)>>
<1> DEFINE b == dump.client
           D == DumpOf(dump)
<1>1. /\ dump # NoDump
      /\ raw' = [raw EXCEPT ![b] = Append(@, D)]
      /\ phase' = [phase EXCEPT ![b] = "dumped"]
      /\ dump' = NoDump
      /\ UNCHANGED <<sub, lagged, out, mirror, status, steady>>
  BY DEF DumpEnd, DumpOf
<1>2. dump \in Dumps /\ D \in Messages /\ b \in Clients /\ phase[b] = "accepted"
  <2>1. dump \in Dumps
    BY <1>1, TypesOf
  <2> QED
    BY <1>1, <2>1, DumpOfType DEF Dumps, Stages
<1> HIDE DEF b, D
<1>3. raw[b] \in Seq(Messages) /\ Len(raw[b]) = 0
  BY <1>2, TypesOf DEF Stages
<1>4. Append(raw[b], D) = <<D>> /\ <<D>> \in Seq(Messages) /\ Len(<<D>>) = 1
  <2>1. raw[b] = <<>>
    BY <1>3
  <2>2. Append(<<>>, D) = <<D>>
    OBVIOUS
  <2> QED
    BY <1>2, <2>1, <2>2
<1>5. /\ \A c \in Clients : raw'[c] = IF c = b THEN <<D>> ELSE raw[c]
      /\ \A c \in Clients : phase'[c] = IF c = b THEN "dumped" ELSE phase[c]
  BY <1>1, <1>2, <1>4, TypesOf
<1>6. Typed'
  <2>1. raw' \in [Clients -> Seq(Messages)] /\ phase' \in [Clients -> Phases]
    BY <1>1, <1>2, <1>4, TypesOf DEF Phases
  <2> QED
    BY <1>1, <2>1, TypedIs, TypesOf
<1>7. ASSUME NEW c \in Clients
      PROVE  /\ Len(sub'[c]) <= BcastCap
             /\ Len(raw'[c]) = IF phase'[c] = "dumped" THEN 1 ELSE 0
             /\ phase'[c] = "absent" =>
                  /\ sub'[c] = <<>> /\ out'[c] = <<>>
                  /\ mirror'[c] = EmptyMap /\ ~ steady'[c]
                  /\ status'[c] = "connecting"
  BY <1>1, <1>4, <1>5 DEF Stages
<1>8. Stages'
  BY <1>1, <1>7 DEF Stages
<1> QED
  BY <1>2, <1>5, <1>6, <1>8 DEF b, D

LEMMA ForwardDumpTyped ==
  ASSUME Typed, Stages, NEW b \in Clients, ForwardDump(b)
  PROVE  /\ Typed' /\ Stages'
         /\ phase[b] = "dumped"
         /\ raw[b][1] \in Messages
         /\ out'[b] = Append(out[b], raw[b][1])
<1>1. /\ raw[b] # <<>>
      /\ out' = [out EXCEPT ![b] = Append(@, Head(raw[b]))]
      /\ raw' = [raw EXCEPT ![b] = Tail(@)]
      /\ phase' = [phase EXCEPT ![b] = "synced"]
      /\ UNCHANGED <<dump, sub, lagged, mirror, status, steady>>
  BY DEF ForwardDump
<1>2. raw[b] \in Seq(Messages) /\ out[b] \in Seq(Messages)
  BY TypesOf
<1>3. /\ Tail(raw[b]) \in Seq(Messages)
      /\ Len(raw[b]) \in Nat
      /\ Len(raw[b]) >= 1
      /\ Len(Tail(raw[b])) = Len(raw[b]) - 1
      /\ Head(raw[b]) = raw[b][1]
      /\ Head(raw[b]) \in Messages
  BY <1>1, <1>2, HasTail
<1>4. phase[b] = "dumped" /\ Len(raw[b]) = 1
  <2>1. Len(raw[b]) = IF phase[b] = "dumped" THEN 1 ELSE 0
    BY DEF Stages
  <2>2. Len(raw[b]) # 0
    BY <1>3
  <2> QED
    BY <2>1, <2>2
<1>5. Append(out[b], Head(raw[b])) \in Seq(Messages)
  BY <1>2, <1>3
<1>6. /\ \A c \in Clients : raw'[c] = IF c = b THEN Tail(raw[b]) ELSE raw[c]
      /\ \A c \in Clients : phase'[c] = IF c = b THEN "synced" ELSE phase[c]
      /\ \A c \in Clients : c # b => out'[c] = out[c]
      /\ out'[b] = Append(out[b], Head(raw[b]))
  BY <1>1, TypesOf
<1>7. Typed'
  <2>1. /\ raw' \in [Clients -> Seq(Messages)] /\ phase' \in [Clients -> Phases]
        /\ out' \in [Clients -> Seq(Messages)]
    BY <1>1, <1>3, <1>5, TypesOf DEF Phases
  <2> QED
    BY <1>1, <2>1, TypedIs, TypesOf
<1>8. dump' # NoDump => phase'[dump'.client] = "accepted"
  <2>1. SUFFICES ASSUME dump # NoDump PROVE phase'[dump.client] = "accepted"
    BY <1>1
  <2>2. dump.client \in Clients /\ phase[dump.client] = "accepted"
    BY <2>1, TypesOf DEF Stages, Dumps
  <2> QED
    BY <1>4, <1>6, <2>2
<1>9. ASSUME NEW c \in Clients
      PROVE  /\ Len(sub'[c]) <= BcastCap
             /\ Len(raw'[c]) = IF phase'[c] = "dumped" THEN 1 ELSE 0
             /\ phase'[c] = "absent" =>
                  /\ sub'[c] = <<>> /\ out'[c] = <<>>
                  /\ mirror'[c] = EmptyMap /\ ~ steady'[c]
                  /\ status'[c] = "connecting"
  <2>1. CASE c = b
    <3>1. Len(Tail(raw[b])) = 0
      BY <1>3, <1>4
    <3>2. Len(raw'[c]) = 0 /\ phase'[c] = "synced"
      BY <1>6, <2>1, <3>1
    <3>3. Len(sub[c]) <= BcastCap
      BY DEF Stages
    <3>4. phase'[c] # "dumped" /\ phase'[c] # "absent"
      BY <3>2
    <3>5. sub'[c] = sub[c]
      BY <1>1
    <3> QED
      BY <3>2, <3>3, <3>4, <3>5
  <2>2. CASE c # b
    <3>1. raw'[c] = raw[c] /\ phase'[c] = phase[c] /\ out'[c] = out[c]
      BY <1>6, <2>2
    <3>2. /\ Len(sub[c]) <= BcastCap
          /\ Len(raw[c]) = IF phase[c] = "dumped" THEN 1 ELSE 0
          /\ phase[c] = "absent" =>
               /\ sub[c] = <<>> /\ out[c] = <<>>
               /\ mirror[c] = EmptyMap /\ ~ steady[c]
               /\ status[c] = "connecting"
      BY DEF Stages
    <3> QED
      BY <1>1, <3>1, <3>2
  <2> QED
    BY <2>1, <2>2
<1>10. Stages'
  BY <1>8, <1>9 DEF Stages
<1> QED
  BY <1>3, <1>4, <1>6, <1>7, <1>10

LEMMA ForwardBroadcastTyped ==
  ASSUME Typed, Stages, NEW b \in Clients, ForwardBroadcast(b)
  PROVE  /\ Typed' /\ Stages'
         /\ \A c \in Clients : out'[c] \o sub'[c] = out[c] \o sub[c]
<1>1. /\ sub[b] # <<>>
      /\ out' = [out EXCEPT ![b] = Append(@, Head(sub[b]))]
      /\ sub' = [sub EXCEPT ![b] = Tail(@)]
      /\ UNCHANGED <<dump, phase, lagged, raw, mirror, status, steady>>
  BY DEF ForwardBroadcast
<1>2. sub[b] \in Seq(Messages) /\ out[b] \in Seq(Messages)
  BY TypesOf
<1>3. /\ Tail(sub[b]) \in Seq(Messages)
      /\ Len(sub[b]) \in Nat
      /\ Len(Tail(sub[b])) = Len(sub[b]) - 1
      /\ Head(sub[b]) \in Messages
  BY <1>1, <1>2, HasTail
<1>4. Append(out[b], Head(sub[b])) \in Seq(Messages)
  BY <1>2, <1>3
<1>5. /\ \A c \in Clients : sub'[c] = IF c = b THEN Tail(sub[b]) ELSE sub[c]
      /\ \A c \in Clients : c # b => out'[c] = out[c]
      /\ out'[b] = Append(out[b], Head(sub[b]))
  BY <1>1, TypesOf
<1>6. Typed'
  <2>1. sub' \in [Clients -> Seq(Messages)] /\ out' \in [Clients -> Seq(Messages)]
    BY <1>1, <1>3, <1>4, TypesOf
  <2> QED
    BY <1>1, <2>1, TypedIs, TypesOf
<1>7. Len(sub[b]) <= BcastCap /\ BcastCap \in Nat /\ phase[b] # "absent"
  BY <1>1, SyncAssumption DEF Stages
<1>8. ASSUME NEW c \in Clients
      PROVE  /\ Len(sub'[c]) <= BcastCap
             /\ Len(raw'[c]) = IF phase'[c] = "dumped" THEN 1 ELSE 0
             /\ phase'[c] = "absent" =>
                  /\ sub'[c] = <<>> /\ out'[c] = <<>>
                  /\ mirror'[c] = EmptyMap /\ ~ steady'[c]
                  /\ status'[c] = "connecting"
  BY <1>1, <1>3, <1>5, <1>7 DEF Stages
<1>9. Stages'
  BY <1>1, <1>8 DEF Stages
<1>10. Append(out[b], Head(sub[b])) \o Tail(sub[b]) = out[b] \o sub[b]
  BY <1>1, <1>2, ConcatMove
<1> QED
  BY <1>5, <1>6, <1>9, <1>10

LEMMA ReceiveTyped ==
  ASSUME Typed, Stages, NEW b \in Clients, Receive(b)
  PROVE  Typed' /\ Stages'
<1> DEFINE msg == Head(out[b])
           es == Taken(msg)
<1>1. /\ status[b] \in {"running", "ready"}
      /\ out[b] # <<>>
      /\ out' = [out EXCEPT ![b] = Tail(@)]
      /\ UNCHANGED <<dump, phase, sub, lagged, raw, steady>>
      /\ \/ status' = [status EXCEPT ![b] = "panicked"]
         \/ status' = [status EXCEPT ![b] = "ready"]
         \/ status' = status
      /\ \/ mirror' = mirror
         \/ mirror' = [mirror EXCEPT ![b] = ApplyAll(@, es)]
  BY DEF Receive
<1>2. out[b] \in Seq(Messages) /\ mirror[b] \in Maps
  BY TypesOf
<1>3. Tail(out[b]) \in Seq(Messages) /\ msg \in Messages
  BY <1>1, <1>2, HasTail
<1> HIDE DEF msg
<1>4. es \in Seq(Element)
  BY <1>3, TakenType
<1> HIDE DEF es
<1>5. ApplyAll(mirror[b], es) \in Maps
  BY <1>2, <1>4, ApplyAllType
<1>6. Typed'
  <2>1. /\ out' \in [Clients -> Seq(Messages)]
        /\ status' \in [Clients -> Statuses]
        /\ mirror' \in [Clients -> Maps]
    BY <1>1, <1>3, <1>5, TypesOf DEF Statuses
  <2> QED
    BY <1>1, <2>1, TypedIs, TypesOf
<1>7. phase[b] # "absent"
  BY <1>1 DEF Stages
<1>8. \A c \in Clients : c # b =>
        out'[c] = out[c] /\ status'[c] = status[c] /\ mirror'[c] = mirror[c]
  BY <1>1, TypesOf
<1> QED
  BY <1>1, <1>6, <1>7, <1>8 DEF Stages

LEMMA TypedStep ==
  ASSUME Sound, Ordered, Typed, Stages, [Next]_vars
  PROVE  Typed' /\ Stages'
<1>1. CASE UNCHANGED vars
  <2>1. UNCHANGED <<dump, phase, sub, lagged, raw, out, mirror, status, steady>>
    BY <1>1 DEF vars
  <2>2. Typed'
    BY <2>1, TypedIs, TypesOf
  <2> QED
    BY <2>1, <2>2 DEF Stages
<1>2. ASSUME NEW c \in Clients, Accept(c) \/ Connection(c)
      PROVE  Typed' /\ Stages'
  BY <1>2, AcceptTyped, DumpStartTyped, ForwardDumpTyped, ForwardBroadcastTyped,
     ReceiveTyped DEF Connection
<1> QED
  BY <1>1, <1>2, ApplicationTyped, DumpListTyped, DumpEndTyped DEF Next
-----------------------------------------------------------------------------
(* Steps of a client that connected steadily *)

LEMMA JoiningIs ==
  ASSUME NEW c, NEW q, q = out'[c] \o sub'[c],
         status'[c] = "running",
         patching' = NoPatch,
         Connecting(mirror'[c], q, content'),
         dump' # NoDump /\ dump'.client = c => Dumping(dump', order', content'),
         phase'[c] = "dumped" => Complete(raw'[c][1], mirror'[c], q, content')
  PROVE  Joining(c)'
BY DEF Joining, Queue

LEMMA JoinedIs ==
  ASSUME NEW c, NEW q, NEW a, q = out'[c] \o sub'[c], a = Announced',
         status'[c] \in {"running", "ready"},
         Led(mirror'[c], q, a, status'[c] = "ready")
  PROVE  Joined(c)'
BY DEF Joined, Queue

(* Nothing happens to c. *)
LEMMA SteadyKept ==
  ASSUME NEW c \in Clients, Steadily(c),
         steady'[c] => steady[c], lagged[c] => lagged'[c],
         phase'[c] = phase[c], status'[c] = status[c], mirror'[c] = mirror[c],
         out'[c] \o sub'[c] = out[c] \o sub[c], raw'[c] = raw[c],
         UNCHANGED docVars,
         dump' = dump \/ dump' = NoDump \/ dump'.client # c
  PROVE  Steadily(c)'
<1>1. SUFFICES ASSUME steady'[c], ~ lagged'[c]
               PROVE  /\ phase'[c] \in {"accepted", "dumped"} => Joining(c)'
                      /\ phase'[c] = "synced" => Joined(c)'
  BY DEF Steadily
<1>2. steady[c] /\ ~ lagged[c]
  BY <1>1
<1>3. UNCHANGED <<order, content, patching>> /\ Announced' = Announced
  BY DEF docVars, Announced
<1>4. ASSUME phase'[c] \in {"accepted", "dumped"}
      PROVE  Joining(c)'
  <2>1. /\ status[c] = "running"
        /\ patching = NoPatch
        /\ Connecting(mirror[c], Queue(c), content)
        /\ dump # NoDump /\ dump.client = c => Dumping(dump, order, content)
        /\ phase[c] = "dumped" => Complete(raw[c][1], mirror[c], Queue(c), content)
    BY <1>2, <1>4 DEF Steadily, Joining
  <2>2. dump' # NoDump /\ dump'.client = c => Dumping(dump', order', content')
    BY <1>3, <2>1
  <2>3. Queue(c) = out'[c] \o sub'[c]
    BY DEF Queue
  <2> QED
    BY <1>3, <2>1, <2>2, <2>3, JoiningIs
<1>5. ASSUME phase'[c] = "synced"
      PROVE  Joined(c)'
  <2>1. /\ status[c] \in {"running", "ready"}
        /\ Led(mirror[c], Queue(c), Announced, status[c] = "ready")
    BY <1>2, <1>5 DEF Steadily, Joined
  <2>2. Queue(c) = out'[c] \o sub'[c]
    BY DEF Queue
  <2> QED
    BY <1>3, <2>1, <2>2, JoinedIs
<1> QED
  BY <1>4, <1>5

(* What the document announces by a broadcast. *)
LEMMA AnnouncedCreated ==
  ASSUME Sound, NEW l \in Lists, NEW v, Create(l, v)
  PROVE  /\ Announced' = Apply(Announced, CreateOf(NewID(l), v))
         /\ Announced' \in Maps
         /\ Closed(Announced')
<1> DEFINE id == NewID(l)
<1>1. /\ content' = Put(content, id, v)
      /\ patching' = patching
  BY DEF Create, NewID
<1>2. Grown(content, id, v, content')
  BY CreateGrows
<1> HIDE DEF id
<1>3. id \in ID /\ id \notin DOMAIN content /\ v \in DOMAIN content \cup {NoRef}
  BY <1>2 DEF Grown
<1>4. /\ Announced \in Maps
      /\ Closed(Announced)
      /\ DOMAIN Announced = DOMAIN content
  BY AnnouncedIs
<1>5. Announced' = Put(Announced, id, v)
  <2>1. CASE patching = NoPatch
    BY <1>1, <2>1 DEF Announced
  <2>2. CASE patching # NoPatch
    <3>1. patching.id \in DOMAIN content /\ patching.id # id
      BY <1>3, <2>2 DEF Sound, Patches
    <3>2. /\ Announced = [content EXCEPT ![patching.id] = patching.value]
          /\ Announced' = [content' EXCEPT ![patching.id] = patching.value]
      BY <1>1, <2>2 DEF Announced
    <3> QED
      BY <1>1, <3>1, <3>2 DEF Put
  <2> QED
    BY <2>1, <2>2
<1>6. Grown(Announced, id, v, Announced')
  BY <1>3, <1>4, <1>5 DEF Grown
<1>7. Apply(Announced, CreateOf(id, v)) = Put(Announced, id, v)
  BY DEF Apply, CreateOf
<1>8. Announced' \in Maps /\ Closed(Announced')
  BY <1>6, GrownSound
<1> QED
  BY <1>5, <1>7, <1>8 DEF id

LEMMA AnnouncedPatched ==
  ASSUME Sound, NEW id \in DOMAIN content, NEW v \in DOMAIN content,
         PatchSend(id, v)
  PROVE  /\ Announced' = Apply(Announced, UpdateOf(id, v))
         /\ Announced' \in Maps
         /\ Closed(Announced')
<1>1. /\ patching = NoPatch /\ patching' = [id |-> id, value |-> v]
      /\ content' = content
  BY DEF PatchSend
<1>2. patching' # NoPatch
  BY PatchSendSound
<1>3. Announced = content /\ Announced' = [content EXCEPT ![id] = v]
  BY <1>1, <1>2 DEF Announced
<1>4. /\ content \in Maps
      /\ content = [i \in DOMAIN content |-> content[i]]
      /\ DOMAIN content \subseteq ID
      /\ \A i \in DOMAIN content : content[i] \in DOMAIN content \cup {NoRef}
      /\ NoRef \notin ID
  BY ContentIs
<1>5. Announced' = Put(Announced, id, v)
  BY <1>3, <1>4 DEF Put
<1>6. Apply(Announced, UpdateOf(id, v)) = Put(Announced, id, v)
  BY <1>3 DEF Apply, UpdateOf
<1>7. Announced' \in Maps
  <2>1. id \in ID /\ v \in ID \cup {NoRef} /\ Announced \in Maps
    BY <1>3, <1>4
  <2> QED
    BY <1>5, <2>1, PutType
<1>8. Closed(Announced')
  <2>1. \A i \in DOMAIN content : [content EXCEPT ![id] = v][i] \in DOMAIN content \cup {NoRef}
    BY <1>4
  <2>2. DOMAIN [content EXCEPT ![id] = v] = DOMAIN content
    OBVIOUS
  <2> QED
    BY <1>3, <2>1, <2>2 DEF Closed
<1> QED
  BY <1>5, <1>6, <1>7, <1>8

LEMMA AnnouncedDeleted ==
  ASSUME Sound, NEW id \in DOMAIN content, Delete(id)
  PROVE  /\ Announced' = Apply(Announced, DeleteOf(id))
         /\ Announced' \in Maps
         /\ Closed(Announced')
         /\ id \in DOMAIN Announced
<1>1. /\ content' = Without(content, id)
      /\ patching' = patching
      /\ \A i \in DOMAIN content : content[i] # id
      /\ patching # NoPatch => id \notin {patching.id, patching.value}
  BY DEF Delete
<1>2. /\ Announced \in Maps
      /\ Closed(Announced)
      /\ DOMAIN Announced = DOMAIN content
  BY AnnouncedIs
<1>3. Announced' = Without(Announced, id)
  <2>1. CASE patching = NoPatch
    BY <1>1, <2>1 DEF Announced
  <2>2. CASE patching # NoPatch
    <3>1. /\ Announced = [content EXCEPT ![patching.id] = patching.value]
          /\ Announced' = [content' EXCEPT ![patching.id] = patching.value]
      BY <1>1, <2>2 DEF Announced
    <3>2. patching.id # id
      BY <1>1, <2>2
    <3> QED
      BY <1>1, <3>1, <3>2 DEF Without
  <2> QED
    BY <2>1, <2>2
<1>4. \A i \in DOMAIN content : Announced[i] # id
  <2>1. CASE patching = NoPatch
    BY <1>1, <2>1 DEF Announced
  <2>2. CASE patching # NoPatch
    BY <1>1, <2>2 DEF Announced
  <2> QED
    BY <2>1, <2>2
<1>5. Apply(Announced, DeleteOf(id)) = Without(Announced, id)
  BY DEF Apply, DeleteOf
<1>6. Announced' \in Maps
  BY <1>2, <1>3, WithoutType
<1>7. /\ DOMAIN Announced' = DOMAIN content \ {id}
      /\ \A i \in DOMAIN Announced' : Announced'[i] = Announced[i]
  BY <1>2, <1>3 DEF Without
<1>8. Closed(Announced')
  BY <1>2, <1>4, <1>7 DEF Closed
<1> QED
  BY <1>2, <1>3, <1>5, <1>6, <1>8
(* An element is announced to c. *)
LEMMA JoinedBroadcast ==
  ASSUME Typed, Stages, NEW e \in Element, Broadcast(e),
         UNCHANGED <<phase, out, mirror, status>>,
         Announced' = Apply(Announced, e), Announced' \in Maps, Closed(Announced'),
         e.kind = "delete" => e.id \in DOMAIN Announced,
         NEW c \in Clients, Steadily(c),
         steady'[c], ~ lagged'[c], phase[c] = "synced"
  PROVE  Joined(c)'
<1> DEFINE x == Message(<<e>>)
<1>1. /\ steady[c] /\ ~ lagged[c]
      /\ sub'[c] = Append(sub[c], x)
  BY Broadcasts
<1>2. /\ status[c] \in {"running", "ready"}
      /\ Led(mirror[c], Queue(c), Announced, status[c] = "ready")
  BY <1>1 DEF Steadily, Joined
<1>3. x \in Messages /\ out[c] \in Seq(Messages) /\ sub[c] \in Seq(Messages)
  BY MessageType, TypesOf
<1>4. Handled(Announced, x, Announced')
  BY HandledOne
<1>5. Queue(c) \in Seq(Messages)
  BY <1>3, HasConcatenated DEF Queue
<1>6. Led(mirror[c], Append(Queue(c), x), Announced', status[c] = "ready")
  BY <1>2, <1>3, <1>4, <1>5, LedAppend
<1> HIDE DEF x
<1>7. out'[c] \o sub'[c] = Append(Queue(c), x)
  <2>1. \A p, s \in Seq(Messages) : p \o Append(s, x) = Append(p \o s, x)
    BY <1>3, ConcatAppend
  <2>2. out[c] \o Append(sub[c], x) = Append(out[c] \o sub[c], x)
    BY <1>3, <2>1
  <2> QED
    BY <1>1, <2>2 DEF Queue
<1>8. mirror'[c] = mirror[c] /\ status'[c] = status[c]
  OBVIOUS
<1> QED
  BY <1>2, <1>6, <1>7, <1>8, JoinedIs

LEMMA CreateSteady ==
  ASSUME Sound, Typed, Stages, NEW l \in Lists, NEW v, Create(l, v),
         NEW c \in Clients, Steadily(c)
  PROVE  Steadily(c)'
<1> DEFINE id == NewID(l)
           e == CreateOf(id, v)
           x == Message(<<e>>)
<1>1. /\ dump = NoDump
      /\ Broadcast(e)
      /\ UNCHANGED <<patching, dump, phase, raw, out, mirror, status>>
  BY DEF Create, CreateOf, NewID
<1>2. /\ Grown(content, id, v, content')
      /\ e = Creation(content', id)
      /\ e \in Element
  BY CreateGrows
<1>3. /\ Announced' = Apply(Announced, e)
      /\ Announced' \in Maps
      /\ Closed(Announced')
  BY AnnouncedCreated
<1>4. e.kind = "create"
  BY DEF CreateOf
<1> HIDE DEF id, e
<1>5. x \in Messages
  BY <1>2, MessageType
<1>6. out[c] \in Seq(Messages) /\ sub[c] \in Seq(Messages)
  BY TypesOf
<1>7. Queue(c) \in Seq(Messages)
  BY <1>6, HasConcatenated DEF Queue
<1>8. SUFFICES ASSUME steady'[c], ~ lagged'[c]
               PROVE  /\ phase'[c] \in {"accepted", "dumped"} => Joining(c)'
                      /\ phase'[c] = "synced" => Joined(c)'
  BY DEF Steadily
<1>9. ASSUME phase'[c] = "synced"
      PROVE  Joined(c)'
  <2>1. phase[c] = "synced" /\ e.kind # "delete"
    BY <1>1, <1>4, <1>9
  <2> QED
    BY <1>1, <1>2, <1>3, <1>8, <2>1, JoinedBroadcast
<1>10. ASSUME phase'[c] \in {"accepted", "dumped"}
       PROVE  Joining(c)'
  <2>1. /\ phase[c] \in {"accepted", "dumped"}
        /\ steady[c] /\ ~ lagged[c]
        /\ sub'[c] = Append(sub[c], x)
    <3>1. phase[c] \in {"accepted", "dumped"} /\ phase[c] # "absent"
      BY <1>1, <1>10
    <3> QED
      BY <1>1, <1>2, <1>8, <3>1, Broadcasts
  <2>2. /\ status[c] = "running"
        /\ patching = NoPatch
        /\ Connecting(mirror[c], Queue(c), content)
        /\ phase[c] = "dumped" => Complete(raw[c][1], mirror[c], Queue(c), content)
    BY <2>1 DEF Steadily, Joining
  <2> HIDE DEF x
  <2>3. out'[c] \o sub'[c] = Append(Queue(c), x)
    <3>1. \A p, s \in Seq(Messages) : p \o Append(s, x) = Append(p \o s, x)
      BY <1>5, ConcatAppend DEF x
    <3>2. out[c] \o Append(sub[c], x) = Append(out[c] \o sub[c], x)
      BY <1>6, <3>1
    <3> QED
      BY <1>1, <2>1, <3>2 DEF Queue
  <2>4. Connecting(mirror[c], Append(Queue(c), x), content')
    BY <1>2, <1>5, <1>7, <2>2, ConnectingGrown DEF x
  <2>5. phase[c] = "dumped" =>
          Complete(raw[c][1], mirror[c], Append(Queue(c), x), content')
    BY <1>2, <1>5, <1>7, <2>2, CompleteGrown DEF x
  <2> QED
    BY <1>1, <2>2, <2>3, <2>4, <2>5, JoiningIs
<1> QED
  BY <1>9, <1>10

LEMMA PatchSteady ==
  ASSUME Sound, Typed, Stages,
         NEW id \in DOMAIN content, NEW v \in DOMAIN content, PatchSend(id, v),
         NEW c \in Clients, Steadily(c)
  PROVE  Steadily(c)'
<1> DEFINE e == UpdateOf(id, v)
<1>1. /\ Broadcast(e)
      /\ UNCHANGED <<phase, out, mirror, status>>
  BY DEF PatchSend, UpdateOf
<1>2. e \in Element
  BY ElementTypes
<1>3. /\ Announced' = Apply(Announced, e)
      /\ Announced' \in Maps
      /\ Closed(Announced')
  BY AnnouncedPatched
<1>4. e.kind = "update"
  BY DEF UpdateOf
<1> HIDE DEF e
<1>5. SUFFICES ASSUME steady'[c], ~ lagged'[c]
               PROVE  /\ phase'[c] \in {"accepted", "dumped"} => Joining(c)'
                      /\ phase'[c] = "synced" => Joined(c)'
  BY DEF Steadily
<1>6. phase[c] = "synced" \/ e.kind = "create"
  BY <1>1, <1>2, <1>5, Broadcasts
<1>7. phase[c] = "synced" /\ phase'[c] = "synced" /\ e.kind # "delete"
  BY <1>1, <1>4, <1>6
<1>8. Joined(c)'
  BY <1>1, <1>2, <1>3, <1>5, <1>7, JoinedBroadcast
<1> QED
  BY <1>7, <1>8

LEMMA DeleteSteady ==
  ASSUME Sound, Typed, Stages, NEW id \in DOMAIN content, Delete(id),
         NEW c \in Clients, Steadily(c)
  PROVE  Steadily(c)'
<1> DEFINE e == DeleteOf(id)
<1>1. /\ Broadcast(e)
      /\ UNCHANGED <<phase, out, mirror, status>>
  BY DEF Delete, DeleteOf
<1>2. e \in Element
  BY ElementTypes
<1>3. /\ Announced' = Apply(Announced, e)
      /\ Announced' \in Maps
      /\ Closed(Announced')
      /\ id \in DOMAIN Announced
  BY AnnouncedDeleted
<1>4. e.kind = "delete" /\ e.id = id
  BY DEF DeleteOf
<1> HIDE DEF e
<1>5. SUFFICES ASSUME steady'[c], ~ lagged'[c]
               PROVE  /\ phase'[c] \in {"accepted", "dumped"} => Joining(c)'
                      /\ phase'[c] = "synced" => Joined(c)'
  BY DEF Steadily
<1>6. phase[c] = "synced" \/ e.kind = "create"
  BY <1>1, <1>2, <1>5, Broadcasts
<1>7. /\ phase[c] = "synced" /\ phase'[c] = "synced"
      /\ e.kind = "delete" => e.id \in DOMAIN Announced
  BY <1>1, <1>3, <1>4, <1>6
<1>8. Joined(c)'
  BY <1>1, <1>2, <1>3, <1>5, <1>7, JoinedBroadcast
<1> QED
  BY <1>7, <1>8

LEMMA PatchApplySteady ==
  ASSUME Sound, PatchApply, NEW c \in Clients, Steadily(c)
  PROVE  Steadily(c)'
<1>1. /\ patching # NoPatch
      /\ UNCHANGED <<phase, sub, lagged, out, mirror, status, steady>>
  BY DEF PatchApply
<1>2. Announced' = Announced
  BY PatchApplySound
<1>3. SUFFICES ASSUME steady[c], ~ lagged[c]
               PROVE  /\ phase[c] \in {"accepted", "dumped"} => Joining(c)'
                      /\ phase[c] = "synced" => Joined(c)'
  BY <1>1 DEF Steadily
<1>4. ~ (phase[c] \in {"accepted", "dumped"})
  BY <1>1, <1>3 DEF Steadily, Joining
<1>5. ASSUME phase[c] = "synced"
      PROVE  Joined(c)'
  <2>1. /\ status[c] \in {"running", "ready"}
        /\ Led(mirror[c], Queue(c), Announced, status[c] = "ready")
    BY <1>3, <1>5 DEF Steadily, Joined
  <2>2. Queue(c) = out'[c] \o sub'[c]
    BY <1>1 DEF Queue
  <2> QED
    BY <1>1, <1>2, <2>1, <2>2, JoinedIs
<1> QED
  BY <1>4, <1>5

LEMMA AcceptSteady ==
  ASSUME Typed, Stages, NEW b \in Clients, Accept(b), NEW c \in Clients, Steadily(c)
  PROVE  Steadily(c)'
<1>1. /\ phase[b] = "absent"
      /\ phase' = [phase EXCEPT ![b] = "accepted"]
      /\ status' = [status EXCEPT ![b] = "running"]
      /\ steady' = [steady EXCEPT ![b] = (patching = NoPatch)]
      /\ UNCHANGED <<docVars, dump, sub, lagged, raw, out, mirror>>
  BY DEF Accept
<1>2. CASE c # b
  <2>1. /\ steady'[c] = steady[c] /\ phase'[c] = phase[c] /\ status'[c] = status[c]
    BY <1>1, <1>2, TypesOf
  <2> QED
    BY <1>1, <2>1, SteadyKept
<1>3. CASE c = b
  <2>1. SUFFICES ASSUME steady'[c], ~ lagged'[c]
                 PROVE  /\ phase'[c] \in {"accepted", "dumped"} => Joining(c)'
                        /\ phase'[c] = "synced" => Joined(c)'
    BY DEF Steadily
  <2>2. phase'[c] = "accepted" /\ status'[c] = "running" /\ patching = NoPatch
    BY <1>1, <1>3, <2>1, TypesOf
  <2>3. sub[c] = <<>> /\ out[c] = <<>> /\ mirror[c] = EmptyMap
    BY <1>1, <1>3 DEF Stages
  <2>4. out'[c] \o sub'[c] = <<>> /\ mirror'[c] = EmptyMap /\ patching' = NoPatch
    BY <1>1, <2>2, <2>3 DEF docVars
  <2>5. DOMAIN EmptyMap = {} /\ EmptyMap = [i \in {} |-> content'[i]]
    BY DEF EmptyMap
  <2>6. Len(<<>>) = 0 /\ \A k : k \notin 1 .. 0
    OBVIOUS
  <2>7. Connecting(EmptyMap, <<>>, content')
    BY <2>5, <2>6 DEF Connecting, PartOf, News, Fresh
  <2>8. ~ (dump' # NoDump /\ dump'.client = c)
    BY <1>1, <1>3 DEF Stages
  <2>9. Joining(c)'
    BY <2>2, <2>4, <2>7, <2>8, JoiningIs
  <2> QED
    BY <2>2, <2>9
<1> QED
  BY <1>2, <1>3

LEMMA DumpStartSteady ==
  ASSUME Sound, Ordered, AllCounted, Typed, Stages,
         NEW b \in Clients, DumpStart(b), NEW c \in Clients, Steadily(c)
  PROVE  Steadily(c)'
<1>1. /\ phase[b] = "accepted"
      /\ dump' = [client |-> b, next |-> 1, count |-> ElementCount + 2,
                  elements |-> <<>>]
      /\ UNCHANGED <<docVars, phase, sub, lagged, raw, out, mirror, status, steady>>
  BY DEF DumpStart
<1>2. CASE c # b
  <2>1. dump'.client # c
    BY <1>1, <1>2
  <2> QED
    BY <1>1, <2>1, SteadyKept
<1>3. CASE c = b
  <2>1. SUFFICES ASSUME steady[c], ~ lagged[c]
                 PROVE  /\ phase'[c] \in {"accepted", "dumped"} => Joining(c)'
                        /\ phase'[c] = "synced" => Joined(c)'
    BY <1>1 DEF Steadily
  <2>2. /\ status[c] = "running"
        /\ patching = NoPatch
        /\ Connecting(mirror[c], Queue(c), content)
    BY <1>1, <1>3, <2>1 DEF Steadily, Joining
  <2>3. UNCHANGED <<order, content, patching>>
    BY <1>1 DEF docVars
  <2>4. PICK s \in [0 .. Len(DumpOrder) -> Nat] :
          Sums(s, order) /\ ElementCount = s[Len(DumpOrder)]
    BY Counting
  <2>5. /\ dump'.next = 1 /\ dump'.elements = <<>>
        /\ dump'.count = ElementCount + 2
    BY <1>1
  <2>6. Dumping(dump', order, content)
    <3>1. Len(<<>>) = 0 /\ 1 - 1 = 0 /\ \A k : k \notin 1 .. 0
      OBVIOUS
    <3>2. s[0] = 0
      BY <2>4 DEF Sums
    <3>3. Creates(<<>>, content)
      BY <3>1 DEF Creates
    <3> QED
      BY <2>4, <2>5, <3>1, <3>2, <3>3 DEF Dumping
  <2>7. Queue(c) = out'[c] \o sub'[c]
    BY <1>1 DEF Queue
  <2>8. Joining(c)'
    BY <1>1, <1>3, <2>2, <2>3, <2>6, <2>7, JoiningIs
  <2> QED
    BY <1>1, <1>3, <2>8
<1> QED
  BY <1>2, <1>3

LEMMA DumpListSteady ==
  ASSUME Sound, Ordered, Typed, Stages, DumpList, NEW c \in Clients, Steadily(c)
  PROVE  Steadily(c)'
<1>1. /\ dump # NoDump
      /\ dump.next <= Len(DumpOrder)
      /\ dump' = [dump EXCEPT !.next = @ + 1,
                              !.elements = @ \o Listing(DumpOrder[dump.next])]
      /\ UNCHANGED <<docVars, phase, sub, lagged, raw, out, mirror, status, steady>>
  BY DEF DumpList
<1>2. dump \in Dumps /\ phase[dump.client] = "accepted"
  BY <1>1, TypesOf DEF Stages
<1>3. dump'.client = dump.client
  BY <1>1, <1>2 DEF Dumps
<1>4. CASE c # dump.client
  <2>1. dump'.client # c
    BY <1>3, <1>4
  <2> QED
    BY <1>1, <2>1, SteadyKept
<1>5. CASE c = dump.client
  <2>1. SUFFICES ASSUME steady[c], ~ lagged[c]
                 PROVE  /\ phase'[c] \in {"accepted", "dumped"} => Joining(c)'
                        /\ phase'[c] = "synced" => Joined(c)'
    BY <1>1 DEF Steadily
  <2>2. /\ status[c] = "running"
        /\ patching = NoPatch
        /\ Connecting(mirror[c], Queue(c), content)
        /\ Dumping(dump, order, content)
    BY <1>1, <1>2, <1>5, <2>1 DEF Steadily, Joining
  <2>3. UNCHANGED <<order, content, patching>>
    BY <1>1 DEF docVars
  <2>4. Dumping(dump', order, content)
    BY <1>1, <1>2, <2>2, DumpedList
  <2>5. Queue(c) = out'[c] \o sub'[c]
    BY <1>1 DEF Queue
  <2>6. Joining(c)'
    BY <1>1, <1>2, <1>5, <2>2, <2>3, <2>4, <2>5, JoiningIs
  <2> QED
    BY <1>1, <1>2, <1>5, <2>6
<1> QED
  BY <1>4, <1>5

LEMMA DumpEndSteady ==
  ASSUME Sound, Typed, Stages, DumpEnd, NEW c \in Clients, Steadily(c)
  PROVE  Steadily(c)'
<1>1. /\ dump # NoDump
      /\ dump.next > Len(DumpOrder)
      /\ raw' = [raw EXCEPT ![dump.client] = Append(@, DumpOf(dump))]
      /\ phase' = [phase EXCEPT ![dump.client] = "dumped"]
      /\ dump' = NoDump
      /\ UNCHANGED <<docVars, sub, lagged, out, mirror, status, steady>>
  BY DEF DumpEnd, DumpOf
<1>2. dump \in Dumps /\ phase[dump.client] = "accepted"
  BY <1>1, TypesOf DEF Stages
<1>3. CASE c # dump.client
  <2>1. raw'[c] = raw[c] /\ phase'[c] = phase[c]
    BY <1>1, <1>3, TypesOf
  <2> QED
    BY <1>1, <2>1, SteadyKept
<1>4. CASE c = dump.client
  <2>1. SUFFICES ASSUME steady[c], ~ lagged[c]
                 PROVE  /\ phase'[c] \in {"accepted", "dumped"} => Joining(c)'
                        /\ phase'[c] = "synced" => Joined(c)'
    BY <1>1 DEF Steadily
  <2>2. /\ status[c] = "running"
        /\ patching = NoPatch
        /\ Connecting(mirror[c], Queue(c), content)
        /\ Dumping(dump, order, content)
    BY <1>1, <1>2, <1>4, <2>1 DEF Steadily, Joining
  <2>3. UNCHANGED <<order, content, patching>>
    BY <1>1 DEF docVars
  <2>4. phase'[c] = "dumped"
    BY <1>1, <1>4, TypesOf
  <2>5. raw'[c][1] = DumpOf(dump)
    <3>1. raw'[dump.client] = <<DumpOf(dump)>>
      BY DumpEndTyped
    <3> QED
      BY <1>4, <3>1
  <2>6. Complete(DumpOf(dump), mirror[c], Queue(c), content)
    BY <1>1, <1>2, <2>2, Dumped
  <2>7. Queue(c) = out'[c] \o sub'[c]
    BY <1>1 DEF Queue
  <2>8. Joining(c)'
    BY <1>1, <2>2, <2>3, <2>5, <2>6, <2>7, JoiningIs
  <2> QED
    BY <2>4, <2>8
<1> QED
  BY <1>3, <1>4

LEMMA ForwardDumpSteady ==
  ASSUME Sound, Typed, Stages, NEW b \in Clients, ForwardDump(b),
         NEW c \in Clients, Steadily(c)
  PROVE  Steadily(c)'
<1>1. /\ phase' = [phase EXCEPT ![b] = "synced"]
      /\ out' = [out EXCEPT ![b] = Append(@, Head(raw[b]))]
      /\ raw' = [raw EXCEPT ![b] = Tail(@)]
      /\ UNCHANGED <<docVars, dump, sub, lagged, mirror, status, steady>>
  BY DEF ForwardDump
<1>2. CASE c # b
  <2>1. raw'[c] = raw[c] /\ phase'[c] = phase[c] /\ out'[c] = out[c]
    BY <1>1, <1>2, TypesOf
  <2> QED
    BY <1>1, <2>1, SteadyKept
<1>3. CASE c = b
  <2>1. SUFFICES ASSUME steady[c], ~ lagged[c]
                 PROVE  /\ phase'[c] \in {"accepted", "dumped"} => Joining(c)'
                        /\ phase'[c] = "synced" => Joined(c)'
    BY <1>1 DEF Steadily
  <2>2. /\ phase[c] = "dumped"
        /\ raw[c][1] \in Messages
        /\ out'[c] = Append(out[c], raw[c][1])
    <3>1. /\ phase[b] = "dumped"
          /\ raw[b][1] \in Messages
          /\ out'[b] = Append(out[b], raw[b][1])
      BY ForwardDumpTyped
    <3> QED
      BY <1>3, <3>1
  <2>3. phase'[c] = "synced"
    BY <1>1, <1>3, TypesOf
  <2>4. /\ status[c] = "running"
        /\ patching = NoPatch
        /\ Connecting(mirror[c], out[c] \o sub[c], content)
        /\ Complete(raw[c][1], mirror[c], out[c] \o sub[c], content)
    BY <2>1, <2>2 DEF Steadily, Joining, Queue
  <2>5. out[c] \in Seq(Messages) /\ sub[c] \in Seq(Messages)
    BY TypesOf
  <2>6. content \in Maps /\ Closed(content)
    BY DEF Sound
  <2>7. Led(mirror[c], Append(out[c], raw[c][1]) \o sub[c], content, FALSE)
    BY <2>2, <2>4, <2>5, <2>6, LedByDump
  <2>8. Announced' = content
    BY <1>1, <2>4 DEF Announced, docVars
  <2>9. out'[c] \o sub'[c] = Append(out[c], raw[c][1]) \o sub[c]
    BY <1>1, <2>2
  <2>10. (status'[c] = "ready") = FALSE
    BY <1>1, <2>4
  <2>11. Led(mirror'[c], Append(out[c], raw[c][1]) \o sub[c], content,
             status'[c] = "ready")
    BY <1>1, <2>7, <2>10
  <2>12. Joined(c)'
    BY <1>1, <2>4, <2>8, <2>9, <2>11, JoinedIs
  <2> QED
    BY <2>3, <2>12
<1> QED
  BY <1>2, <1>3

LEMMA ForwardBroadcastSteady ==
  ASSUME Typed, Stages, NEW b \in Clients, ForwardBroadcast(b),
         NEW c \in Clients, Steadily(c)
  PROVE  Steadily(c)'
<1>1. UNCHANGED <<docVars, dump, phase, lagged, raw, mirror, status, steady>>
  BY DEF ForwardBroadcast
<1>2. out'[c] \o sub'[c] = out[c] \o sub[c]
  BY ForwardBroadcastTyped
<1> QED
  BY <1>1, <1>2, SteadyKept

LEMMA ReceiveSteady ==
  ASSUME Typed, Stages, NEW b \in Clients, Receive(b),
         NEW c \in Clients, Steadily(c)
  PROVE  Steadily(c)'
<1> DEFINE msg == Head(out[c])
           es == Taken(msg)
           m == mirror[c]
           q == Queue(c)
<1>1. /\ out[b] # <<>>
      /\ out' = [out EXCEPT ![b] = Tail(@)]
      /\ UNCHANGED <<docVars, dump, phase, sub, lagged, raw, steady>>
  BY DEF Receive
<1>2. CASE c # b
  <2>1. out'[c] = out[c]
    BY <1>1, <1>2, TypesOf
  <2>2. status'[c] = status[c] /\ mirror'[c] = mirror[c]
    BY <1>2, TypesOf DEF Receive
  <2> QED
    BY <1>1, <2>1, <2>2, SteadyKept
<1>3. CASE c = b
  <2>1. SUFFICES ASSUME steady[c], ~ lagged[c]
                 PROVE  /\ phase'[c] \in {"accepted", "dumped"} => Joining(c)'
                        /\ phase'[c] = "synced" => Joined(c)'
    BY <1>1 DEF Steadily
  <2>2. out[c] \in Seq(Messages) /\ sub[c] \in Seq(Messages) /\ out[c] # <<>>
    BY <1>1, <1>3, TypesOf
  <2>3. q \in Seq(Messages) /\ q # <<>> /\ Head(q) = msg
        /\ Tail(q) = Tail(out[c]) \o sub[c]
    BY <2>2, ConcatTail, HasConcatenated DEF Queue
  <2>4. out'[c] \o sub'[c] = Tail(q)
    BY <1>1, <1>3, <2>3, TypesOf
  <2>5. msg.count <= Len(msg.elements) /\ ~ DeletesUnknown(m, es) =>
          /\ mirror'[c] = ApplyAll(m, es)
          /\ status'[c] = IF Ends(msg) THEN "ready" ELSE status[c]
    <3>1. SUFFICES ASSUME msg.count <= Len(msg.elements), ~ DeletesUnknown(m, es)
                   PROVE  /\ mirror'[c] = ApplyAll(m, es)
                          /\ status'[c] = IF Ends(msg) THEN "ready" ELSE status[c]
      OBVIOUS
    <3>2. msg \in Messages
      BY <2>2, HasTail
    <3>3. ~ (msg.count > Len(msg.elements))
      <4>1. msg.count \in Nat /\ Len(msg.elements) \in Nat
        <5>1. msg.elements \in Seq(Element) /\ msg.count \in Nat
          BY <3>2 DEF Messages
        <5> QED
          BY <5>1
      <4> QED
        BY <3>1, <4>1
    <3>4. /\ mirror' = [mirror EXCEPT ![c] = ApplyAll(@, es)]
          /\ status' = IF Ends(msg) THEN [status EXCEPT ![c] = "ready"] ELSE status
      BY <1>3, <3>1, <3>3 DEF Receive, Ends
    <3> HIDE DEF msg, es
    <3> QED
      BY <3>4, TypesOf
  <2> HIDE DEF msg, es, m, q
  <2>6. ASSUME phase'[c] \in {"accepted", "dumped"}
        PROVE  Joining(c)'
    <3>1. phase[c] \in {"accepted", "dumped"}
      BY <1>1, <2>6
    <3>2. /\ status[c] = "running"
          /\ patching = NoPatch
          /\ Connecting(m, q, content)
          /\ dump # NoDump /\ dump.client = c => Dumping(dump, order, content)
          /\ phase[c] = "dumped" => Complete(raw[c][1], m, q, content)
      BY <2>1, <3>1 DEF Steadily, Joining, m, q
    <3>3. /\ Head(q).count = Len(Head(q).elements)
          /\ Taken(Head(q)) = <<Creation(content, New(q, 1))>>
          /\ ~ DeletesUnknown(m, Taken(Head(q)))
          /\ ApplyAll(m, Taken(Head(q))) = Put(m, New(q, 1), content[New(q, 1)])
          /\ ~ Ends(Head(q))
          /\ Connecting(Put(m, New(q, 1), content[New(q, 1)]), Tail(q), content)
          /\ \A D : Complete(D, m, q, content) =>
               Complete(D, Put(m, New(q, 1), content[New(q, 1)]), Tail(q), content)
      BY <2>3, <3>2, ConnectingTail
    <3>4. msg.count <= Len(msg.elements)
      <4>1. Len(msg.elements) \in Nat
        <5>1. msg.elements \in Seq(Element)
          <6>1. msg \in Messages
            BY <2>2, HasTail DEF msg
          <6> QED
            BY <6>1 DEF Messages
        <5> QED
          BY <5>1
      <4> QED
        BY <2>3, <3>3, <4>1
    <3>5. /\ mirror'[c] = Put(m, New(q, 1), content[New(q, 1)])
          /\ status'[c] = "running"
      BY <2>3, <2>5, <3>2, <3>3, <3>4 DEF es
    <3>6. UNCHANGED <<order, content, patching, dump, phase, raw>>
      BY <1>1 DEF docVars
    <3>7. /\ Connecting(mirror'[c], Tail(q), content)
          /\ phase[c] = "dumped" => Complete(raw[c][1], mirror'[c], Tail(q), content)
      BY <3>2, <3>3, <3>5
    <3> QED
      BY <2>4, <3>2, <3>5, <3>6, <3>7, JoiningIs
  <2>7. ASSUME phase'[c] = "synced"
        PROVE  Joined(c)'
    <3>1. phase[c] = "synced"
      BY <1>1, <2>7
    <3>2. /\ status[c] \in {"running", "ready"}
          /\ Led(m, q, Announced, status[c] = "ready")
      BY <2>1, <3>1 DEF Steadily, Joined, m, q
    <3>3. /\ msg.count <= Len(msg.elements)
          /\ ~ DeletesUnknown(m, es)
          /\ Led(ApplyAll(m, es), Tail(q), Announced,
                 (status[c] = "ready") \/ Ends(msg))
      BY <2>3, <3>2, LedTail DEF es
    <3>4. /\ mirror'[c] = ApplyAll(m, es)
          /\ status'[c] = IF Ends(msg) THEN "ready" ELSE status[c]
      BY <2>5, <3>3
    <3>5. /\ status'[c] \in {"running", "ready"}
          /\ ((status[c] = "ready") \/ Ends(msg)) <=> (status'[c] = "ready")
      BY <3>2, <3>4
    <3>6. Led(mirror'[c], Tail(q), Announced, status'[c] = "ready")
      <4>1. ((status[c] = "ready") \/ Ends(msg)) = (status'[c] = "ready")
        BY <3>5
      <4> QED
        BY <3>3, <3>4, <4>1
    <3>7. Announced' = Announced
      BY <1>1 DEF Announced, docVars
    <3> QED
      BY <2>4, <3>5, <3>6, <3>7, JoinedIs
  <2> QED
    BY <2>6, <2>7
<1> QED
  BY <1>2, <1>3

LEMMA SteadyStep ==
  ASSUME Inv, AllCounted, [Next]_vars, NEW c \in Clients
  PROVE  Steadily(c)'
<1>1. Sound /\ Ordered /\ Typed /\ Stages /\ Steadily(c)
  BY DEF Inv, Shape
<1>2. CASE UNCHANGED vars
  BY <1>1, <1>2, SteadyKept DEF vars
<1>3. CASE Application
  BY <1>1, <1>3, CreateSteady, PatchSteady, PatchApplySteady, DeleteSteady
     DEF Application
<1>4. ASSUME NEW b \in Clients, Accept(b) \/ Connection(b)
      PROVE  Steadily(c)'
  BY <1>1, <1>4, AcceptSteady, DumpStartSteady, ForwardDumpSteady,
     ForwardBroadcastSteady, ReceiveSteady DEF Connection
<1>5. CASE DumpList
  BY <1>1, <1>5, DumpListSteady
<1>6. CASE DumpEnd
  BY <1>1, <1>6, DumpEndSteady
<1> QED
  BY <1>2, <1>3, <1>4, <1>5, <1>6 DEF Next

-----------------------------------------------------------------------------
(* The theorems *)

LEMMA InitInv == Init => Inv
<1>1. SUFFICES ASSUME Init PROVE Inv
  OBVIOUS
<1>2. /\ order = [l \in Lists |-> <<>>]
      /\ content = EmptyMap
      /\ patching = NoPatch
      /\ created = 0
      /\ dump = NoDump
      /\ phase = [c \in Clients |-> "absent"]
      /\ sub = [c \in Clients |-> <<>>]
      /\ lagged = [c \in Clients |-> FALSE]
      /\ raw = [c \in Clients |-> <<>>]
      /\ out = [c \in Clients |-> <<>>]
      /\ mirror = [c \in Clients |-> EmptyMap]
      /\ status = [c \in Clients |-> "connecting"]
      /\ steady = [c \in Clients |-> FALSE]
  BY <1>1 DEF Init
<1>3. DOMAIN EmptyMap = {} /\ EmptyMap \in Maps
  <2>1. DOMAIN EmptyMap = {} /\ EmptyMap = [i \in DOMAIN EmptyMap |-> EmptyMap[i]]
    BY DEF EmptyMap
  <2> QED
    BY <2>1, MapsAre
<1>4. Sound
  BY <1>2, <1>3 DEF Sound, Closed
<1>5. Ordered
  <2>1. <<>> \in Seq(ID) /\ Len(<<>>) = 0 /\ \A k : k \notin 1 .. 0
    OBVIOUS
  <2>2. \A l \in Lists : Listed(l, <<>>, content)
    BY <1>2, <1>3, <2>1 DEF Listed
  <2> QED
    BY <1>2, <2>1, <2>2 DEF Ordered
<1>6. Typed
  <2>1. <<>> \in Seq(Messages)
    OBVIOUS
  <2> QED
    BY <1>2, <1>3, <2>1 DEF Typed, Phases, Statuses
<1>7. Stages
  <2>1. BcastCap \in Nat /\ BcastCap > 0 /\ Len(<<>>) = 0
    BY SyncAssumption
  <2> QED
    BY <1>2, <2>1 DEF Stages
<1>8. \A c \in Clients : Steadily(c)
  BY <1>2 DEF Steadily
<1> QED
  BY <1>4, <1>5, <1>6, <1>7, <1>8 DEF Inv, Shape

LEMMA InvStep == Inv /\ AllCounted /\ [Next]_vars => Inv'
<1>1. SUFFICES ASSUME Inv, AllCounted, [Next]_vars PROVE Inv'
  OBVIOUS
<1>2. Sound /\ Ordered /\ Typed /\ Stages
  BY <1>1 DEF Inv, Shape
<1>3. Sound'
  BY <1>1, <1>2, SoundStep
<1>4. Ordered'
  BY <1>1, <1>2, OrderedStep
<1>5. Typed' /\ Stages'
  BY <1>1, <1>2, TypedStep
<1>6. \A c \in Clients : Steadily(c)'
  BY <1>1, SteadyStep
<1> QED
  BY <1>3, <1>4, <1>5, <1>6 DEF Inv, Shape

LEMMA Types == Shape => TypeOK
<1>1. SUFFICES ASSUME Shape PROVE TypeOK
  OBVIOUS
<1>2. Sound /\ Ordered /\ Typed /\ Stages
  BY <1>1 DEF Shape
<1>3. /\ DOMAIN content \subseteq ID
      /\ \A id \in DOMAIN content : content[id] \in ID \cup {NoRef}
  BY <1>2, ContentIs
<1>4. ASSUME NEW l \in Lists
      PROVE  ToSet(order[l]) = {id \in DOMAIN content : id.list = l}
  <2>1. order[l] \in Seq(ID) /\ Listed(l, order[l], content)
    BY <1>2 DEF Ordered
  <2>2. DOMAIN order[l] = 1 .. Len(order[l])
    BY <2>1
  <2> QED
    BY <2>1, <2>2 DEF ToSet, Listed
<1>5. patching # NoPatch => {patching.id, patching.value} \subseteq DOMAIN content
  BY <1>2 DEF Sound, Patches
<1>6. dump # NoDump => dump.client \in Clients /\ dump.elements \in Seq(Element)
  BY <1>2 DEF Typed, Dumps
<1>7. ASSUME NEW c \in Clients
      PROVE  /\ sub[c] \in Seq(Messages) /\ Len(sub[c]) <= BcastCap
             /\ raw[c] \in Seq(Messages) /\ Len(raw[c]) <= 1
             /\ out[c] \in Seq(Messages)
             /\ DOMAIN mirror[c] \subseteq ID
  <2>1. Len(raw[c]) <= 1
    BY <1>2 DEF Stages
  <2>2. DOMAIN mirror[c] \subseteq ID
    BY <1>2, TypesOf, MapsAre
  <2> QED
    BY <1>2, <2>1, <2>2, TypesOf DEF Stages
<1>8. /\ order \in [Lists -> Seq(ID)]
      /\ phase \in [Clients -> {"absent", "accepted", "dumped", "synced"}]
      /\ status \in [Clients -> {"connecting", "running", "ready", "panicked"}]
  BY <1>2 DEF Ordered, Typed, Phases, Statuses
<1> QED
  BY <1>3, <1>4, <1>5, <1>6, <1>7, <1>8 DEF TypeOK

(* How far a client that connected steadily may be. *)
LEMMA SteadyClient ==
  ASSUME Inv, NEW c \in Clients, steady[c], ~ lagged[c]
  PROVE  \/ status[c] = "running" /\ phase[c] # "synced"
         \/ phase[c] = "synced" /\ Joined(c)
<1>1. Typed /\ Stages /\ Steadily(c)
  BY DEF Inv, Shape
<1>2. phase[c] \in Phases
  BY <1>1 DEF Typed
<1>3. phase[c] # "absent"
  BY <1>1 DEF Stages
<1>4. CASE phase[c] = "synced"
  BY <1>1, <1>4 DEF Steadily
<1>5. CASE phase[c] \in {"accepted", "dumped"}
  BY <1>1, <1>5 DEF Steadily, Joining
<1> QED
  BY <1>2, <1>3, <1>4, <1>5 DEF Phases

LEMMA Consequences ==
  Inv => SteadyClientsConverge /\ SteadyClientsSurvive /\ SteadyMirrorsResolve
<1>1. SUFFICES ASSUME Inv
               PROVE  /\ SteadyClientsConverge
                      /\ SteadyClientsSurvive
                      /\ SteadyMirrorsResolve
  OBVIOUS
<1>2. Sound /\ Typed /\ Stages
  BY <1>1 DEF Inv, Shape
<1>3. ASSUME NEW c \in Clients, steady[c], Streaming(c)
      PROVE  Following(mirror[c], out[c] \o sub[c]) = Announced
  <2>1. ~ lagged[c] /\ phase[c] = "synced"
    BY <1>3 DEF Streaming
  <2>2. Led(mirror[c], Queue(c), Announced, status[c] = "ready")
    BY <1>1, <1>3, <2>1, SteadyClient DEF Joined
  <2>3. Queue(c) \in Seq(Messages)
    BY <1>2, TypesOf, HasConcatenated DEF Queue
  <2>4. Following(mirror[c], Queue(c)) = Announced
    BY <2>2, <2>3, LedFollows
  <2> QED
    BY <2>4 DEF Queue
<1>4. ASSUME NEW c \in Clients, steady[c], ~ lagged[c]
      PROVE  status[c] # "panicked"
  BY <1>1, <1>4, SteadyClient DEF Joined
<1>5. ASSUME NEW c \in Clients, steady[c], status[c] = "ready", ~ lagged[c]
      PROVE  Closed(mirror[c])
  <2>1. Led(mirror[c], Queue(c), Announced, TRUE)
    <3>1. Led(mirror[c], Queue(c), Announced, status[c] = "ready")
      BY <1>1, <1>5, SteadyClient DEF Joined
    <3>2. (status[c] = "ready") = TRUE
      BY <1>5
    <3> QED
      BY <3>1, <3>2
  <2>2. Queue(c) \in Seq(Messages)
    BY <1>2, TypesOf, HasConcatenated DEF Queue
  <2> QED
    BY <2>1, <2>2, LedFollows
<1>6. SteadyClientsConverge
  BY <1>3 DEF SteadyClientsConverge
<1>7. SteadyClientsSurvive
  BY <1>4 DEF SteadyClientsSurvive
<1>8. SteadyMirrorsResolve
  BY <1>5 DEF SteadyMirrorsResolve, Closed
<1> QED
  BY <1>6, <1>7, <1>8

(* While every component is in a list that the header of a dump counts,    *)
(* each client that connected steadily is on the way to the document:      *)
(* before its dump, only the creations that the dump may race are on the   *)
(* way; after it, the messages lead what it has to what is announced.      *)
THEOREM SyncInvariant == Spec /\ []AllCounted => []Inv
<1>1. Init => Inv
  BY InitInv
<1>2. Inv /\ AllCounted /\ [Next]_vars => Inv'
  BY InvStep
<1> QED
  BY <1>1, <1>2, PTL DEF Spec

(* The variables have the types of the channels and maps they stand for:   *)
(* the IndexMaps of the lists hold the components of the document, and a   *)
(* broadcast channel never holds more than it can.                         *)
THEOREM SyncTypes == Spec => []TypeOK
<1>1. Init => Shape
  BY InitInv DEF Inv, Shape
<1>2. Shape /\ [Next]_vars => Shape'
  BY SoundStep, OrderedStep, TypedStep DEF Shape
<1>3. Shape => TypeOK
  BY Types
<1> QED
  BY <1>1, <1>2, <1>3, PTL DEF Spec

(* The document never refers to a component it does not have, whatever the *)
(* threads of the application create, patch and delete: a component is     *)
(* deleted once no other refers to it and no thread in patch() holds it.   *)
THEOREM DocumentResolves == Spec => [](Closed(content) /\ Closed(Announced))
<1>1. Init => Shape
  BY InitInv DEF Inv, Shape
<1>2. Shape /\ [Next]_vars => Shape'
  BY SoundStep, OrderedStep, TypedStep DEF Shape
<1>3. Shape => Closed(content) /\ Closed(Announced)
  BY AnnouncedIs DEF Shape, Sound
<1> QED
  BY <1>1, <1>2, <1>3, PTL DEF Spec

(* A client during whose connection nothing was patched or deleted has,    *)
(* with what is on its way to it, the document exactly, whatever the       *)
(* application does afterwards: client_forwarder and the broadcast task    *)
(* may deliver the dump and the creations it raced in either order.        *)
THEOREM SteadyConvergence == Spec /\ []AllCounted => []SteadyClientsConverge
<1>1. Inv => SteadyClientsConverge
  BY Consequences
<1> QED
  BY <1>1, SyncInvariant, PTL

(* No message brings such a client down: on_delete() finds what it unwraps *)
(* and no header promises more elements than there are.                    *)
THEOREM SteadySurvival == Spec /\ []AllCounted => []SteadyClientsSurvive
<1>1. Inv => SteadyClientsSurvive
  BY Consequences
<1> QED
  BY <1>1, SyncInvariant, PTL

(* Once document_initialized has been handled, such a client never has a   *)
(* reference to a component it does not have.                              *)
THEOREM SteadyResolution == Spec /\ []AllCounted => []SteadyMirrorsResolve
<1>1. Inv => SteadyMirrorsResolve
  BY Consequences
<1> QED
  BY <1>1, SyncInvariant, PTL
=============================================================================
