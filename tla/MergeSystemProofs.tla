------------------------- MODULE MergeSystemProofs --------------------------
(***************************************************************************)
(* Proofs about MergeSystem, for every set of upstream servers, any number *)
(* of components and changes, and any number of messages in flight.        *)
(***************************************************************************)
EXTENDS MergeSystem, TLAPS, WellFoundedInduction

-----------------------------------------------------------------------------
(* What a message makes of a document *)

Maps == UNION {[S -> Parents] : S \in SUBSET IDs}

(* Components with their parents, and the methods that are listed. *)
State(m, h) == [map |-> m, held |-> h]
States == [map : Maps, held : SUBSET Methods]

Step(s, m) ==
  CASE m.kind \in {"create", "patch"} -> State(Put(s.map, m.id, m.parent), s.held)
    [] m.kind = "delete" -> State(Without(s.map, m.id), s.held)
    [] m.kind = "document" -> State(s.map, m.methods)
    [] m.kind = "reset" -> State(Empty, {})
    [] OTHER -> s

(* A message that a session which shows s can handle as it is meant. *)
Fits(s, m) ==
  /\ m.kind = "create" =>
       /\ m.id \in Methods => m.parent = NoParent
       /\ ParentsFirst => m.parent \in DOMAIN s.map \cup {NoParent}
  /\ m.kind = "patch" =>
       /\ {m.id, m.parent} \subseteq DOMAIN s.map \cap Entities
       /\ m.parent # m.id
  /\ m.kind = "delete" =>
       /\ m.id \in DOMAIN s.map \ s.held
       /\ \A id \in DOMAIN s.map : s.map[id] # m.id
  /\ m.kind = "document" => m.methods \subseteq DOMAIN s.map \cap Methods

(* The messages w lead from s to t, by way of g. *)
Leads(g, s, w, t) ==
  /\ g[0] = s
  /\ g[Len(w)] = t
  /\ \A k \in 1 .. Len(w) : Fits(g[k - 1], w[k]) /\ g[k] = Step(g[k - 1], w[k])

Led(s, w, t) == \E g \in [0 .. Len(w) -> States] : Leads(g, s, w, t)

-----------------------------------------------------------------------------
(* The inductive invariant *)

There(u) == State(doc[u], listed[u])
Here(u) == State([id \in delegates[u] |-> merged[<<u, id>>]], docHeld[u])

Typed ==
  /\ doc \in [Upstreams -> Maps]
  /\ listed \in [Upstreams -> SUBSET Methods]
  /\ issued \in [Upstreams -> SUBSET IDs]
  /\ changes \in 0 .. MaxChanges
  /\ conn \in [Upstreams -> {"idle", "subscribed", "dumped", "open", "over"}]
  /\ calm \in [Upstreams -> BOOLEAN]
  /\ wire \in [Upstreams -> Seq(Messages)]
  /\ dump \in [Upstreams -> Seq(Messages)]
  /\ worker \in [Upstreams -> {"none", "on", "ended", "panicked"}]
  /\ delegates \in [Upstreams -> SUBSET IDs]
  /\ docHeld \in [Upstreams -> SUBSET Methods]
  /\ poisoned \in BOOLEAN

(* d is the document of an upstream, with the methods l, and i the IDs it  *)
(* has issued.                                                             *)
Document(d, l, i) ==
  /\ DOMAIN d \subseteq i
  /\ \A id \in DOMAIN d :
       /\ d[id] \in (DOMAIN d \cap Entities) \cup {NoParent}
       /\ id \in Methods => d[id] = NoParent
       /\ ParentsFirst /\ id \in Entities => d[id] < id
  /\ \A e \in i \cap Entities : \A f \in Entities : f < e => f \in i
  /\ l \subseteq DOMAIN d \cap Methods

Documents == \A u \in Upstreams : Document(doc[u], listed[u], issued[u])

(* The components m that the delegates ds, the document delegates hs and   *)
(* the document cs refer to, refer to such components themselves.          *)
Sound(m, ds, hs, cs) ==
  /\ cs \subseteq (Upstreams \X Methods) \cap DOMAIN m
  /\ \A u \in Upstreams :
       /\ hs[u] \subseteq ds[u] \cap Methods
       /\ ds[u] \subseteq IDs
       /\ \A id \in ds[u] :
            /\ <<u, id>> \in DOMAIN m
            /\ m[<<u, id>>] \in (ds[u] \cap Entities) \cup {NoParent}
  /\ \A u \in Upstreams : \A id \in Methods :
       <<u, id>> \in DOMAIN m => m[<<u, id>>] = NoParent

(* What is owned by a delegate or listed by the document. *)
Owned(ds, cs) == cs \cup UNION {Made(u, ds[u]) : u \in Upstreams}

MergedSound ==
  /\ Sound(merged, delegates, docHeld, comm)
  /\ DOMAIN merged = Owned(delegates, comm)

(* What a session shows and what it is still told make up its upstream, if *)
(* nothing changed while it connected: it is told nothing before the dump. *)
Session(u) ==
  /\ conn[u] = "idle" => worker[u] = "none"
  /\ conn[u] \in {"idle", "subscribed", "dumped"} =>
       wire[u] = <<>> /\ delegates[u] = {} /\ docHeld[u] = {}
  /\ conn[u] = "dumped" => Led(State(Empty, {}), dump[u], There(u))
  /\ worker[u] # "on" => delegates[u] = {} /\ docHeld[u] = {}
  /\ worker[u] = "on" => \E t \in States :
       /\ Led(Here(u), wire[u], t)
       /\ conn[u] = "open" => t = There(u)
       /\ conn[u] = "over" =>
            wire[u] # <<>> /\ wire[u][Len(wire[u])].kind = "closed"

Sessions == \A u \in Upstreams : Session(u)

(* What holds of the merged components m, the delegates ds and the list cs *)
(* whatever the upstreams do while sessions connect.                       *)
Scope(m, ds, cs) ==
  /\ DOMAIN m \subseteq Upstreams \X IDs
  /\ \A c \in DOMAIN m : m[c] \in Parents
  /\ cs \subseteq DOMAIN m
  /\ \A u \in Upstreams : \A id \in ds[u] : <<u, id>> \in DOMAIN m

MergedTyped == Scope(merged, delegates, comm)

Inv ==
  /\ Typed /\ Documents /\ MergedTyped
  /\ AllCalm => MergedSound /\ Sessions

-----------------------------------------------------------------------------
(* Maps and states *)

LEMMA MapsAre ==
  ASSUME NEW m
  PROVE  m \in Maps <=> /\ m = [id \in DOMAIN m |-> m[id]]
                        /\ DOMAIN m \subseteq IDs
                        /\ \A id \in DOMAIN m : m[id] \in Parents
<1>1. ASSUME m \in Maps
      PROVE  /\ m = [id \in DOMAIN m |-> m[id]]
             /\ DOMAIN m \subseteq IDs
             /\ \A id \in DOMAIN m : m[id] \in Parents
  <2>1. PICK S \in SUBSET IDs : m \in [S -> Parents]
    BY <1>1 DEF Maps
  <2> QED
    BY <2>1
<1>2. ASSUME m = [id \in DOMAIN m |-> m[id]],
             DOMAIN m \subseteq IDs,
             \A id \in DOMAIN m : m[id] \in Parents
      PROVE  m \in Maps
  <2> DEFINE S == DOMAIN m
  <2>1. S \in SUBSET IDs /\ m \in [S -> Parents]
    BY <1>2
  <2> QED
    BY <2>1 DEF Maps
<1> QED
  BY <1>1, <1>2

LEMMA PutIs ==
  ASSUME NEW m, NEW x, NEW v
  PROVE  /\ DOMAIN Put(m, x, v) = DOMAIN m \cup {x}
         /\ Put(m, x, v)[x] = v
         /\ \A y \in DOMAIN m : y # x => Put(m, x, v)[y] = m[y]
         /\ Put(m, x, v) = [y \in DOMAIN Put(m, x, v) |-> Put(m, x, v)[y]]
BY DEF Put

LEMMA WithoutIs ==
  ASSUME NEW m, NEW x
  PROVE  /\ DOMAIN Without(m, x) = DOMAIN m \ {x}
         /\ \A y \in DOMAIN m \ {x} : Without(m, x)[y] = m[y]
         /\ Without(m, x) = [y \in DOMAIN Without(m, x) |-> Without(m, x)[y]]
BY DEF Without

LEMMA MapsKept ==
  ASSUME NEW m \in Maps
  PROVE  /\ \A x \in IDs, v \in Parents : Put(m, x, v) \in Maps
         /\ \A x : Without(m, x) \in Maps
<1>1. /\ DOMAIN m \subseteq IDs
      /\ \A id \in DOMAIN m : m[id] \in Parents
  BY MapsAre
<1>2. ASSUME NEW x \in IDs, NEW v \in Parents
      PROVE  Put(m, x, v) \in Maps
  <2> DEFINE p == Put(m, x, v)
  <2>1. /\ DOMAIN p = DOMAIN m \cup {x}
        /\ p[x] = v
        /\ \A y \in DOMAIN m : y # x => p[y] = m[y]
        /\ p = [y \in DOMAIN p |-> p[y]]
    BY DEF Put
  <2> HIDE DEF p
  <2>2. DOMAIN p \subseteq IDs /\ \A y \in DOMAIN p : p[y] \in Parents
    BY <1>1, <2>1
  <2>3. p \in Maps
    BY <2>1, <2>2, MapsAre
  <2> QED
    BY <2>3 DEF p
<1>3. ASSUME NEW x
      PROVE  Without(m, x) \in Maps
  <2> DEFINE p == Without(m, x)
  <2>1. /\ DOMAIN p = DOMAIN m \ {x}
        /\ \A y \in DOMAIN m \ {x} : p[y] = m[y]
        /\ p = [y \in DOMAIN p |-> p[y]]
    BY WithoutIs
  <2> HIDE DEF p
  <2>2. DOMAIN p \subseteq IDs /\ \A y \in DOMAIN p : p[y] \in Parents
    BY <1>1, <2>1
  <2>3. p \in Maps
    BY <2>1, <2>2, MapsAre
  <2> QED
    BY <2>3 DEF p
<1> QED
  BY <1>2, <1>3

LEMMA EmptyIs == Empty \in Maps /\ DOMAIN Empty = {}
<1>1. DOMAIN Empty = {} /\ Empty = [x \in DOMAIN Empty |-> Empty[x]]
  BY DEF Empty
<1> QED
  BY <1>1, MapsAre

LEMMA StateIs ==
  ASSUME NEW m, NEW h
  PROVE  /\ State(m, h).map = m
         /\ State(m, h).held = h
         /\ m \in Maps /\ h \in SUBSET Methods => State(m, h) \in States
BY DEF State, States

LEMMA StatesAre ==
  ASSUME NEW s \in States
  PROVE  s.map \in Maps /\ s.held \in SUBSET Methods /\ s = State(s.map, s.held)
BY DEF State, States

Creation(id, parent) == [kind |-> "create", id |-> id, parent |-> parent]
Patch(id, parent) == [kind |-> "patch", id |-> id, parent |-> parent]
Deletion(id) == [kind |-> "delete", id |-> id]
Listed(methods) == [kind |-> "document", methods |-> methods]
Mark(kind) == [kind |-> kind]

LEMMA MessagesAre ==
  /\ \A id \in IDs, p \in Parents : Creation(id, p) \in Messages
  /\ \A id \in IDs, p \in Parents : Patch(id, p) \in Messages
  /\ \A id \in IDs : Deletion(id) \in Messages
  /\ \A ms \in SUBSET Methods : Listed(ms) \in Messages
  /\ \A k \in {"signal", "reset", "closed"} : Mark(k) \in Messages
BY DEF Messages, Creation, Patch, Deletion, Listed, Mark

LEMMA MessageIs ==
  ASSUME NEW m \in Messages
  PROVE  /\ m.kind \in {"create", "patch", "delete", "document",
                        "signal", "reset", "closed"}
         /\ m.kind \in {"create", "patch"} => m.id \in IDs /\ m.parent \in Parents
         /\ m.kind = "delete" => m.id \in IDs
         /\ m.kind = "document" => m.methods \in SUBSET Methods
BY DEF Messages

LEMMA StepIs ==
  ASSUME NEW s, NEW m
  PROVE  /\ m.kind \in {"create", "patch"} =>
              Step(s, m) = State(Put(s.map, m.id, m.parent), s.held)
         /\ m.kind = "delete" => Step(s, m) = State(Without(s.map, m.id), s.held)
         /\ m.kind = "document" => Step(s, m) = State(s.map, m.methods)
         /\ m.kind = "reset" => Step(s, m) = State(Empty, {})
         /\ m.kind \in {"signal", "closed"} => Step(s, m) = s
BY DEF Step

LEMMA StepTyped ==
  ASSUME NEW s \in States, NEW m \in Messages
  PROVE  Step(s, m) \in States
<1>1. s.map \in Maps /\ s.held \in SUBSET Methods
  BY StatesAre
<1>2. CASE m.kind \in {"create", "patch"}
  <2>1. Put(s.map, m.id, m.parent) \in Maps
    BY <1>1, <1>2, MessageIs, MapsKept
  <2> QED
    BY <1>1, <1>2, <2>1, StepIs, StateIs
<1>3. CASE m.kind = "delete"
  <2>1. Without(s.map, m.id) \in Maps
    BY <1>1, MapsKept
  <2> QED
    BY <1>1, <1>3, <2>1, StepIs, StateIs
<1>4. CASE m.kind = "document"
  BY <1>1, <1>4, MessageIs, StepIs, StateIs
<1>5. CASE m.kind = "reset"
  <2>1. Empty \in Maps /\ {} \in SUBSET Methods
    BY EmptyIs
  <2> QED
    BY <1>5, <2>1, StepIs, StateIs
<1>6. CASE m.kind \in {"signal", "closed"}
  BY <1>6, StepIs
<1> QED
  BY <1>2, <1>3, <1>4, <1>5, <1>6, MessageIs

-----------------------------------------------------------------------------
(* Ways from one state to another *)

LEMMA LedNowhere ==
  ASSUME NEW s \in States
  PROVE  Led(s, <<>>, s)
<1> DEFINE g == [k \in 0 .. 0 |-> s]
<1>1. Len(<<>>) = 0 /\ 1 .. 0 = {} /\ 0 \in 0 .. 0
  OBVIOUS
<1>2. g \in [0 .. 0 -> States] /\ g[0] = s
  BY <1>1
<1>3. Leads(g, s, <<>>, s)
  BY <1>1, <1>2 DEF Leads
<1> QED
  BY <1>1, <1>2, <1>3 DEF Led

(* One more message. *)
LEMMA LedAppend ==
  ASSUME NEW s, NEW w \in Seq(Messages), NEW t, NEW m \in Messages,
         Led(s, w, t), Fits(t, m)
  PROVE  Led(s, Append(w, m), Step(t, m))
<1>1. PICK g \in [0 .. Len(w) -> States] : Leads(g, s, w, t)
  BY DEF Led
<1> DEFINE n == Len(w)
           v == Append(w, m)
           h == [k \in 0 .. n + 1 |-> IF k = n + 1 THEN Step(t, m) ELSE g[k]]
<1>2. /\ n \in Nat /\ Len(v) = n + 1 /\ v[n + 1] = m
      /\ \A k \in 1 .. n : v[k] = w[k]
  OBVIOUS
<1>3. t \in States
  BY <1>1, <1>2 DEF Leads
<1>4. h \in [0 .. n + 1 -> States]
  BY <1>1, <1>2, <1>3, StepTyped
<1>5. h[0] = s /\ h[n + 1] = Step(t, m) /\ h[n] = t
  BY <1>1, <1>2 DEF Leads
<1>6. ASSUME NEW k \in 1 .. n
      PROVE  Fits(h[k - 1], v[k]) /\ h[k] = Step(h[k - 1], v[k])
  <2>1. h[k - 1] = g[k - 1] /\ h[k] = g[k] /\ v[k] = w[k]
    BY <1>2
  <2> QED
    BY <1>1, <2>1 DEF Leads
<1>7. (n + 1) - 1 = n /\ \A k \in 1 .. n + 1 : k \in 1 .. n \/ k = n + 1
  BY <1>2
<1> HIDE DEF h, v, n
<1>8. Leads(h, s, v, Step(t, m))
  BY <1>2, <1>5, <1>6, <1>7 DEF Leads
<1>9. Led(s, v, Step(t, m))
  BY <1>2, <1>4, <1>8 DEF Led
<1> QED
  BY <1>9 DEF v

(* The first message is taken. *)
LEMMA LedTail ==
  ASSUME NEW s, NEW w \in Seq(Messages), NEW t, Led(s, w, t), w # <<>>
  PROVE  /\ s \in States
         /\ Fits(s, Head(w))
         /\ Led(Step(s, Head(w)), Tail(w), t)
<1>1. PICK g \in [0 .. Len(w) -> States] : Leads(g, s, w, t)
  BY DEF Led
<1> DEFINE n == Len(w)
           v == Tail(w)
           h == [k \in 0 .. n - 1 |-> g[k + 1]]
<1>2. /\ n \in Nat /\ n > 0 /\ Len(v) = n - 1 /\ Head(w) = w[1]
      /\ \A k \in 1 .. n - 1 : v[k] = w[k + 1]
  OBVIOUS
<1>3. s \in States /\ g[0] = s
  BY <1>1, <1>2 DEF Leads
<1>4. Fits(s, Head(w)) /\ g[1] = Step(s, Head(w))
  <2>1. 1 \in 1 .. n /\ 1 - 1 = 0
    BY <1>2
  <2> QED
    BY <1>1, <1>2, <1>3, <2>1 DEF Leads
<1>5. h \in [0 .. n - 1 -> States]
  BY <1>1, <1>2
<1>6. h[0] = Step(s, Head(w)) /\ h[n - 1] = t
  <2>1. h[0] = g[1] /\ h[n - 1] = g[n]
    BY <1>2
  <2> QED
    BY <1>1, <1>4, <2>1 DEF Leads
<1>7. ASSUME NEW k \in 1 .. n - 1
      PROVE  Fits(h[k - 1], v[k]) /\ h[k] = Step(h[k - 1], v[k])
  <2>1. /\ h[k - 1] = g[(k + 1) - 1] /\ h[k] = g[k + 1]
        /\ v[k] = w[k + 1] /\ k + 1 \in 1 .. n
    BY <1>2
  <2> QED
    BY <1>1, <2>1 DEF Leads
<1> HIDE DEF h, v, n
<1>8. Leads(h, Step(s, Head(w)), v, t)
  BY <1>2, <1>6, <1>7 DEF Leads
<1>9. Led(Step(s, Head(w)), v, t)
  BY <1>2, <1>5, <1>8 DEF Led
<1> QED
  BY <1>3, <1>4, <1>9 DEF v

(* The last messages are lost. *)
LEMMA LedPrefix ==
  ASSUME NEW s, NEW w \in Seq(Messages), NEW t, Led(s, w, t),
         NEW n \in 0 .. Len(w)
  PROVE  \E r \in States : Led(s, SubSeq(w, 1, n), r)
<1>1. PICK g \in [0 .. Len(w) -> States] : Leads(g, s, w, t)
  BY DEF Led
<1> DEFINE v == SubSeq(w, 1, n)
           h == [k \in 0 .. n |-> g[k]]
<1>2. n \in Nat /\ Len(v) = n /\ \A k \in 1 .. n : v[k] = w[k]
  OBVIOUS
<1>3. h \in [0 .. n -> States] /\ h[0] = s /\ h[n] \in States
  BY <1>1, <1>2 DEF Leads
<1>4. ASSUME NEW k \in 1 .. n
      PROVE  Fits(h[k - 1], v[k]) /\ h[k] = Step(h[k - 1], v[k])
  <2>1. h[k - 1] = g[k - 1] /\ h[k] = g[k] /\ v[k] = w[k] /\ k \in 1 .. Len(w)
    BY <1>2
  <2> QED
    BY <1>1, <2>1 DEF Leads
<1> HIDE DEF h, v
<1>5. Leads(h, s, v, h[n])
  BY <1>2, <1>3, <1>4 DEF Leads
<1>6. Led(s, v, h[n])
  BY <1>2, <1>3, <1>5 DEF Led
<1> QED
  BY <1>3, <1>6 DEF v

(* Without messages, one is there. *)
LEMMA LedEnd ==
  ASSUME NEW s, NEW t, Led(s, <<>>, t)
  PROVE  s = t
<1>1. Len(<<>>) = 0
  OBVIOUS
<1> QED
  BY <1>1 DEF Led, Leads

-----------------------------------------------------------------------------
(* The dump *)

LEMMA NatSets ==
  ASSUME NEW T \in SUBSET Nat, 0 \in T, \A n \in T : n + 1 \in T
  PROVE  T = Nat
<1> DEFINE N == Nat \ T
<1>1. SUFFICES ASSUME N # {} PROVE FALSE
  OBVIOUS
<1>2. PICK m \in N : \A k \in N : <<k, m>> \notin OpToRel(<, Nat)
  BY <1>1, WFMin, NatLessThanWellFounded, Zenon
<1>3. \A k \in N : ~ (k < m)
  BY <1>2, Zenon DEF OpToRel
<1>4. m - 1 \in Nat /\ m - 1 < m /\ (m - 1) + 1 = m
  OBVIOUS
<1>5. (m - 1) + 1 \in T
  BY <1>3, <1>4
<1> QED
  BY <1>4, <1>5

LEMMA MaxLast ==
  ASSUME NEW k \in Nat, NEW s \in SUBSET (1 .. k)
  PROVE  Max(s \cup {k + 1}) = k + 1
<1> DEFINE T == s \cup {k + 1}
<1>1. k + 1 \in T /\ \A y \in T : k + 1 >= y
  OBVIOUS
<1>2. \A x \in T : (\A y \in T : x >= y) => x = k + 1
  OBVIOUS
<1>3. Max(T) = CHOOSE x \in T : \A y \in T : x >= y
  BY Zenon DEF Max
<1> HIDE DEF T
<1>4. Max(T) \in T /\ \A y \in T : Max(T) >= y
  BY <1>1, <1>3
<1> QED
  BY <1>2, <1>4 DEF T

(* What is written once the turn of id has been. *)
Written(u, w, id) ==
  IF id \in DOMAIN doc[u] THEN Append(w, Creation(id, doc[u][id])) ELSE w

ListingPath(f, u, ids) ==
  f[0] = <<>> /\ \A i \in 1 .. Len(ids) : f[i] = Written(u, f[i - 1], ids[i])

(* A listing is the last of such a path.  FoldLeft is a recursive function *)
(* on the sets of places, so there is one to be shown for longer and       *)
(* longer prefixes.                                                        *)
LEMMA ListingRun ==
  ASSUME NEW u, NEW V, NEW ids \in Seq(V)
  PROVE  \E f : ListingPath(f, u, ids) /\ Listing(u, ids) = f[Len(ids)]
<1> DEFINE Body(g, s) ==
             IF s = {} THEN <<>> ELSE Written(u, g[s \ {Max(s)}], ids[Max(s)])
           Iter(g, k) == g = [s \in SUBSET (1 .. k) |-> Body(g, s)]
           T == {k \in Nat : \E g : Iter(g, k)}
<1>1. 0 \in T
  <2> DEFINE g == [s \in SUBSET (1 .. 0) |-> <<>>]
  <2>1. Iter(g, 0)
    OBVIOUS
  <2> QED
    BY <2>1
<1>2. ASSUME NEW k \in T
      PROVE  k + 1 \in T
  <2>1. PICK g : Iter(g, k)
    OBVIOUS
  <2> DEFINE h == [s \in SUBSET (1 .. k + 1) |->
                     IF k + 1 \in s THEN Written(u, g[s \ {k + 1}], ids[k + 1])
                     ELSE g[s]]
  <2>2. \A s \in SUBSET (1 .. k + 1) : s \ {k + 1} \in SUBSET (1 .. k)
    OBVIOUS
  <2>3. ASSUME NEW s \in SUBSET (1 .. k + 1)
        PROVE  h[s] = Body(h, s)
    <3>1. CASE k + 1 \in s
      <4>1. s = (s \ {k + 1}) \cup {k + 1}
        BY <3>1
      <4>2. Max(s) = k + 1
        BY <2>2, <4>1, MaxLast
      <4>3. h[s \ {k + 1}] = g[s \ {k + 1}]
        BY <2>2
      <4> QED
        BY <3>1, <4>2, <4>3
    <3>2. CASE k + 1 \notin s
      <4>1. s \in SUBSET (1 .. k)
        BY <3>2
      <4>2. /\ s \ {Max(s)} \in SUBSET (1 .. k)
            /\ s \ {Max(s)} \in SUBSET (1 .. k + 1)
        BY <4>1
      <4>3. h[s \ {Max(s)}] = g[s \ {Max(s)}]
        BY <4>2
      <4>4. g[s] = Body(g, s)
        BY <2>1, <4>1
      <4> QED
        BY <3>2, <4>3, <4>4
    <3> QED
      BY <3>1, <3>2
  <2>4. Iter(h, k + 1)
    BY <2>3
  <2>5. k + 1 \in Nat
    OBVIOUS
  <2> HIDE DEF h, Iter
  <2> QED
    BY <2>4, <2>5
<1> HIDE DEF T
<1>3. T = Nat
  BY <1>1, <1>2, NatSets DEF T
<1> DEFINE n == Len(ids)
           iter == CHOOSE g : g = [s \in SUBSET DOMAIN ids |-> Body(g, s)]
<1>4. n \in Nat /\ DOMAIN ids = 1 .. n
  OBVIOUS
<1>5. Iter(iter, n)
  <2>1. \E g : Iter(g, n)
    BY <1>3, <1>4 DEF T
  <2> QED
    BY <1>4, <2>1
<1>6. Listing(u, ids) = iter[1 .. n]
  BY <1>4 DEF Listing, FoldLeft, MapThenFoldSet, Written, Creation
<1> HIDE DEF iter, n
<1> DEFINE f == [i \in 0 .. n |-> iter[1 .. i]]
<1>7. f[0] = <<>>
  <2>1. 1 .. 0 = {} /\ {} \in SUBSET (1 .. n) /\ 0 \in 0 .. n
    BY <1>4
  <2>2. iter[{}] = Body(iter, {})
    BY <1>5, <2>1
  <2> QED
    BY <2>1, <2>2
<1>8. ASSUME NEW i \in 1 .. n
      PROVE  f[i] = Written(u, f[i - 1], ids[i])
  <2>1. /\ i \in 0 .. n /\ i - 1 \in 0 .. n
        /\ i - 1 \in Nat /\ (i - 1) + 1 = i /\ i \in Nat
    BY <1>4
  <2>2. /\ 1 .. i \in SUBSET (1 .. n) /\ 1 .. i # {}
        /\ (1 .. i) \ {i} = 1 .. (i - 1)
        /\ (1 .. (i - 1)) \cup {i} = 1 .. i
    <3>1. \A k \in 1 .. i : k \in 1 .. n
      BY <1>4
    <3>2. i \in 1 .. i
      BY <2>1
    <3>3. (1 .. i) \ {i} = 1 .. (i - 1)
      BY <2>1
    <3>4. (1 .. (i - 1)) \cup {i} = 1 .. i
      BY <2>1
    <3> QED
      BY <3>1, <3>2, <3>3, <3>4
  <2> DEFINE s == 1 .. (i - 1)
  <2>3. s \in SUBSET (1 .. (i - 1))
    OBVIOUS
  <2>4. Max(1 .. i) = i
    <3> HIDE DEF s
    <3>1. Max(s \cup {(i - 1) + 1}) = (i - 1) + 1
      BY <2>1, <2>3, MaxLast
    <3> QED
      BY <3>1, <2>1, <2>2 DEF s
  <2>5. iter[1 .. i] = Body(iter, 1 .. i)
    BY <1>5, <2>2
  <2> QED
    BY <2>1, <2>2, <2>4, <2>5
<1>9. f[n] = iter[1 .. n]
  BY <1>4
<1> HIDE DEF f
<1>10. ListingPath(f, u, ids) /\ Listing(u, ids) = f[Len(ids)]
  BY <1>6, <1>7, <1>8, <1>9 DEF n, ListingPath
<1> QED
  BY <1>10

LEMMA OrderIs ==
  /\ MaxMethods \in Nat /\ MaxEntities \in Nat
  /\ DumpOrder \in Seq(IDs)
  /\ Len(DumpOrder) = MaxMethods + MaxEntities
  /\ \A i \in 1 .. MaxMethods + MaxEntities :
       /\ DumpOrder[i] = IF i <= MaxMethods THEN -i ELSE i - MaxMethods
       /\ DumpOrder[i] \in IDs
  /\ \A id \in IDs : \E i \in 1 .. MaxMethods + MaxEntities : DumpOrder[i] = id
<1>1. MaxMethods \in Nat /\ MaxEntities \in Nat
  BY MergeConstants
<1> DEFINE n == MaxMethods + MaxEntities
<1>2. n \in Nat
  BY <1>1
<1>3. \A i \in 1 .. n :
        /\ DumpOrder[i] = IF i <= MaxMethods THEN -i ELSE i - MaxMethods
        /\ DumpOrder[i] \in IDs
  <2>1. SUFFICES ASSUME NEW i \in 1 .. n
                 PROVE  /\ DumpOrder[i] = IF i <= MaxMethods THEN -i
                                          ELSE i - MaxMethods
                        /\ DumpOrder[i] \in IDs
    OBVIOUS
  <2>2. DumpOrder[i] = IF i <= MaxMethods THEN -i ELSE i - MaxMethods
    BY DEF DumpOrder
  <2>3. CASE i <= MaxMethods
    <3>1. i \in 1 .. MaxMethods
      BY <1>1, <2>3
    <3>2. -i \in Methods
      BY <3>1 DEF Methods
    <3> QED
      BY <2>2, <2>3, <3>2 DEF IDs
  <2>4. CASE ~ (i <= MaxMethods)
    <3>1. i - MaxMethods \in Entities
      BY <1>1, <2>4 DEF Entities
    <3> QED
      BY <2>2, <2>4, <3>1 DEF IDs
  <2> QED
    BY <2>2, <2>3, <2>4
<1>4. DOMAIN DumpOrder = 1 .. n
  BY DEF DumpOrder
<1>5. DumpOrder \in [1 .. n -> IDs]
  <2>1. DumpOrder = [i \in 1 .. n |-> DumpOrder[i]]
    BY DEF DumpOrder
  <2> QED
    BY <1>3, <2>1
<1>6. DumpOrder \in Seq(IDs) /\ Len(DumpOrder) = n
  BY <1>2, <1>5
<1>7. ASSUME NEW id \in IDs
      PROVE  \E i \in 1 .. n : DumpOrder[i] = id
  <2>1. CASE id \in Methods
    <3>1. PICK i \in 1 .. MaxMethods : id = -i
      BY <2>1 DEF Methods
    <3>2. i \in 1 .. n /\ i <= MaxMethods
      BY <1>1
    <3> QED
      BY <1>3, <3>1, <3>2
  <2>2. CASE id \in Entities
    <3>1. /\ id + MaxMethods \in 1 .. n
          /\ ~ (id + MaxMethods <= MaxMethods)
          /\ (id + MaxMethods) - MaxMethods = id
      BY <1>1, <2>2 DEF Entities
    <3> QED
      BY <1>3, <3>1
  <2> QED
    BY <2>1, <2>2 DEF IDs
<1> QED
  BY <1>1, <1>3, <1>6, <1>7

LEMMA Signs ==
  /\ \A id \in Methods : id \in Int /\ id < 0
  /\ \A id \in Entities : id \in Int /\ id > 0
  /\ IDs = Methods \cup Entities
  /\ NoParent \notin IDs
  /\ Parents = Entities \cup {NoParent}
BY MergeConstants DEF Methods, Entities, IDs, NoParent, Parents

(* The components of d among the first k of the order. *)
Part(d, k) ==
  [id \in {x \in DOMAIN d : \E j \in 1 .. k : DumpOrder[j] = x} |-> d[id]]

LEMMA PartGrows ==
  ASSUME NEW d \in Maps, NEW k \in Nat, k < MaxMethods + MaxEntities
  PROVE  LET id == DumpOrder[k + 1] IN
         /\ id \in DOMAIN d => Part(d, k + 1) = Put(Part(d, k), id, d[id])
         /\ id \notin DOMAIN d => Part(d, k + 1) = Part(d, k)
<1> DEFINE id == DumpOrder[k + 1]
           S == {x \in DOMAIN d : \E j \in 1 .. k : DumpOrder[j] = x}
           R == {x \in DOMAIN d : \E j \in 1 .. k + 1 : DumpOrder[j] = x}
<1>1. \A j : j \in 1 .. k + 1 <=> j \in 1 .. k \/ j = k + 1
  OBVIOUS
<1>2. Part(d, k + 1) = [x \in R |-> d[x]] /\ Part(d, k) = [x \in S |-> d[x]]
  BY DEF Part
<1>3. CASE id \in DOMAIN d
  <2>1. R = S \cup {id}
    BY <1>1, <1>3
  <2>2. Put(Part(d, k), id, d[id])
          = [x \in S \cup {id} |-> IF x = id THEN d[id] ELSE [y \in S |-> d[y]][x]]
    BY <1>2 DEF Put
  <2> HIDE DEF S, R, id
  <2>3. [x \in S \cup {id} |-> IF x = id THEN d[id] ELSE [y \in S |-> d[y]][x]]
          = [x \in S \cup {id} |-> d[x]]
    OBVIOUS
  <2>4. Part(d, k + 1) = Put(Part(d, k), id, d[id])
    BY <1>2, <2>1, <2>2, <2>3
  <2> QED
    BY <1>3, <2>4 DEF id
<1>4. CASE id \notin DOMAIN d
  <2>1. R = S
    BY <1>1, <1>4
  <2>2. Part(d, k + 1) = Part(d, k)
    BY <1>2, <2>1
  <2> QED
    BY <1>4, <2>2
<1> QED
  BY <1>3, <1>4

(* The dump leads from nothing to the document. *)
LEMMA DumpLeads ==
  ASSUME Typed, Documents, NEW u \in Upstreams
  PROVE  /\ Dump(u) \in Seq(Messages)
         /\ Led(State(Empty, {}), Dump(u), There(u))
<1> DEFINE n == MaxMethods + MaxEntities
           d == doc[u]
           Start == State(Empty, {})
<1>1. /\ n \in Nat /\ Len(DumpOrder) = n
      /\ DumpOrder \in Seq(IDs)
  BY OrderIs
<1>2. d \in Maps /\ Document(d, listed[u], issued[u]) /\ listed[u] \in SUBSET Methods
  BY DEF Typed, Documents
<1>3. PICK f : ListingPath(f, u, DumpOrder) /\ Listing(u, DumpOrder) = f[n]
  <2>1. \E f : ListingPath(f, u, DumpOrder)
               /\ Listing(u, DumpOrder) = f[Len(DumpOrder)]
    BY <1>1, ListingRun
  <2> QED
    BY <1>1, <2>1
<1>4. Start \in States
  <2>1. {} \in SUBSET Methods
    OBVIOUS
  <2> QED
    BY <2>1, EmptyIs, StateIs
<1> DEFINE Good(k) == /\ f[k] \in Seq(Messages)
                      /\ Led(Start, f[k], State(Part(d, k), {}))
           T == {k \in Nat : k <= n => Good(k)}
<1>5. \A k \in Nat : Part(d, k) \in Maps /\ DOMAIN Part(d, k) \subseteq DOMAIN d
  <2>1. SUFFICES ASSUME NEW k \in Nat
                 PROVE  Part(d, k) \in Maps /\ DOMAIN Part(d, k) \subseteq DOMAIN d
    OBVIOUS
  <2> DEFINE m == Part(d, k)
  <2>2. /\ m = [x \in DOMAIN m |-> m[x]]
        /\ DOMAIN m \subseteq DOMAIN d
        /\ \A x \in DOMAIN m : m[x] = d[x]
    BY DEF Part
  <2>3. DOMAIN d \subseteq IDs /\ \A x \in DOMAIN d : d[x] \in Parents
    BY <1>2, MapsAre
  <2> HIDE DEF m, d
  <2>4. m \in Maps
    <3>1. DOMAIN m \subseteq IDs /\ \A x \in DOMAIN m : m[x] \in Parents
      BY <2>2, <2>3
    <3> QED
      BY <2>2, <3>1, MapsAre
  <2> QED
    BY <2>2, <2>4 DEF m
<1>6. 0 \in T
  <2>1. f[0] = <<>>
    BY <1>3 DEF ListingPath
  <2>2. Part(d, 0) = Empty
    <3>1. {x \in DOMAIN d : \E j \in 1 .. 0 : DumpOrder[j] = x} = {}
      OBVIOUS
    <3> QED
      BY <3>1 DEF Part, Empty
  <2>3. <<>> \in Seq(Messages) /\ 0 \in Nat
    OBVIOUS
  <2>4. Led(Start, <<>>, Start)
    BY <1>4, LedNowhere
  <2> QED
    BY <2>1, <2>2, <2>3, <2>4
<1>7. ASSUME NEW k \in T
      PROVE  k + 1 \in T
  <2>1. SUFFICES ASSUME k + 1 <= n PROVE Good(k + 1)
    OBVIOUS
  <2>2. /\ k \in Nat /\ k < n /\ k <= n
        /\ k + 1 \in 1 .. n /\ (k + 1) - 1 = k
    BY <1>1, <2>1
  <2>3. Good(k)
    BY <2>2
  <2> DEFINE id == DumpOrder[k + 1]
             m == Part(d, k)
  <2>4. id \in IDs
    BY <2>2, OrderIs
  <2>5. f[k + 1] = Written(u, f[k], id)
    BY <1>1, <1>3, <2>2 DEF ListingPath
  <2>6. CASE id \notin DOMAIN d
    <3>1. Part(d, k + 1) = m
      BY <1>2, <2>2, <2>6, PartGrows
    <3>2. f[k + 1] = f[k]
      BY <2>5, <2>6 DEF Written
    <3> QED
      BY <2>3, <3>1, <3>2
  <2>7. CASE id \in DOMAIN d
    <3> DEFINE c == Creation(id, d[id])
    <3>1. d[id] \in Parents
      BY <1>2, <2>7, MapsAre
    <3>2. c \in Messages
      BY <2>4, <3>1, MessagesAre
    <3>3. c.kind = "create" /\ c.id = id /\ c.parent = d[id]
      BY DEF Creation
    <3>4. Part(d, k + 1) = Put(m, id, d[id])
      BY <1>2, <2>2, <2>7, PartGrows
    <3>5. f[k + 1] = Append(f[k], c)
      BY <2>5, <2>7 DEF Written
    <3>6. ASSUME ParentsFirst
          PROVE  d[id] \in DOMAIN m \cup {NoParent}
      <4>1. SUFFICES ASSUME d[id] # NoParent PROVE d[id] \in DOMAIN m
        OBVIOUS
      <4>2. /\ d[id] \in DOMAIN d \cap Entities
            /\ id \notin Methods
            /\ id \in Entities
        BY <1>2, <2>4, <2>7, <4>1, Signs DEF Document
      <4>3. d[id] < id
        BY <1>2, <2>7, <3>6, <4>2 DEF Document
      <4>4. PICK j \in 1 .. n : DumpOrder[j] = d[id]
        BY <4>2, OrderIs, Signs
      <4>5. j \in 1 .. k
        <5>1. /\ d[id] = IF j <= MaxMethods THEN -j ELSE j - MaxMethods
              /\ id = IF k + 1 <= MaxMethods THEN -(k + 1)
                      ELSE (k + 1) - MaxMethods
          BY <2>2, <4>4, OrderIs
        <5>2. /\ d[id] \in Int /\ d[id] > 0 /\ id \in Int /\ id > 0
              /\ MaxMethods \in Nat
          BY <4>2, Signs, OrderIs
        <5>3. j \in Nat /\ j > 0
          BY <1>1
        <5> HIDE DEF id, d
        <5> QED
          BY <2>2, <4>3, <5>1, <5>2, <5>3
      <4> QED
        BY <4>2, <4>4, <4>5 DEF Part
    <3>7. id \in Methods => d[id] = NoParent
      BY <1>2, <2>7 DEF Document
    <3>8. State(m, {}).map = m /\ State(m, {}).held = {}
      BY StateIs
    <3> HIDE DEF c, m, id, d
    <3>9. Fits(State(m, {}), c)
      BY <3>3, <3>6, <3>7, <3>8 DEF Fits
    <3>10. Step(State(m, {}), c) = State(Put(m, id, d[id]), {})
      BY <3>3, <3>8, StepIs
    <3>11. f[k] \in Seq(Messages) /\ Led(Start, f[k], State(m, {}))
      BY <2>3 DEF m
    <3> HIDE DEF Start
    <3>12. Led(Start, Append(f[k], c), Step(State(m, {}), c))
      BY <3>2, <3>9, <3>11, LedAppend
    <3>13. Append(f[k], c) \in Seq(Messages)
      BY <3>2, <3>11
    <3> QED
      BY <3>4, <3>5, <3>10, <3>12, <3>13
  <2> QED
    BY <2>6, <2>7
<1> HIDE DEF T
<1>8. T = Nat
  BY <1>6, <1>7, NatSets DEF T
<1>9. Good(n)
  BY <1>1, <1>8 DEF T
<1>10. Part(d, n) = d
  <2>1. {x \in DOMAIN d : \E j \in 1 .. n : DumpOrder[j] = x} = DOMAIN d
    BY <1>2, OrderIs, MapsAre
  <2>2. d = [x \in DOMAIN d |-> d[x]]
    BY <1>2, MapsAre
  <2> QED
    BY <2>1, <2>2 DEF Part
<1> DEFINE s == State(d, {})
           c == Listed(listed[u])
           w == Listing(u, DumpOrder)
<1>11. w \in Seq(Messages) /\ Led(Start, w, s)
  BY <1>3, <1>9, <1>10
<1>12. c \in Messages /\ c.kind = "document" /\ c.methods = listed[u]
  BY <1>2, MessagesAre DEF Listed
<1>13. s.map = d /\ s.held = {}
  BY StateIs
<1>14. Dump(u) = Append(w, c)
  BY DEF Dump, Listed
<1> HIDE DEF s, c, w, Start
<1>15. Fits(s, c)
  BY <1>2, <1>12, <1>13 DEF Fits, Document
<1>16. Step(s, c) = There(u)
  BY <1>12, <1>13, StepIs DEF There
<1>17. Led(Start, Append(w, c), Step(s, c))
  BY <1>11, <1>12, <1>15, LedAppend
<1>18. Append(w, c) \in Seq(Messages)
  BY <1>11, <1>12
<1> QED
  BY <1>14, <1>16, <1>17, <1>18 DEF Start

-----------------------------------------------------------------------------
(* What is held in the merged server *)

Roots(ds, hs, cs) ==
  cs \cup UNION {Made(u, ds[u] \cup hs[u]) : u \in Upstreams}

(* Nothing but the roots is held when they refer to none but each other. *)
LEMMA HeldAreRoots ==
  ASSUME NEW m, NEW ds, NEW hs, NEW cs,
         \A c \in Roots(ds, hs, cs) \cap DOMAIN m :
           m[c] # NoParent => <<c[1], m[c]>> \in Roots(ds, hs, cs)
  PROVE  HeldBy(m, ds, hs, cs) = Roots(ds, hs, cs)
<1> DEFINE R == Roots(ds, hs, cs)
           N == MaxEntities
           More(S) == {<<c[1], m[c]>> : c \in {d \in S \cap DOMAIN m : m[d] # NoParent}}
           Body(g, k) == IF k = 0 THEN R ELSE g[k - 1] \cup More(g[k - 1])
           Is(g) == g = [k \in 0 .. N |-> Body(g, k)]
           Held == CHOOSE g : Is(g)
<1>1. N \in Nat
  BY MergeConstants
<1>2. R \cup More(R) = R
  OBVIOUS
<1> HIDE DEF R, More
<1>3. HeldBy(m, ds, hs, cs) = Held[N]
  BY DEF HeldBy, R, Roots, More
<1>4. Is(Held)
  <2> DEFINE g == [k \in 0 .. N |-> R]
  <2>1. \A k \in 0 .. N : Body(g, k) = R
    BY <1>1, <1>2
  <2>2. Is(g)
    BY <2>1
  <2> QED
    BY <2>2
<1> HIDE DEF Held
<1> DEFINE T == {k \in Nat : k <= N => Held[k] = R}
<1>5. 0 \in T
  BY <1>1, <1>4
<1>6. ASSUME NEW k \in T
      PROVE  k + 1 \in T
  <2>1. SUFFICES ASSUME k + 1 <= N PROVE Held[k + 1] = R
    OBVIOUS
  <2>2. k + 1 \in 0 .. N /\ k + 1 # 0 /\ (k + 1) - 1 = k /\ Held[k] = R
    BY <1>1, <2>1
  <2>3. Held[k + 1] = Held[k] \cup More(Held[k])
    BY <1>4, <2>2
  <2> QED
    BY <1>2, <2>2, <2>3
<1> HIDE DEF T
<1>7. T = Nat
  BY <1>5, <1>6, NatSets DEF T
<1>8. Held[N] = R
  BY <1>1, <1>7 DEF T
<1> QED
  BY <1>3, <1>8 DEF R

(* The roots are held, and what they refer to as well. *)
LEMMA RootsAreHeld ==
  ASSUME NEW m, NEW ds, NEW hs, NEW cs
  PROVE  Roots(ds, hs, cs) \subseteq HeldBy(m, ds, hs, cs)
<1> DEFINE R == Roots(ds, hs, cs)
           N == MaxEntities
           More(S) == {<<c[1], m[c]>> : c \in {d \in S \cap DOMAIN m : m[d] # NoParent}}
           Body(g, k) == IF k = 0 THEN R ELSE g[k - 1] \cup More(g[k - 1])
           Is(g, n) == g = [k \in 0 .. n |-> Body(g, k)]
           Held == CHOOSE g : Is(g, N)
           T == {n \in Nat : \E g : Is(g, n)}
           U == {k \in Nat : k <= N => R \subseteq Held[k]}
<1>1. N \in Nat
  BY MergeConstants
<1> HIDE DEF R, More
<1>2. HeldBy(m, ds, hs, cs) = Held[N]
  BY DEF HeldBy, R, Roots, More
<1>3. 0 \in T
  <2> DEFINE g == [k \in 0 .. 0 |-> R]
  <2>1. \A k \in 0 .. 0 : Body(g, k) = R
    OBVIOUS
  <2>2. Is(g, 0)
    BY <2>1
  <2> QED
    BY <2>2
<1>4. ASSUME NEW n \in T
      PROVE  n + 1 \in T
  <2>1. PICK g : Is(g, n)
    OBVIOUS
  <2> DEFINE h == [k \in 0 .. n + 1 |->
                     IF k = n + 1 THEN g[n] \cup More(g[n]) ELSE g[k]]
  <2>2. n \in Nat /\ n + 1 \in Nat /\ n + 1 # 0 /\ (n + 1) - 1 = n
    OBVIOUS
  <2>3. h[n] = g[n] /\ n \in 0 .. n
    BY <2>2
  <2>4. Body(h, n + 1) = h[n + 1]
    BY <2>2, <2>3
  <2>5. ASSUME NEW k \in 0 .. n
        PROVE  Body(h, k) = h[k]
    <3>1. h[k] = g[k]
      BY <2>2
    <3>2. k # 0 => k - 1 \in 0 .. n /\ h[k - 1] = g[k - 1]
      BY <2>2
    <3> HIDE DEF h
    <3>3. g[k] = Body(g, k)
      <4> HIDE DEF Body
      <4> QED
        BY <2>1
    <3>4. Body(h, k) = Body(g, k)
      BY <3>2
    <3> QED
      BY <3>1, <3>3, <3>4
  <2>6. \A k \in 0 .. n + 1 : k = n + 1 \/ k \in 0 .. n
    BY <2>2
  <2>7. h = [k \in 0 .. n + 1 |-> h[k]]
    OBVIOUS
  <2> HIDE DEF h
  <2>8. \A k \in 0 .. n + 1 : Body(h, k) = h[k]
    BY <2>4, <2>5, <2>6
  <2>9. Is(h, n + 1)
    <3> HIDE DEF Body
    <3> QED
      BY <2>7, <2>8
  <2> QED
    BY <2>2, <2>9
<1>5. Is(Held, N)
  <2>1. T = Nat
    <3> HIDE DEF T
    <3>1. T \in SUBSET Nat
      BY DEF T
    <3> QED
      BY <1>3, <1>4, <3>1, NatSets
  <2>2. \E g : Is(g, N)
    BY <1>1, <2>1
  <2> HIDE DEF Is
  <2> QED
    BY <2>2
<1> HIDE DEF Held, T
<1>6. 0 \in U
  BY <1>1, <1>5
<1>7. ASSUME NEW k \in U
      PROVE  k + 1 \in U
  <2>1. SUFFICES ASSUME k + 1 <= N PROVE R \subseteq Held[k + 1]
    OBVIOUS
  <2>2. k + 1 \in 0 .. N /\ k + 1 # 0 /\ (k + 1) - 1 = k /\ R \subseteq Held[k]
    BY <1>1, <2>1
  <2>3. Held[k + 1] = Held[k] \cup More(Held[k])
    BY <1>5, <2>2
  <2> QED
    BY <2>2, <2>3
<1>8. U = Nat
  <2> HIDE DEF U
  <2>1. U \in SUBSET Nat
    BY DEF U
  <2> QED
    BY <1>6, <1>7, <2>1, NatSets
<1>9. R \subseteq Held[N]
  BY <1>1, <1>8
<1> QED
  BY <1>2, <1>9 DEF R

LEMMA RootsAre ==
  ASSUME NEW m, NEW ds, NEW hs, NEW cs, Sound(m, ds, hs, cs)
  PROVE  /\ Roots(ds, hs, cs) = Owned(ds, cs)
         /\ Owned(ds, cs) \subseteq DOMAIN m
         /\ \A c \in Owned(ds, cs) :
              m[c] # NoParent => <<c[1], m[c]>> \in Owned(ds, cs)
<1>1. \A u \in Upstreams : ds[u] \cup hs[u] = ds[u]
  BY DEF Sound
<1>2. Roots(ds, hs, cs) = Owned(ds, cs)
  BY <1>1 DEF Roots, Owned
<1>3. ASSUME NEW c \in Owned(ds, cs)
      PROVE  c \in DOMAIN m /\ (m[c] # NoParent => <<c[1], m[c]>> \in Owned(ds, cs))
  <2>1. CASE c \in cs
    <3>1. PICK u \in Upstreams, id \in Methods : c = <<u, id>>
      BY <2>1 DEF Sound
    <3> QED
      BY <2>1, <3>1 DEF Sound
  <2>2. CASE c \notin cs
    <3>1. PICK u \in Upstreams : c \in Made(u, ds[u])
      BY <2>2 DEF Owned
    <3>2. PICK id \in ds[u] : c = <<u, id>>
      BY <3>1 DEF Made
    <3>3. c \in DOMAIN m /\ (m[c] # NoParent => m[c] \in ds[u])
      BY <3>2 DEF Sound
    <3>4. c[1] = u
      BY <3>2
    <3> QED
      BY <3>3, <3>4 DEF Owned, Made
  <2> QED
    BY <2>1, <2>2
<1> QED
  BY <1>2, <1>3

LEMMA KeepSound ==
  ASSUME NEW m, Keep(m), Sound(m, delegates', docHeld', comm')
  PROVE  /\ MergedSound'
         /\ \A u \in Upstreams : \A id \in delegates'[u] :
              merged'[<<u, id>>] = m[<<u, id>>]
<1> DEFINE O == Owned(delegates', comm')
<1>1. /\ Roots(delegates', docHeld', comm') = O
      /\ O \subseteq DOMAIN m
      /\ \A c \in O : m[c] # NoParent => <<c[1], m[c]>> \in O
  BY RootsAre
<1>2. HeldBy(m, delegates', docHeld', comm') = O
  BY <1>1, HeldAreRoots
<1>3. merged' = [c \in DOMAIN m \cap O |-> m[c]]
  BY <1>2 DEF Keep
<1>4. DOMAIN merged' = O /\ \A c \in O : merged'[c] = m[c]
  BY <1>1, <1>3
<1>5. /\ comm' \subseteq O
      /\ \A u \in Upstreams : \A id \in delegates'[u] : <<u, id>> \in O
  BY DEF Owned, Made
<1>6. Sound(merged', delegates', docHeld', comm')
  <2> HIDE DEF O
  <2> QED
    BY <1>1, <1>4, <1>5 DEF Sound
<1>7. DOMAIN merged' = Owned(delegates', comm')
  BY <1>4
<1> QED
  BY <1>4, <1>5, <1>6, <1>7 DEF MergedSound

LEMMA KeepTyped ==
  ASSUME NEW m, Keep(m), Scope(m, delegates', comm')
  PROVE  MergedTyped'
<1> DEFINE R == Roots(delegates', docHeld', comm')
           H == HeldBy(m, delegates', docHeld', comm')
<1>1. R \subseteq H
  BY RootsAreHeld
<1>2. merged' = [c \in DOMAIN m \cap H |-> m[c]]
  BY DEF Keep
<1>3. /\ comm' \subseteq R
      /\ \A u \in Upstreams : \A id \in delegates'[u] : <<u, id>> \in R
  BY DEF Roots, Made
<1> HIDE DEF R, H
<1>4. DOMAIN merged' = DOMAIN m \cap H /\ \A c \in DOMAIN merged' : merged'[c] = m[c]
  BY <1>2
<1> QED
  BY <1>1, <1>3, <1>4 DEF MergedTyped, Scope

(* m holds what the delegates D of u, with the methods H in its document,  *)
(* and the list cs are to refer to, and is as before for other upstreams.  *)
Suits(m, u, D, H, cs) ==
  /\ D \subseteq IDs /\ H \subseteq D \cap Methods
  /\ cs \subseteq (Upstreams \X Methods) \cap DOMAIN m
  /\ \A id \in D :
       <<u, id>> \in DOMAIN m /\ m[<<u, id>>] \in (D \cap Entities) \cup {NoParent}
  /\ \A id \in Methods : <<u, id>> \in DOMAIN m => m[<<u, id>>] = NoParent
  /\ DOMAIN merged \subseteq DOMAIN m
  /\ \A v \in Upstreams \ {u} : \A id :
       <<v, id>> \in DOMAIN m =>
         <<v, id>> \in DOMAIN merged /\ m[<<v, id>>] = merged[<<v, id>>]

(* The other sessions show what they did. *)
Others(u) ==
  \A v \in Upstreams \ {u} :
    /\ delegates'[v] = delegates[v]
    /\ docHeld'[v] = docHeld[v]
    /\ Here(v)' = Here(v)

LEMMA Changed ==
  ASSUME Typed, MergedSound, NEW u \in Upstreams, NEW m, NEW D, NEW H, NEW cs,
         delegates' = [delegates EXCEPT ![u] = D],
         docHeld' = [docHeld EXCEPT ![u] = H],
         comm' = cs, Suits(m, u, D, H, cs), Keep(m)
  PROVE  /\ MergedSound'
         /\ Others(u)
         /\ delegates'[u] = D /\ docHeld'[u] = H
         /\ Here(u)' = State([id \in D |-> m[<<u, id>>]], H)
<1>1. /\ delegates'[u] = D /\ docHeld'[u] = H
      /\ \A v \in Upstreams \ {u} : /\ delegates'[v] = delegates[v]
                                    /\ docHeld'[v] = docHeld[v]
  BY DEF Typed
<1>2. Sound(merged, delegates, docHeld, comm)
  BY DEF MergedSound
<1>3. ASSUME NEW v \in Upstreams
      PROVE  /\ docHeld'[v] \subseteq delegates'[v] \cap Methods
             /\ delegates'[v] \subseteq IDs
             /\ \A id \in delegates'[v] :
                  /\ <<v, id>> \in DOMAIN m
                  /\ m[<<v, id>>] \in (delegates'[v] \cap Entities) \cup {NoParent}
                  /\ v # u => m[<<v, id>>] = merged[<<v, id>>]
  <2>1. CASE v = u
    BY <1>1, <2>1 DEF Suits
  <2>2. CASE v # u
    <3>1. v \in Upstreams \ {u}
      BY <2>2
    <3>2. /\ docHeld[v] \subseteq delegates[v] \cap Methods
          /\ delegates[v] \subseteq IDs
          /\ \A id \in delegates[v] :
               /\ <<v, id>> \in DOMAIN merged
               /\ merged[<<v, id>>] \in (delegates[v] \cap Entities) \cup {NoParent}
      BY <1>2 DEF Sound
    <3>3. \A id \in delegates[v] :
            <<v, id>> \in DOMAIN m /\ m[<<v, id>>] = merged[<<v, id>>]
      BY <3>1, <3>2 DEF Suits
    <3> QED
      BY <1>1, <3>1, <3>2, <3>3
  <2> QED
    BY <2>1, <2>2
<1>4. ASSUME NEW v \in Upstreams, NEW id \in Methods, <<v, id>> \in DOMAIN m
      PROVE  m[<<v, id>>] = NoParent
  <2>1. CASE v = u
    BY <1>4, <2>1 DEF Suits
  <2>2. CASE v # u
    <3>1. v \in Upstreams \ {u}
      BY <2>2
    <3>2. <<v, id>> \in DOMAIN merged /\ m[<<v, id>>] = merged[<<v, id>>]
      BY <1>4, <3>1 DEF Suits
    <3> QED
      BY <1>2, <3>2 DEF Sound
  <2> QED
    BY <2>1, <2>2
<1>5. Sound(m, delegates', docHeld', comm')
  BY <1>3, <1>4 DEF Sound, Suits
<1>6. /\ MergedSound'
      /\ \A v \in Upstreams : \A id \in delegates'[v] :
           merged'[<<v, id>>] = m[<<v, id>>]
  BY <1>5, KeepSound
<1>7. Others(u)
  <2>1. SUFFICES ASSUME NEW v \in Upstreams \ {u}
                 PROVE  Here(v)' = Here(v)
    BY <1>1 DEF Others
  <2>2. delegates'[v] = delegates[v] /\ docHeld'[v] = docHeld[v]
    BY <1>1
  <2>3. \A id \in delegates[v] : merged'[<<v, id>>] = merged[<<v, id>>]
    BY <1>3, <1>6, <2>2
  <2>4. [id \in delegates'[v] |-> merged'[<<v, id>>]]
          = [id \in delegates[v] |-> merged[<<v, id>>]]
    BY <2>2, <2>3
  <2> QED
    BY <2>2, <2>4 DEF Here
<1>8. Here(u)' = State([id \in D |-> m[<<u, id>>]], H)
  <2>1. [id \in delegates'[u] |-> merged'[<<u, id>>]] = [id \in D |-> m[<<u, id>>]]
    BY <1>1, <1>6
  <2> QED
    BY <1>1, <2>1 DEF Here
<1> QED
  BY <1>1, <1>6, <1>7, <1>8

-----------------------------------------------------------------------------
(* What a worker does *)

LEMMA HereIs ==
  ASSUME Typed, MergedSound, NEW u \in Upstreams
  PROVE  /\ Here(u).map = [id \in delegates[u] |-> merged[<<u, id>>]]
         /\ DOMAIN Here(u).map = delegates[u]
         /\ Here(u).held = docHeld[u]
         /\ delegates[u] \subseteq IDs
         /\ docHeld[u] \subseteq delegates[u] \cap Methods
         /\ \A id \in delegates[u] :
              /\ <<u, id>> \in DOMAIN merged
              /\ Here(u).map[id] = merged[<<u, id>>]
              /\ merged[<<u, id>>] \in (delegates[u] \cap Entities) \cup {NoParent}
         /\ Here(u) \in States
<1>1. /\ Here(u).map = [id \in delegates[u] |-> merged[<<u, id>>]]
      /\ Here(u).held = docHeld[u]
  BY StateIs DEF Here
<1>2. /\ delegates[u] \subseteq IDs
      /\ docHeld[u] \subseteq delegates[u] \cap Methods
      /\ \A id \in delegates[u] :
           /\ <<u, id>> \in DOMAIN merged
           /\ merged[<<u, id>>] \in (delegates[u] \cap Entities) \cup {NoParent}
  BY DEF MergedSound, Sound
<1> DEFINE f == [id \in delegates[u] |-> merged[<<u, id>>]]
<1>3. f = [id \in DOMAIN f |-> f[id]] /\ DOMAIN f = delegates[u]
  OBVIOUS
<1>4. \A id \in DOMAIN f : f[id] \in Parents
  BY <1>2, Signs
<1>5. f \in Maps
  <2> HIDE DEF f
  <2> QED
    BY <1>2, <1>3, <1>4, MapsAre
<1>6. Here(u) \in States
  BY <1>2, <1>5, StateIs DEF Here
<1> QED
  BY <1>1, <1>2, <1>3, <1>6

(* The merged components as they are suit the sessions they are of. *)
LEMMA MergedSuits ==
  ASSUME Typed, MergedSound, NEW u \in Upstreams, NEW D, NEW H,
         D \subseteq delegates[u], H \subseteq D \cap Methods,
         \A id \in D : merged[<<u, id>>] \in D \cup {NoParent},
         NEW cs, cs \subseteq (Upstreams \X Methods) \cap DOMAIN merged
  PROVE  Suits(merged, u, D, H, cs)
<1>1. \A id \in D :
        /\ <<u, id>> \in DOMAIN merged
        /\ merged[<<u, id>>] \in (D \cap Entities) \cup {NoParent}
  BY HereIs
<1>2. D \subseteq IDs
  BY HereIs
<1>3. \A id \in Methods : <<u, id>> \in DOMAIN merged => merged[<<u, id>>] = NoParent
  BY DEF MergedSound, Sound
<1> QED
  BY <1>1, <1>2, <1>3 DEF Suits

CommIs == comm \subseteq (Upstreams \X Methods) \cap DOMAIN merged

LEMMA CommSound ==
  ASSUME MergedSound
  PROVE  CommIs
BY DEF MergedSound, Sound, CommIs

LEMMA DropAllEffect ==
  ASSUME Typed, MergedSound, NEW u \in Upstreams, DropAll(u)
  PROVE  /\ MergedSound'
         /\ Others(u)
         /\ delegates'[u] = {} /\ docHeld'[u] = {}
         /\ Here(u)' = State(Empty, {})
<1> DEFINE D == {}
<1>1. Suits(merged, u, D, D, comm)
  BY MergedSuits, CommSound DEF CommIs
<1>2. /\ delegates' = [delegates EXCEPT ![u] = D]
      /\ docHeld' = [docHeld EXCEPT ![u] = D]
      /\ comm' = comm /\ Keep(merged)
  BY DEF DropAll
<1> HIDE DEF D
<1>3. /\ MergedSound'
      /\ Others(u)
      /\ delegates'[u] = D /\ docHeld'[u] = D
      /\ Here(u)' = State([id \in D |-> merged[<<u, id>>]], D)
  BY <1>1, <1>2, Changed
<1>4. [id \in D |-> merged[<<u, id>>]] = Empty
  BY DEF D, Empty
<1> QED
  BY <1>3, <1>4 DEF D

(* The session goes on and shows what m makes of what it showed. *)
Goes(u, m) == worker'[u] = "on" /\ Here(u)' = Step(Here(u), m)
Stops(u) ==
  worker'[u] \in {"ended", "panicked"} /\ delegates'[u] = {} /\ docHeld'[u] = {}

Effect(u, m) ==
  /\ MergedSound'
  /\ Others(u)
  /\ \A v \in Upstreams \ {u} : worker'[v] = worker[v]
  /\ Goes(u, m) \/ Stops(u)

LEMMA PanicEffect ==
  ASSUME Typed, MergedSound, NEW u \in Upstreams, NEW m, Panic(u)
  PROVE  Effect(u, m)
<1>1. /\ MergedSound'
      /\ Others(u)
      /\ delegates'[u] = {} /\ docHeld'[u] = {}
  BY DropAllEffect DEF Panic
<1>2. worker'[u] = "panicked" /\ \A v \in Upstreams \ {u} : worker'[v] = worker[v]
  BY DEF Panic, Typed
<1> QED
  BY <1>1, <1>2 DEF Effect, Stops

LEMMA CreateEffect ==
  ASSUME Typed, MergedSound, NEW u \in Upstreams, NEW m \in Messages,
         worker[u] = "on", Fits(Here(u), m), HandleCreate(u, m)
  PROVE  Effect(u, m)
<1>1. CASE FailToMake(u)
  BY <1>1, PanicEffect DEF FailToMake
<1>2. CASE Resolves(u, m.parent) /\ MakeMerged(u, m)
  <2> DEFINE D == delegates[u] \cup {m.id}
             H == docHeld[u]
             x == <<u, m.id>>
             n == Put(merged, x, m.parent)
  <2>1. /\ m.kind = "create" /\ m.id \in IDs /\ m.parent \in Parents
        /\ m.parent \in delegates[u] \cup {NoParent}
        /\ m.id \in Methods => m.parent = NoParent
    BY <1>2, MessageIs DEF HandleCreate, Resolves, Fits
  <2>2. /\ delegates' = [delegates EXCEPT ![u] = D]
        /\ docHeld' = docHeld
        /\ worker' = worker
        /\ comm' = comm
        /\ Keep(n)
    BY <1>2 DEF MakeMerged
  <2>3. docHeld' = [docHeld EXCEPT ![u] = H]
    BY <2>2 DEF Typed
  <2>4. /\ DOMAIN n = DOMAIN merged \cup {x}
        /\ n[x] = m.parent
        /\ \A y \in DOMAIN merged : y # x => n[y] = merged[y]
    BY DEF Put
  <2>5. /\ delegates[u] \subseteq IDs
        /\ docHeld[u] \subseteq delegates[u] \cap Methods
        /\ \A id \in delegates[u] :
              /\ <<u, id>> \in DOMAIN merged
              /\ Here(u).map[id] = merged[<<u, id>>]
              /\ merged[<<u, id>>] \in (delegates[u] \cap Entities) \cup {NoParent}
    BY HereIs
  <2>6. comm \subseteq (Upstreams \X Methods) \cap DOMAIN merged
    BY CommSound DEF CommIs
  <2>7. \A v, id : <<v, id>> = x <=> v = u /\ id = m.id
    OBVIOUS
  <2> HIDE DEF n, x
  <2>8. m.parent \in (D \cap Entities) \cup {NoParent}
    BY <2>1, Signs
  <2>9. ASSUME NEW id \in D
        PROVE  /\ <<u, id>> \in DOMAIN n
               /\ n[<<u, id>>] \in (D \cap Entities) \cup {NoParent}
               /\ n[<<u, id>>] = IF id = m.id THEN m.parent ELSE Here(u).map[id]
    BY <2>4, <2>5, <2>7, <2>8
  <2>10. ASSUME NEW id \in Methods, <<u, id>> \in DOMAIN n
         PROVE  n[<<u, id>>] = NoParent
    <3>1. CASE id = m.id
      BY <2>1, <2>4, <2>7, <3>1
    <3>2. CASE id # m.id
      <4>1. <<u, id>> \in DOMAIN merged /\ n[<<u, id>>] = merged[<<u, id>>]
        BY <2>4, <2>7, <2>10, <3>2
      <4> QED
        BY <4>1 DEF MergedSound, Sound
    <3> QED
      BY <3>1, <3>2
  <2>11. \A v \in Upstreams \ {u} : \A id :
           <<v, id>> \in DOMAIN n =>
             <<v, id>> \in DOMAIN merged /\ n[<<v, id>>] = merged[<<v, id>>]
    BY <2>4, <2>7
  <2>12. Suits(n, u, D, H, comm)
    BY <2>1, <2>4, <2>5, <2>6, <2>9, <2>10, <2>11 DEF Suits
  <2> HIDE DEF D, H
  <2>13. /\ MergedSound'
         /\ Others(u)
         /\ delegates'[u] = D /\ docHeld'[u] = H
         /\ Here(u)' = State([id \in D |-> n[<<u, id>>]], H)
    BY <2>2, <2>3, <2>12, Changed
  <2>14. Put(Here(u).map, m.id, m.parent) = [id \in D |-> n[<<u, id>>]]
    <3>1. Put(Here(u).map, m.id, m.parent)
            = [id \in D |-> IF id = m.id THEN m.parent ELSE Here(u).map[id]]
      BY HereIs DEF Put, D
    <3> QED
      BY <2>9, <3>1
  <2>15. Step(Here(u), m) = State(Put(Here(u).map, m.id, m.parent), H)
    <3>1. Step(Here(u), m) = State(Put(Here(u).map, m.id, m.parent), Here(u).held)
      BY <2>1, StepIs
    <3>2. Here(u).held = H
      BY HereIs DEF H
    <3> QED
      BY <3>1, <3>2
  <2> QED
    BY <2>2, <2>13, <2>14, <2>15 DEF Effect, Goes
<1> QED
  BY <1>1, <1>2 DEF HandleCreate

LEMMA PatchEffect ==
  ASSUME Typed, MergedSound, NEW u \in Upstreams, NEW m \in Messages,
         worker[u] = "on", Fits(Here(u), m), HandlePatch(u, m)
  PROVE  Effect(u, m)
<1> DEFINE D == delegates[u]
           H == docHeld[u]
           x == <<u, m.id>>
           n == [merged EXCEPT ![x] = m.parent]
<1>1. /\ delegates[u] \subseteq IDs
      /\ docHeld[u] \subseteq delegates[u] \cap Methods
      /\ \A id \in delegates[u] :
            /\ <<u, id>> \in DOMAIN merged
            /\ Here(u).map[id] = merged[<<u, id>>]
            /\ merged[<<u, id>>] \in (delegates[u] \cap Entities) \cup {NoParent}
      /\ DOMAIN Here(u).map = delegates[u]
  BY HereIs
<1>2. /\ m.kind = "patch"
      /\ {m.id, m.parent} \subseteq delegates[u] \cap Entities
      /\ m.parent # m.id
  BY <1>1 DEF HandlePatch, Fits
<1>3. PatchMerged(u, m)
  BY <1>2 DEF HandlePatch
<1>4. /\ UNCHANGED <<sessionVars, comm>>
      /\ Keep(n)
  BY <1>2, <1>3 DEF PatchMerged, Resolves
<1>5. /\ delegates' = [delegates EXCEPT ![u] = D]
      /\ docHeld' = [docHeld EXCEPT ![u] = H]
      /\ comm' = comm
      /\ worker' = worker
  BY <1>4 DEF sessionVars, Typed
<1>6. x \in DOMAIN merged
  BY <1>1, <1>2
<1>7. /\ DOMAIN n = DOMAIN merged
      /\ n[x] = m.parent
      /\ \A y \in DOMAIN merged : y # x => n[y] = merged[y]
  BY <1>6
<1>8. \A v, id : <<v, id>> = x <=> v = u /\ id = m.id
  OBVIOUS
<1>9. comm \subseteq (Upstreams \X Methods) \cap DOMAIN merged
  BY CommSound DEF CommIs
<1> HIDE DEF n, x
<1>10. ASSUME NEW id \in D
       PROVE  /\ <<u, id>> \in DOMAIN n
              /\ n[<<u, id>>] \in (D \cap Entities) \cup {NoParent}
              /\ n[<<u, id>>] = IF id = m.id THEN m.parent ELSE Here(u).map[id]
  BY <1>1, <1>2, <1>7, <1>8
<1>11. ASSUME NEW id \in Methods, <<u, id>> \in DOMAIN n
       PROVE  n[<<u, id>>] = NoParent
  <2>1. id # m.id
    BY <1>2, Signs
  <2>2. <<u, id>> \in DOMAIN merged /\ n[<<u, id>>] = merged[<<u, id>>]
    BY <1>7, <1>8, <1>11, <2>1
  <2> QED
    BY <2>2 DEF MergedSound, Sound
<1>12. \A v \in Upstreams \ {u} : \A id :
         <<v, id>> \in DOMAIN n =>
           <<v, id>> \in DOMAIN merged /\ n[<<v, id>>] = merged[<<v, id>>]
  BY <1>7, <1>8
<1>13. Suits(n, u, D, H, comm)
  BY <1>1, <1>7, <1>9, <1>10, <1>11, <1>12 DEF Suits
<1> HIDE DEF D, H
<1>14. /\ MergedSound'
       /\ Others(u)
       /\ delegates'[u] = D /\ docHeld'[u] = H
       /\ Here(u)' = State([id \in D |-> n[<<u, id>>]], H)
  BY <1>4, <1>5, <1>13, Changed
<1>15. Put(Here(u).map, m.id, m.parent) = [id \in D |-> n[<<u, id>>]]
  <2>1. DOMAIN Here(u).map \cup {m.id} = D
    BY <1>1, <1>2 DEF D
  <2>2. Put(Here(u).map, m.id, m.parent)
          = [id \in D |-> IF id = m.id THEN m.parent ELSE Here(u).map[id]]
    BY <2>1 DEF Put
  <2> QED
    BY <1>10, <2>2
<1>16. Step(Here(u), m) = State(Put(Here(u).map, m.id, m.parent), H)
  <2>1. Step(Here(u), m) = State(Put(Here(u).map, m.id, m.parent), Here(u).held)
    BY <1>2, StepIs
  <2>2. Here(u).held = H
    BY HereIs DEF H
  <2> QED
    BY <2>1, <2>2
<1> QED
  BY <1>5, <1>14, <1>15, <1>16 DEF Effect, Goes

LEMMA DeleteEffect ==
  ASSUME Typed, MergedSound, NEW u \in Upstreams, NEW m \in Messages,
         worker[u] = "on", Fits(Here(u), m), HandleDelete(u, m)
  PROVE  Effect(u, m)
<1> DEFINE D == delegates[u] \ {m.id}
           H == docHeld[u]
<1>1. /\ delegates[u] \subseteq IDs
      /\ docHeld[u] \subseteq delegates[u] \cap Methods
      /\ \A id \in delegates[u] :
            /\ <<u, id>> \in DOMAIN merged
            /\ Here(u).map[id] = merged[<<u, id>>]
            /\ merged[<<u, id>>] \in (delegates[u] \cap Entities) \cup {NoParent}
      /\ DOMAIN Here(u).map = delegates[u]
      /\ Here(u).held = docHeld[u]
  BY HereIs
<1>2. /\ m.kind = "delete"
      /\ m.id \in delegates[u] \ docHeld[u]
      /\ \A id \in delegates[u] : merged[<<u, id>>] # m.id
  BY <1>1 DEF HandleDelete, Fits
<1>3. /\ delegates' = [delegates EXCEPT ![u] = D]
      /\ docHeld' = docHeld /\ worker' = worker /\ comm' = comm
      /\ Keep(merged)
  BY <1>2 DEF HandleDelete
<1>4. docHeld' = [docHeld EXCEPT ![u] = H]
  BY <1>3 DEF Typed
<1>5. Suits(merged, u, D, H, comm)
  <2>1. comm \subseteq (Upstreams \X Methods) \cap DOMAIN merged
    BY CommSound DEF CommIs
  <2>2. \A id \in D : merged[<<u, id>>] \in D \cup {NoParent}
    BY <1>1, <1>2
  <2>3. D \subseteq delegates[u] /\ H \subseteq D \cap Methods
    BY <1>1, <1>2
  <2> HIDE DEF D, H
  <2> QED
    BY <2>1, <2>2, <2>3, MergedSuits
<1>6. Without(Here(u).map, m.id) = [id \in D |-> merged[<<u, id>>]]
  BY <1>1 DEF Without
<1>7. Step(Here(u), m) = State(Without(Here(u).map, m.id), H)
  BY <1>1, <1>2, StepIs
<1> HIDE DEF D, H
<1>8. /\ MergedSound'
      /\ Others(u)
      /\ delegates'[u] = D /\ docHeld'[u] = H
      /\ Here(u)' = State([id \in D |-> merged[<<u, id>>]], H)
  BY <1>3, <1>4, <1>5, Changed
<1> QED
  BY <1>3, <1>6, <1>7, <1>8 DEF Effect, Goes

LEMMA DocumentEffect ==
  ASSUME Typed, MergedSound, NEW u \in Upstreams, NEW m \in Messages,
         worker[u] = "on", Fits(Here(u), m), HandleDocument(u, m)
  PROVE  Effect(u, m)
<1>1. CASE Panic(u)
  BY <1>1, PanicEffect
<1>2. CASE ~ poisoned
  <2> DEFINE D == delegates[u]
             H == m.methods
             cs == Made(u, H)
  <2>1. /\ DOMAIN Here(u).map = delegates[u]
        /\ Here(u).map = [id \in delegates[u] |-> merged[<<u, id>>]]
        /\ delegates[u] \subseteq IDs
        /\ \A id \in delegates[u] :
             /\ <<u, id>> \in DOMAIN merged
             /\ merged[<<u, id>>] \in (delegates[u] \cap Entities) \cup {NoParent}
    BY HereIs
  <2>2. m.kind = "document" /\ H \subseteq D \cap Methods
    BY <2>1 DEF HandleDocument, Fits
  <2>3. H \cap D = H
    BY <2>2
  <2>4. /\ comm' = cs
        /\ docHeld' = [docHeld EXCEPT ![u] = H]
        /\ UNCHANGED <<worker, delegates>>
        /\ Keep(merged)
    BY <1>2, <2>3 DEF HandleDocument
  <2>5. delegates' = [delegates EXCEPT ![u] = D]
    BY <2>4 DEF Typed
  <2>6. cs \subseteq (Upstreams \X Methods) \cap DOMAIN merged
    BY <2>1, <2>2 DEF Made
  <2>7. \A id \in D : merged[<<u, id>>] \in D \cup {NoParent}
    BY <2>1
  <2>8. Step(Here(u), m) = State(Here(u).map, H)
    BY <2>2, StepIs
  <2>9. D \subseteq delegates[u]
    OBVIOUS
  <2>10. [id \in D |-> merged[<<u, id>>]] = Here(u).map
    BY <2>1
  <2> HIDE DEF D, H, cs
  <2>11. Suits(merged, u, D, H, cs)
    BY <2>2, <2>6, <2>7, <2>9, MergedSuits
  <2>12. /\ MergedSound'
         /\ Others(u)
         /\ delegates'[u] = D /\ docHeld'[u] = H
         /\ Here(u)' = State([id \in D |-> merged[<<u, id>>]], H)
    BY <2>4, <2>5, <2>11, Changed
  <2> QED
    BY <2>4, <2>8, <2>10, <2>12 DEF Effect, Goes
<1> QED
  BY <1>1, <1>2 DEF HandleDocument

LEMMA ResetEffect ==
  ASSUME Typed, MergedSound, NEW u \in Upstreams, NEW m,
         worker[u] = "on", HandleReset(u, m)
  PROVE  Effect(u, m)
<1>1. m.kind = "reset" /\ DropAll(u) /\ worker' = worker
  BY DEF HandleReset
<1>2. /\ MergedSound'
      /\ Others(u)
      /\ Here(u)' = State(Empty, {})
  BY <1>1, DropAllEffect
<1>3. Step(Here(u), m) = State(Empty, {})
  BY <1>1, StepIs
<1> QED
  BY <1>1, <1>2, <1>3 DEF Effect, Goes

LEMMA ClosedEffect ==
  ASSUME Typed, MergedSound, NEW u \in Upstreams, NEW m, HandleClosed(u, m)
  PROVE  Effect(u, m) /\ Stops(u)
<1>1. DropAll(u) /\ worker' = [worker EXCEPT ![u] = "ended"]
  BY DEF HandleClosed
<1>2. /\ MergedSound'
      /\ Others(u)
      /\ delegates'[u] = {} /\ docHeld'[u] = {}
  BY <1>1, DropAllEffect
<1>3. worker'[u] = "ended" /\ \A v \in Upstreams \ {u} : worker'[v] = worker[v]
  BY <1>1 DEF Typed
<1> QED
  BY <1>2, <1>3 DEF Effect, Stops


LEMMA SignalEffect ==
  ASSUME Typed, MergedSound, NEW u \in Upstreams, NEW m, HandleSignal(u, m)
  PROVE  Effect(u, m)
<1>1. Panic(u)
  BY DEF HandleSignal
<1> QED
  BY <1>1, PanicEffect

(* What a worker makes of the next message. *)
Handles(u, m) ==
  \/ HandleCreate(u, m) \/ HandlePatch(u, m) \/ HandleDelete(u, m)
  \/ HandleDocument(u, m) \/ HandleSignal(u, m)
  \/ HandleReset(u, m) \/ HandleClosed(u, m)

LEMMA HandlesEffect ==
  ASSUME Typed, MergedSound, NEW u \in Upstreams, NEW m \in Messages,
         worker[u] = "on", Fits(Here(u), m), Handles(u, m)
  PROVE  /\ Effect(u, m)
         /\ m.kind = "closed" => Stops(u)
<1>1. CASE HandleCreate(u, m)
  <2>1. m.kind = "create"
    BY <1>1 DEF HandleCreate
  <2> QED
    BY <1>1, <2>1, CreateEffect
<1>2. CASE HandlePatch(u, m)
  <2>1. m.kind = "patch"
    BY <1>2 DEF HandlePatch
  <2> QED
    BY <1>2, <2>1, PatchEffect
<1>3. CASE HandleDelete(u, m)
  <2>1. m.kind = "delete"
    BY <1>3 DEF HandleDelete
  <2> QED
    BY <1>3, <2>1, DeleteEffect
<1>4. CASE HandleDocument(u, m)
  <2>1. m.kind = "document"
    BY <1>4 DEF HandleDocument
  <2> QED
    BY <1>4, <2>1, DocumentEffect
<1>5. CASE HandleSignal(u, m)
  <2>1. m.kind = "signal"
    BY <1>5 DEF HandleSignal
  <2> QED
    BY <1>5, <2>1, SignalEffect
<1>6. CASE HandleReset(u, m)
  <2>1. m.kind = "reset"
    BY <1>6 DEF HandleReset
  <2> QED
    BY <1>6, <2>1, ResetEffect
<1>7. CASE HandleClosed(u, m)
  BY <1>7, ClosedEffect
<1> QED
  BY <1>1, <1>2, <1>3, <1>4, <1>5, <1>6, <1>7 DEF Handles

(* The variables of the session that a worker changes keep their types. *)
LEMMA HandlesTyped ==
  ASSUME Typed, NEW u \in Upstreams, NEW m \in Messages,
         Handles(u, m)
  PROVE  /\ worker' \in [Upstreams -> {"none", "on", "ended", "panicked"}]
         /\ delegates' \in [Upstreams -> SUBSET IDs]
         /\ docHeld' \in [Upstreams -> SUBSET Methods]
         /\ poisoned' \in BOOLEAN
<1>1. /\ worker \in [Upstreams -> {"none", "on", "ended", "panicked"}]
      /\ delegates \in [Upstreams -> SUBSET IDs]
      /\ docHeld \in [Upstreams -> SUBSET Methods]
      /\ poisoned \in BOOLEAN
  BY DEF Typed
<1>2. ASSUME Panic(u)
      PROVE  /\ worker' \in [Upstreams -> {"none", "on", "ended", "panicked"}]
             /\ delegates' \in [Upstreams -> SUBSET IDs]
             /\ docHeld' \in [Upstreams -> SUBSET Methods]
  BY <1>1, <1>2 DEF Panic, DropAll
<1>3. CASE HandleCreate(u, m)
  <2>1. m.id \in IDs
    BY <1>3, MessageIs DEF HandleCreate
  <2>2. CASE MakeMerged(u, m)
    BY <1>1, <2>1, <2>2 DEF MakeMerged
  <2>3. CASE FailToMake(u)
    BY <1>1, <1>2, <2>3 DEF FailToMake
  <2> QED
    BY <1>3, <2>2, <2>3 DEF HandleCreate
<1>4. CASE HandlePatch(u, m)
  <2>1. UNCHANGED sessionVars \/ Panic(u)
    BY <1>4 DEF HandlePatch, PatchMerged
  <2>2. poisoned' = poisoned
    BY <1>4 DEF HandlePatch
  <2> QED
    BY <1>1, <1>2, <2>1, <2>2 DEF sessionVars
<1>5. CASE HandleDelete(u, m)
  <2>1. poisoned' = poisoned
    BY <1>5 DEF HandleDelete
  <2>2. CASE Panic(u)
    BY <1>1, <1>2, <2>1, <2>2
  <2>3. CASE /\ delegates' = [delegates EXCEPT ![u] = @ \ {m.id}]
             /\ UNCHANGED <<worker, docHeld>>
    BY <1>1, <2>1, <2>3
  <2> QED
    BY <1>5, <2>2, <2>3 DEF HandleDelete
<1>6. CASE HandleDocument(u, m)
  <2>1. poisoned' = poisoned
    BY <1>6 DEF HandleDocument
  <2>2. CASE Panic(u)
    BY <1>1, <1>2, <2>1, <2>2
  <2>3. CASE ~ poisoned
    <3>1. m.methods \in SUBSET Methods
      BY <1>6, MessageIs DEF HandleDocument
    <3>2. /\ docHeld' = [docHeld EXCEPT ![u] = m.methods \cap delegates[u]]
          /\ UNCHANGED <<worker, delegates>>
      BY <1>6, <2>3 DEF HandleDocument
    <3> QED
      BY <1>1, <2>1, <3>1, <3>2
  <2> QED
    BY <1>6, <2>2, <2>3 DEF HandleDocument
<1>7. CASE HandleSignal(u, m)
  BY <1>1, <1>2, <1>7 DEF HandleSignal
<1>8. CASE HandleReset(u, m)
  BY <1>1, <1>8 DEF HandleReset, DropAll
<1>9. CASE HandleClosed(u, m)
  BY <1>1, <1>9 DEF HandleClosed, DropAll
<1> QED
  BY <1>3, <1>4, <1>5, <1>6, <1>7, <1>8, <1>9 DEF Handles

(* No worker makes the merged server lose what a delegate or the document  *)
(* refers to.                                                              *)
LEMMA HandlesScope ==
  ASSUME Typed, MergedTyped, NEW u \in Upstreams, NEW m \in Messages,
         Handles(u, m)
  PROVE  MergedTyped'
<1>1. Scope(merged, delegates, comm) /\ delegates \in [Upstreams -> SUBSET IDs]
  BY DEF MergedTyped, Typed
<1>2. ASSUME Keep(merged), comm' = comm,
             \A v \in Upstreams : delegates'[v] \subseteq delegates[v]
      PROVE  MergedTyped'
  BY <1>1, <1>2, KeepTyped DEF Scope
<1>3. ASSUME DropAll(u)
      PROVE  MergedTyped'
  <2>1. Keep(merged) /\ comm' = comm
    BY <1>3 DEF DropAll
  <2>2. \A v \in Upstreams : delegates'[v] \subseteq delegates[v]
    BY <1>1, <1>3 DEF DropAll
  <2> QED
    BY <1>2, <2>1, <2>2
<1>4. ASSUME Panic(u)
      PROVE  MergedTyped'
  BY <1>3, <1>4 DEF Panic
<1>5. CASE HandleCreate(u, m)
  <2>1. CASE FailToMake(u)
    BY <1>4, <2>1 DEF FailToMake
  <2>2. CASE MakeMerged(u, m)
    <3> DEFINE x == <<u, m.id>>
               n == Put(merged, x, m.parent)
    <3>1. m.id \in IDs /\ m.parent \in Parents
      BY <1>5, MessageIs DEF HandleCreate
    <3>2. /\ DOMAIN n = DOMAIN merged \cup {x}
          /\ n[x] = m.parent
          /\ \A y \in DOMAIN merged : y # x => n[y] = merged[y]
      BY DEF Put
    <3>3. /\ Keep(n) /\ comm' = comm
          /\ delegates' = [delegates EXCEPT ![u] = @ \cup {m.id}]
      BY <2>2 DEF MakeMerged
    <3>4. x \in Upstreams \X IDs
      BY <3>1
    <3>5. ASSUME NEW v \in Upstreams, NEW id \in delegates'[v]
          PROVE  <<v, id>> \in DOMAIN merged \cup {x}
      BY <1>1, <3>3, <3>5 DEF Scope
    <3> HIDE DEF n, x
    <3>6. Scope(n, delegates', comm')
      BY <1>1, <3>1, <3>2, <3>3, <3>4, <3>5 DEF Scope
    <3> QED
      BY <3>3, <3>6, KeepTyped
  <2> QED
    BY <1>5, <2>1, <2>2 DEF HandleCreate
<1>6. CASE HandlePatch(u, m)
  <2> DEFINE n == [merged EXCEPT ![<<u, m.id>>] = m.parent]
  <2>1. m.parent \in Parents
    BY <1>6, MessageIs DEF HandlePatch
  <2>2. CASE UNCHANGED <<sessionVars, merged, comm>>
    BY <1>1, <2>2 DEF MergedTyped, Scope, sessionVars
  <2>3. CASE Panic(u)
    BY <1>4, <2>3
  <2>4. CASE UNCHANGED <<sessionVars, comm>> /\ Keep(n)
    <3>1. /\ DOMAIN n = DOMAIN merged
          /\ \A c \in DOMAIN n : n[c] \in {merged[c], m.parent}
      OBVIOUS
    <3>2. delegates' = delegates /\ comm' = comm
      BY <2>4 DEF sessionVars
    <3> HIDE DEF n
    <3>3. Scope(n, delegates', comm')
      BY <1>1, <2>1, <3>1, <3>2 DEF Scope
    <3> QED
      BY <2>4, <3>3, KeepTyped
  <2> QED
    BY <1>6, <2>2, <2>3, <2>4 DEF HandlePatch, PatchMerged
<1>7. CASE HandleDelete(u, m)
  <2>1. CASE Panic(u)
    BY <1>4, <2>1
  <2>2. CASE /\ delegates' = [delegates EXCEPT ![u] = @ \ {m.id}]
             /\ comm' = comm /\ Keep(merged)
    <3>1. \A v \in Upstreams : delegates'[v] \subseteq delegates[v]
      BY <1>1, <2>2
    <3> QED
      BY <1>2, <2>2, <3>1
  <2> QED
    BY <1>7, <2>1, <2>2 DEF HandleDelete
<1>8. CASE HandleDocument(u, m)
  <2>1. CASE Panic(u)
    BY <1>4, <2>1
  <2>2. CASE ~ poisoned
    <3> DEFINE cs == Made(u, m.methods \cap delegates[u])
    <3>1. comm' = cs /\ delegates' = delegates /\ Keep(merged)
      BY <1>8, <2>2 DEF HandleDocument
    <3>2. cs \subseteq DOMAIN merged
      BY <1>1 DEF Scope, Made
    <3> HIDE DEF cs
    <3>3. Scope(merged, delegates', comm')
      BY <1>1, <3>1, <3>2 DEF Scope
    <3> QED
      BY <3>1, <3>3, KeepTyped
  <2> QED
    BY <1>8, <2>1, <2>2 DEF HandleDocument
<1>9. CASE HandleSignal(u, m)
  BY <1>4, <1>9 DEF HandleSignal
<1>10. CASE HandleReset(u, m)
  BY <1>3, <1>10 DEF HandleReset
<1>11. CASE HandleClosed(u, m)
  BY <1>3, <1>11 DEF HandleClosed
<1> QED
  BY <1>5, <1>6, <1>7, <1>8, <1>9, <1>10, <1>11 DEF Handles

-----------------------------------------------------------------------------
(* A session of which nothing changes *)

LEMMA SessionKept ==
  ASSUME NEW v, Session(v), conn'[v] = conn[v], worker'[v] = worker[v],
         wire'[v] = wire[v], dump'[v] = dump[v],
         There(v)' = There(v), Here(v)' = Here(v),
         delegates'[v] = delegates[v], docHeld'[v] = docHeld[v]
  PROVE  Session(v)'
<1>1. conn'[v] = "idle" => worker'[v] = "none"
  BY DEF Session
<1>2. worker'[v] # "on" => delegates'[v] = {} /\ docHeld'[v] = {}
  BY DEF Session
<1>3. ASSUME worker'[v] = "on"
      PROVE  \E t \in States :
               /\ Led(Here(v)', wire'[v], t)
               /\ conn'[v] = "open" => t = There(v)'
               /\ conn'[v] = "over" =>
                    wire'[v] # <<>> /\ wire'[v][Len(wire'[v])].kind = "closed"
  <2>1. PICK t \in States :
          /\ Led(Here(v), wire[v], t)
          /\ conn[v] = "open" => t = There(v)
          /\ conn[v] = "over" =>
               wire[v] # <<>> /\ wire[v][Len(wire[v])].kind = "closed"
    BY <1>3 DEF Session
  <2> QED
    BY <2>1
<1>4. /\ conn'[v] \in {"idle", "subscribed", "dumped"} =>
           wire'[v] = <<>> /\ delegates'[v] = {} /\ docHeld'[v] = {}
      /\ conn'[v] = "dumped" => Led(State(Empty, {}), dump'[v], There(v)')
  BY DEF Session
<1> QED
  BY <1>1, <1>2, <1>3, <1>4 DEF Session

LEMMA LastOfTail ==
  ASSUME NEW w \in Seq(Messages), w # <<>>, Len(w) # 1
  PROVE  Tail(w) # <<>> /\ Tail(w)[Len(Tail(w))] = w[Len(w)]
<1> DEFINE n == Len(w)
           v == Tail(w)
<1>1. n \in Nat /\ n # 0 /\ Len(v) = n - 1 /\ \A k \in 1 .. n - 1 : v[k] = w[k + 1]
  OBVIOUS
<1>2. n # 1
  OBVIOUS
<1>3. Len(<<>>) = 0
  OBVIOUS
<1> HIDE DEF n, v
<1>4. n - 1 \in 1 .. n - 1 /\ (n - 1) + 1 = n /\ n - 1 # 0
  BY <1>1, <1>2
<1>5. v # <<>> /\ v[Len(v)] = w[n]
  BY <1>1, <1>3, <1>4
<1> QED
  BY <1>5 DEF n, v

(* A worker takes the next message, when all sessions were calm. *)
LEMMA WorkerKeeps ==
  ASSUME Typed, MergedSound, Sessions, NEW u \in Upstreams, Worker(u)
  PROVE  (MergedSound /\ Sessions)'
<1> DEFINE m == Head(wire[u])
           w == wire[u]
<1>1. Typed /\ MergedSound /\ Sessions /\ Session(u)
  BY DEF Sessions
<1>2. /\ worker[u] = "on" /\ w # <<>> /\ w \in Seq(Messages)
      /\ wire' = [wire EXCEPT ![u] = Tail(@)]
      /\ Handles(u, m)
      /\ UNCHANGED upstreamVars
  BY <1>1 DEF Worker, Handles, Typed
<1>3. m \in Messages /\ Tail(w) \in Seq(Messages) /\ Len(Tail(w)) = Len(w) - 1
  BY <1>2
<1>4. PICK t \in States :
        /\ Led(Here(u), w, t)
        /\ conn[u] = "open" => t = There(u)
        /\ conn[u] = "over" => w[Len(w)].kind = "closed"
  BY <1>1, <1>2 DEF Session
<1>5. Fits(Here(u), m) /\ Led(Step(Here(u), m), Tail(w), t)
  BY <1>2, <1>4, LedTail
<1> HIDE DEF m
<1>6. Effect(u, m) /\ (m.kind = "closed" => Stops(u))
  BY <1>1, <1>2, <1>3, <1>5, HandlesEffect
<1>7. MergedSound'
  BY <1>6 DEF Effect
<1>8. /\ conn' = conn /\ dump' = dump /\ wire'[u] = Tail(w)
      /\ \A v \in Upstreams : There(v)' = There(v)
      /\ \A v \in Upstreams \ {u} : wire'[v] = wire[v]
  BY <1>1, <1>2 DEF upstreamVars, documentVars, There, Typed
<1>9. Session(u)'
  <2>1. conn[u] \notin {"idle", "subscribed", "dumped"}
    BY <1>1, <1>2 DEF Session
  <2>2. CASE Stops(u)
    BY <1>8, <2>1, <2>2 DEF Session, Stops
  <2>3. CASE Goes(u, m) /\ m.kind # "closed"
    <3>1. worker'[u] = "on" /\ Led(Here(u)', Tail(w), t)
      BY <1>5, <2>3 DEF Goes
    <3>2. ASSUME conn[u] = "over"
          PROVE  Tail(w) # <<>> /\ Tail(w)[Len(Tail(w))].kind = "closed"
      <4>1. w[Len(w)].kind = "closed"
        BY <1>4, <3>2
      <4>2. Len(w) # 1
        BY <1>2, <2>3, <4>1 DEF m
      <4>3. Tail(w) # <<>> /\ Tail(w)[Len(Tail(w))] = w[Len(w)]
        BY <1>2, <4>2, LastOfTail
      <4> QED
        BY <4>1, <4>3
    <3>3. conn[u] = "open" => t = There(u)'
      BY <1>4, <1>8
    <3> QED
      BY <1>8, <2>1, <3>1, <3>2, <3>3 DEF Session
  <2> QED
    BY <1>6, <2>2, <2>3 DEF Effect
<1>10. ASSUME NEW v \in Upstreams \ {u}
       PROVE  Session(v)'
  <2>1. Session(v)
    BY <1>1 DEF Sessions
  <2>2. /\ Here(v)' = Here(v) /\ worker'[v] = worker[v]
        /\ delegates'[v] = delegates[v] /\ docHeld'[v] = docHeld[v]
    BY <1>6 DEF Effect, Others
  <2>3. There(v)' = There(v) /\ wire'[v] = wire[v] /\ conn'[v] = conn[v]
          /\ dump'[v] = dump[v]
    BY <1>8
  <2> QED
    BY <2>1, <2>2, <2>3, SessionKept
<1> QED
  BY <1>7, <1>9, <1>10 DEF Sessions

LEMMA WorkerStep ==
  ASSUME Inv, NEW u \in Upstreams, Worker(u)
  PROVE  Inv'
<1> DEFINE m == Head(wire[u])
<1>1. Typed /\ Documents /\ MergedTyped
  BY DEF Inv
<1>2. /\ wire[u] # <<>> /\ wire[u] \in Seq(Messages)
      /\ wire' = [wire EXCEPT ![u] = Tail(@)]
      /\ Handles(u, m)
      /\ UNCHANGED <<doc, listed, issued, changes, conn, calm, dump>>
  BY <1>1 DEF Worker, Handles, Typed, upstreamVars, documentVars
<1>3. m \in Messages /\ Tail(wire[u]) \in Seq(Messages)
  BY <1>2
<1> HIDE DEF m
<1>4. Typed'
  <2>1. /\ worker' \in [Upstreams -> {"none", "on", "ended", "panicked"}]
        /\ delegates' \in [Upstreams -> SUBSET IDs]
        /\ docHeld' \in [Upstreams -> SUBSET Methods]
        /\ poisoned' \in BOOLEAN
    BY <1>1, <1>2, <1>3, HandlesTyped
  <2>2. wire' \in [Upstreams -> Seq(Messages)]
    BY <1>1, <1>2, <1>3 DEF Typed
  <2> QED
    BY <1>1, <1>2, <2>1, <2>2 DEF Typed
<1>5. Documents'
  BY <1>1, <1>2 DEF Documents, Document
<1>6. MergedTyped'
  BY <1>1, <1>2, <1>3, HandlesScope
<1>7. AllCalm' => (MergedSound /\ Sessions)'
  <2>1. AllCalm' => AllCalm
    BY <1>2 DEF AllCalm
  <2> QED
    BY <1>1, <2>1, WorkerKeeps DEF Inv
<1> QED
  BY <1>4, <1>5, <1>6, <1>7 DEF Inv

-----------------------------------------------------------------------------
(* What an upstream does *)

(* The document of u becomes what m makes of it, and whoever is connected  *)
(* is told.                                                                *)
Told(u, m) ==
  /\ Tell(u, m)
  /\ UNCHANGED <<conn, sessionVars, mergedVars>>
  /\ There(u)' = Step(There(u), m)
  /\ \A v \in Upstreams \ {u} : There(v)' = There(v)

LEMMA ToldEffect ==
  ASSUME Typed, Sessions, AllCalm', NEW u \in Upstreams, NEW m \in Messages,
         Told(u, m), Fits(There(u), m)
  PROVE  Sessions'
<1>1. Typed /\ Sessions
  OBVIOUS
<1>2. /\ conn[u] \in {"idle", "open", "over"}
      /\ dump' = dump
      /\ wire' = IF conn[u] = "open"
                 THEN [wire EXCEPT ![u] = Append(@, m)] ELSE wire
  <2>1. ~ Connecting(u)
    <3>1. Connecting(u) => calm'[u] = FALSE
      BY <1>1 DEF Told, Tell, Typed
    <3> QED
      BY <3>1 DEF AllCalm
  <2> QED
    BY <1>1, <2>1 DEF Told, Tell, Typed, Connecting, Subscribed
<1>3. wire \in [Upstreams -> Seq(Messages)]
  BY <1>1 DEF Typed
<1>4. \A v \in Upstreams :
        /\ conn'[v] = conn[v] /\ worker'[v] = worker[v]
        /\ delegates'[v] = delegates[v] /\ docHeld'[v] = docHeld[v]
        /\ Here(v)' = Here(v)
  BY DEF Told, sessionVars, mergedVars, Here
<1>5. ASSUME NEW v \in Upstreams \ {u}
      PROVE  Session(v)'
  <2>1. wire'[v] = wire[v] /\ dump'[v] = dump[v]
    BY <1>2, <1>3
  <2>2. There(v)' = There(v)
    BY DEF Told
  <2>3. Session(v)
    BY <1>1 DEF Sessions
  <2> QED
    BY <1>4, <2>1, <2>2, <2>3, SessionKept
<1>6. Session(u)'
  <2>1. Session(u)
    BY <1>1 DEF Sessions
  <2>2. conn'[u] = "idle" => worker'[u] = "none"
    BY <1>4, <2>1 DEF Session
  <2>3. worker'[u] # "on" => delegates'[u] = {} /\ docHeld'[u] = {}
    BY <1>4, <2>1 DEF Session
  <2>4. ASSUME worker'[u] = "on"
        PROVE  \E t \in States :
                 /\ Led(Here(u)', wire'[u], t)
                 /\ conn'[u] = "open" => t = There(u)'
                 /\ conn'[u] = "over" =>
                      wire'[u] # <<>> /\ wire'[u][Len(wire'[u])].kind = "closed"
    <3>1. PICK t \in States :
            /\ Led(Here(u), wire[u], t)
            /\ conn[u] = "open" => t = There(u)
            /\ conn[u] = "over" =>
                 wire[u] # <<>> /\ wire[u][Len(wire[u])].kind = "closed"
      BY <1>4, <2>1, <2>4 DEF Session
    <3>2. CASE conn[u] = "open"
      <4>1. wire'[u] = Append(wire[u], m) /\ wire[u] \in Seq(Messages)
        BY <1>2, <1>3, <3>2
      <4>2. Led(Here(u), Append(wire[u], m), Step(t, m))
        BY <3>1, <3>2, <4>1, LedAppend
      <4>3. Step(t, m) \in States
        BY <3>1, StepTyped
      <4>4. There(u)' = Step(t, m)
        BY <3>1, <3>2 DEF Told
      <4> QED
        BY <1>4, <3>2, <4>1, <4>2, <4>3, <4>4
    <3>3. CASE conn[u] \in {"idle", "over"}
      <4>1. wire' = wire
        BY <1>2, <3>3
      <4> QED
        BY <1>4, <3>1, <3>3, <4>1
    <3> QED
      BY <1>2, <3>2, <3>3
  <2>5. conn[u] = "idle" =>
          wire'[u] = <<>> /\ delegates'[u] = {} /\ docHeld'[u] = {}
    BY <1>2, <1>4, <2>1 DEF Session
  <2> QED
    BY <1>2, <1>4, <2>2, <2>3, <2>4, <2>5 DEF Session
<1> QED
  BY <1>5, <1>6 DEF Sessions

(* What is left of the invariant when an upstream has changed its document *)
LEMMA UpstreamKeeps ==
  ASSUME Inv, NEW u \in Upstreams, NEW m \in Messages, Told(u, m),
         Fits(There(u), m),
         NEW d \in Maps, NEW l \in SUBSET Methods, NEW i \in SUBSET IDs,
         doc' = [doc EXCEPT ![u] = d],
         listed' = [listed EXCEPT ![u] = l],
         issued' = [issued EXCEPT ![u] = i],
         Document(d, l, i)
  PROVE  Inv'
<1>1. Typed /\ Documents /\ MergedTyped
  BY DEF Inv
<1>2. /\ changes' \in 0 .. MaxChanges
      /\ wire' \in [Upstreams -> Seq(Messages)]
      /\ calm' \in [Upstreams -> BOOLEAN] /\ dump' = dump
      /\ \A v \in Upstreams : calm'[v] => calm[v]
  <2>1. changes' \in 0 .. MaxChanges /\ dump' = dump
    BY <1>1, MergeConstants DEF Told, Tell, Typed
  <2>2. wire' \in [Upstreams -> Seq(Messages)]
    <3>1. wire' = wire \/ wire' = [wire EXCEPT ![u] = Append(@, m)]
      BY DEF Told, Tell
    <3>2. wire \in [Upstreams -> Seq(Messages)]
      BY <1>1 DEF Typed
    <3>3. Append(wire[u], m) \in Seq(Messages)
      BY <3>2
    <3> QED
      BY <3>1, <3>2, <3>3
  <2>3. calm' = calm \/ calm' = [calm EXCEPT ![u] = FALSE]
    BY DEF Told, Tell
  <2>4. calm \in [Upstreams -> BOOLEAN]
    BY <1>1 DEF Typed
  <2> QED
    BY <2>1, <2>2, <2>3, <2>4
<1>3. UNCHANGED <<conn, sessionVars, mergedVars>>
  BY DEF Told
<1>4. /\ doc' \in [Upstreams -> Maps]
      /\ listed' \in [Upstreams -> SUBSET Methods]
      /\ issued' \in [Upstreams -> SUBSET IDs]
  BY <1>1 DEF Typed
<1>5. Typed'
  BY <1>1, <1>2, <1>3, <1>4 DEF Typed, sessionVars, mergedVars
<1>6. MergedTyped'
  BY <1>1, <1>3 DEF MergedTyped, Scope, sessionVars, mergedVars
<1>7. \A v \in Upstreams : Document(doc'[v], listed'[v], issued'[v])
  <2>1. TAKE v \in Upstreams
  <2>2. CASE v = u
    BY <1>1, <2>2 DEF Typed
  <2>3. CASE v # u
    <3>1. doc'[v] = doc[v] /\ listed'[v] = listed[v] /\ issued'[v] = issued[v]
      BY <1>1, <2>3 DEF Typed
    <3> QED
      BY <1>1, <3>1 DEF Documents
  <2> QED
    BY <2>2, <2>3
<1>8. Documents'
  BY <1>7 DEF Documents
<1>9. ASSUME AllCalm'
      PROVE  (MergedSound /\ Sessions)'
  <2>1. MergedSound /\ Sessions
    BY <1>2, <1>9 DEF Inv, AllCalm
  <2>2. Sessions'
    BY <1>1, <1>9, <2>1, ToldEffect
  <2>3. MergedSound'
    BY <1>3, <2>1 DEF MergedSound, Sound, Owned, Made, sessionVars, mergedVars
  <2> QED
    BY <2>2, <2>3
<1> QED
  BY <1>5, <1>6, <1>8, <1>9 DEF Inv

(* The document of u and what it becomes. *)
LEMMA ThereIs ==
  ASSUME Typed, NEW u \in Upstreams, NEW d, NEW l,
         doc' = [doc EXCEPT ![u] = d], listed' = [listed EXCEPT ![u] = l]
  PROVE  /\ There(u)' = State(d, l)
         /\ \A v \in Upstreams \ {u} : There(v)' = There(v)
         /\ There(u).map = doc[u] /\ There(u).held = listed[u]
<1>1. /\ doc'[u] = d /\ listed'[u] = l
      /\ \A v \in Upstreams \ {u} : doc'[v] = doc[v] /\ listed'[v] = listed[v]
  BY DEF Typed
<1>2. There(u).map = doc[u] /\ There(u).held = listed[u]
  BY StateIs DEF There
<1> QED
  BY <1>1, <1>2 DEF There

LEMMA CreateKeeps ==
  ASSUME Inv, NEW u \in Upstreams, NEW id \in IDs, NEW parent \in Parents,
         UpCreate(u, id, parent), UNCHANGED <<sessionVars, mergedVars>>
  PROVE  Inv'
<1> DEFINE m == Creation(id, parent)
           d == Put(doc[u], id, parent)
           l == listed[u]
           i == issued[u] \cup {id}
<1>1. /\ Typed /\ Document(doc[u], listed[u], issued[u])
      /\ doc[u] \in Maps /\ listed[u] \in SUBSET Methods /\ issued[u] \in SUBSET IDs
  BY DEF Inv, Documents, Typed
<1>2. /\ id \notin issued[u]
      /\ (id + 1 .. -1) \cup (1 .. id - 1) \subseteq issued[u]
      /\ parent \in DOMAIN doc[u] \cup {NoParent}
      /\ id \in Methods => parent = NoParent
      /\ Tell(u, m)
      /\ issued' = [issued EXCEPT ![u] = i]
      /\ doc' = [doc EXCEPT ![u] = d]
      /\ listed' = [listed EXCEPT ![u] = l]
      /\ UNCHANGED conn
  BY <1>1 DEF UpCreate, Creation, Typed
<1>3. m \in Messages
  BY MessagesAre
<1>4. /\ There(u)' = State(d, l)
      /\ \A v \in Upstreams \ {u} : There(v)' = There(v)
      /\ There(u).map = doc[u] /\ There(u).held = listed[u]
  BY <1>1, <1>2, ThereIs
<1>5. m.kind = "create" /\ m.id = id /\ m.parent = parent
  BY DEF Creation
<1>6. d \in Maps
  BY <1>1, MapsKept
<1>7. /\ DOMAIN d = DOMAIN doc[u] \cup {id}
      /\ d[id] = parent
      /\ \A y \in DOMAIN doc[u] : y # id => d[y] = doc[u][y]
  BY DEF Put
<1> HIDE DEF m, d
<1>8. Step(There(u), m) = State(Put(doc[u], id, parent), listed[u])
  <2>1. m.kind \in {"create", "patch"}
    BY <1>5
  <2>2. Step(There(u), m) = State(Put(There(u).map, m.id, m.parent), There(u).held)
    BY <2>1, StepIs
  <2> QED
    BY <1>4, <1>5, <2>2
<1>9. Fits(There(u), m)
  BY <1>2, <1>4, <1>5 DEF Fits
<1>10. Told(u, m)
  BY <1>2, <1>4, <1>8 DEF Told, d
<1>11. \A e \in Entities \cap issued[u] : id \in Entities => e < id
  <2>1. SUFFICES ASSUME NEW e \in Entities \cap issued[u], id \in Entities
                 PROVE  e < id
    OBVIOUS
  <2>2. ASSUME id < e PROVE FALSE
    BY <1>1, <1>2, <2>1, <2>2 DEF Document
  <2>3. e # id /\ e \in Int /\ id \in Int
    BY <1>2, <2>1, Signs
  <2> QED
    BY <2>2, <2>3
<1>12. Document(d, l, i)
  <2>1. DOMAIN d \subseteq i
    BY <1>1, <1>7 DEF Document
  <2>2. ASSUME NEW x \in DOMAIN d
        PROVE  /\ d[x] \in (DOMAIN d \cap Entities) \cup {NoParent}
               /\ x \in Methods => d[x] = NoParent
               /\ ParentsFirst /\ x \in Entities => d[x] < x
    <3>1. CASE x = id
      <4>1. parent \in Entities \cup {NoParent}
        BY Signs
      <4>2. d[id] \in (DOMAIN d \cap Entities) \cup {NoParent}
        BY <1>2, <1>7, <4>1
      <4>3. ASSUME id \in Entities
            PROVE  parent < id
        <5>1. CASE parent = NoParent
          BY <4>3, <5>1, Signs DEF NoParent
        <5>2. CASE parent # NoParent
          <6>1. parent \in Entities \cap issued[u]
            BY <1>1, <1>2, <4>1, <5>2 DEF Document
          <6> QED
            BY <1>11, <4>3, <6>1
        <5> QED
          BY <5>1, <5>2
      <4> QED
        BY <1>2, <1>7, <3>1, <4>2, <4>3
    <3>2. CASE x # id
      <4>1. x \in DOMAIN doc[u] /\ d[x] = doc[u][x]
        BY <1>7, <3>2
      <4> QED
        BY <1>1, <1>7, <4>1 DEF Document
    <3> QED
      BY <3>1, <3>2
  <2>3. ASSUME NEW e \in i \cap Entities, NEW f \in Entities, f < e
        PROVE  f \in i
    <3>1. CASE e = id
      <4>1. f \in 1 .. id - 1
        BY <2>3, <3>1, MergeConstants DEF Entities
      <4> QED
        BY <1>2, <4>1
    <3>2. CASE e # id
      <4>1. e \in issued[u] \cap Entities
        BY <2>3, <3>2
      <4> QED
        BY <1>1, <2>3, <4>1 DEF Document
    <3> QED
      BY <3>1, <3>2
  <2>4. l \subseteq DOMAIN d \cap Methods
    BY <1>1, <1>7 DEF Document
  <2> HIDE DEF i, l
  <2> QED
    BY <2>1, <2>2, <2>3, <2>4 DEF Document
<1>13. i \in SUBSET IDs /\ l \in SUBSET Methods
  BY <1>1
<1> HIDE DEF i, l
<1> QED
  BY <1>2, <1>3, <1>6, <1>9, <1>10, <1>12, <1>13, UpstreamKeeps

LEMMA PatchKeeps ==
  ASSUME Inv, NEW u \in Upstreams, NEW id \in IDs, NEW parent \in Parents,
         UpPatch(u, id, parent), UNCHANGED <<sessionVars, mergedVars>>
  PROVE  Inv'
<1> DEFINE m == Patch(id, parent)
           d == Put(doc[u], id, parent)
           l == listed[u]
           i == issued[u]
<1>1. /\ Typed /\ Document(doc[u], listed[u], issued[u])
      /\ doc[u] \in Maps /\ listed[u] \in SUBSET Methods /\ issued[u] \in SUBSET IDs
  BY DEF Inv, Documents, Typed
<1>2. /\ {id, parent} \subseteq DOMAIN doc[u] \cap Entities
      /\ id # parent
      /\ ParentsFirst => parent < id
      /\ Tell(u, m)
      /\ doc' = [doc EXCEPT ![u][id] = parent]
      /\ UNCHANGED <<listed, issued, conn>>
  BY DEF UpPatch, Patch
<1>3. doc' = [doc EXCEPT ![u] = d]
  <2>1. DOMAIN doc[u] \cup {id} = DOMAIN doc[u]
    BY <1>2
  <2>2. doc[u] = [y \in DOMAIN doc[u] |-> doc[u][y]]
    BY <1>1, MapsAre
  <2>3. [doc[u] EXCEPT ![id] = parent] = d
    BY <2>1, <2>2 DEF Put
  <2> QED
    BY <1>2, <2>3
<1>4. listed' = [listed EXCEPT ![u] = l] /\ issued' = [issued EXCEPT ![u] = i]
  BY <1>1, <1>2 DEF Typed
<1>5. m \in Messages /\ m.kind = "patch" /\ m.id = id /\ m.parent = parent
  BY MessagesAre DEF Patch
<1>6. /\ DOMAIN d = DOMAIN doc[u]
      /\ d[id] = parent
      /\ \A y \in DOMAIN doc[u] : y # id => d[y] = doc[u][y]
  BY <1>2 DEF Put
<1>7. d \in Maps
  BY <1>1, MapsKept
<1> HIDE DEF m, d
<1>8. /\ There(u)' = State(d, l)
      /\ \A v \in Upstreams \ {u} : There(v)' = There(v)
      /\ There(u).map = doc[u] /\ There(u).held = listed[u]
  BY <1>1, <1>3, <1>4, ThereIs
<1>9. Step(There(u), m) = State(d, l)
  <2>1. m.kind \in {"create", "patch"}
    BY <1>5
  <2>2. Step(There(u), m) = State(Put(There(u).map, m.id, m.parent), There(u).held)
    BY <2>1, StepIs
  <2> QED
    BY <1>5, <1>8, <2>2 DEF d
<1>10. Fits(There(u), m)
  BY <1>2, <1>5, <1>8 DEF Fits
<1>11. Told(u, m)
  BY <1>2, <1>8, <1>9 DEF Told
<1>12. Document(d, l, i)
  <2>1. ASSUME NEW x \in DOMAIN d
        PROVE  /\ d[x] \in (DOMAIN d \cap Entities) \cup {NoParent}
               /\ x \in Methods => d[x] = NoParent
               /\ ParentsFirst /\ x \in Entities => d[x] < x
    <3>1. CASE x = id
      <4>1. id \notin Methods
        BY <1>2, Signs
      <4> QED
        BY <1>2, <1>6, <3>1, <4>1
    <3>2. CASE x # id
      BY <1>1, <1>6, <3>2 DEF Document
    <3> QED
      BY <3>1, <3>2
  <2> QED
    BY <1>1, <1>6, <2>1 DEF Document
<1>13. i \in SUBSET IDs /\ l \in SUBSET Methods
  BY <1>1
<1> HIDE DEF i, l
<1> QED
  BY <1>3, <1>4, <1>5, <1>7, <1>10, <1>11, <1>12, <1>13, UpstreamKeeps

LEMMA DeleteKeeps ==
  ASSUME Inv, NEW u \in Upstreams, NEW id \in IDs,
         UpDelete(u, id), UNCHANGED <<sessionVars, mergedVars>>
  PROVE  Inv'
<1> DEFINE m == Deletion(id)
           d == Without(doc[u], id)
           l == listed[u]
           i == issued[u]
<1>1. /\ Typed /\ Document(doc[u], listed[u], issued[u])
      /\ doc[u] \in Maps /\ listed[u] \in SUBSET Methods /\ issued[u] \in SUBSET IDs
  BY DEF Inv, Documents, Typed
<1>2. /\ id \in DOMAIN doc[u] \ listed[u]
      /\ \A e \in DOMAIN doc[u] : doc[u][e] # id
      /\ Tell(u, m)
      /\ doc' = [doc EXCEPT ![u] = d]
      /\ UNCHANGED <<listed, issued, conn>>
  BY DEF UpDelete, Deletion
<1>3. listed' = [listed EXCEPT ![u] = l] /\ issued' = [issued EXCEPT ![u] = i]
  BY <1>1, <1>2 DEF Typed
<1>4. m \in Messages /\ m.kind = "delete" /\ m.id = id
  BY MessagesAre DEF Deletion
<1>5. /\ DOMAIN d = DOMAIN doc[u] \ {id}
      /\ \A y \in DOMAIN d : d[y] = doc[u][y]
  BY DEF Without
<1>6. d \in Maps
  BY <1>1, MapsKept
<1> HIDE DEF m, d
<1>7. /\ There(u)' = State(d, l)
      /\ \A v \in Upstreams \ {u} : There(v)' = There(v)
      /\ There(u).map = doc[u] /\ There(u).held = listed[u]
  BY <1>1, <1>2, <1>3, ThereIs DEF d
<1>8. Step(There(u), m) = State(d, l)
  BY <1>4, <1>7, StepIs DEF d
<1>9. Fits(There(u), m)
  BY <1>2, <1>4, <1>7 DEF Fits
<1>10. Told(u, m)
  BY <1>2, <1>7, <1>8 DEF Told
<1>11. Document(d, l, i)
  BY <1>1, <1>2, <1>5 DEF Document
<1>12. i \in SUBSET IDs /\ l \in SUBSET Methods
  BY <1>1
<1> HIDE DEF i, l
<1> QED
  BY <1>2, <1>3, <1>4, <1>6, <1>9, <1>10, <1>11, <1>12, UpstreamKeeps DEF d

LEMMA DocumentKeeps ==
  ASSUME Inv, NEW u \in Upstreams, NEW methods \in SUBSET Methods,
         UpDocument(u, methods), UNCHANGED <<sessionVars, mergedVars>>
  PROVE  Inv'
<1> DEFINE m == Listed(methods)
           d == doc[u]
           i == issued[u]
<1>1. /\ Typed /\ Document(doc[u], listed[u], issued[u])
      /\ doc[u] \in Maps /\ issued[u] \in SUBSET IDs
  BY DEF Inv, Documents, Typed
<1>2. /\ methods \subseteq DOMAIN doc[u] \cap Methods
      /\ Tell(u, m)
      /\ listed' = [listed EXCEPT ![u] = methods]
      /\ UNCHANGED <<doc, issued, conn>>
  BY DEF UpDocument, Listed
<1>3. doc' = [doc EXCEPT ![u] = d] /\ issued' = [issued EXCEPT ![u] = i]
  BY <1>1, <1>2 DEF Typed
<1>4. m \in Messages /\ m.kind = "document" /\ m.methods = methods
  BY MessagesAre DEF Listed
<1> HIDE DEF m
<1>5. /\ There(u)' = State(d, methods)
      /\ \A v \in Upstreams \ {u} : There(v)' = There(v)
      /\ There(u).map = doc[u]
  BY <1>1, <1>2, <1>3, ThereIs
<1>6. Step(There(u), m) = State(d, methods)
  BY <1>4, <1>5, StepIs
<1>7. Fits(There(u), m)
  BY <1>2, <1>4, <1>5 DEF Fits
<1>8. Told(u, m)
  BY <1>2, <1>5, <1>6 DEF Told
<1>9. Document(d, methods, i)
  BY <1>1, <1>2 DEF Document
<1> QED
  BY <1>1, <1>2, <1>3, <1>4, <1>7, <1>8, <1>9, UpstreamKeeps

LEMMA SignalKeeps ==
  ASSUME Inv, NEW u \in Upstreams,
         UpSignal(u), UNCHANGED <<sessionVars, mergedVars>>
  PROVE  Inv'
<1> DEFINE m == Mark("signal")
           d == doc[u]
           l == listed[u]
           i == issued[u]
<1>1. /\ Typed /\ Document(d, l, i)
      /\ d \in Maps /\ l \in SUBSET Methods /\ i \in SUBSET IDs
  BY DEF Inv, Documents, Typed
<1>2. Tell(u, m) /\ UNCHANGED <<doc, listed, issued, conn>>
  BY DEF UpSignal, Mark
<1>3. /\ doc' = [doc EXCEPT ![u] = d]
      /\ listed' = [listed EXCEPT ![u] = l]
      /\ issued' = [issued EXCEPT ![u] = i]
  BY <1>1, <1>2 DEF Typed
<1>4. m \in Messages /\ m.kind = "signal"
  BY MessagesAre DEF Mark
<1> HIDE DEF m
<1>5. \A v \in Upstreams : There(v)' = There(v)
  BY <1>2 DEF There
<1>6. Step(There(u), m) = There(u)
  BY <1>4, StepIs
<1>7. Fits(There(u), m)
  BY <1>4 DEF Fits
<1>8. Told(u, m)
  BY <1>2, <1>5, <1>6 DEF Told
<1> HIDE DEF d, l, i
<1> QED
  BY <1>1, <1>3, <1>4, <1>7, <1>8, UpstreamKeeps

LEMMA ResetKeeps ==
  ASSUME Inv, NEW u \in Upstreams,
         UpReset(u), UNCHANGED <<sessionVars, mergedVars>>
  PROVE  Inv'
<1> DEFINE m == Mark("reset")
           i == issued[u]
           none == {}
<1>1. /\ Typed /\ Document(doc[u], listed[u], i) /\ i \in SUBSET IDs
  BY DEF Inv, Documents, Typed
<1>2. /\ Tell(u, m)
      /\ doc' = [doc EXCEPT ![u] = Empty]
      /\ listed' = [listed EXCEPT ![u] = none]
      /\ UNCHANGED <<issued, conn>>
  BY DEF UpReset, Mark
<1>3. issued' = [issued EXCEPT ![u] = i]
  BY <1>1, <1>2 DEF Typed
<1>4. m \in Messages /\ m.kind = "reset"
  BY MessagesAre DEF Mark
<1> HIDE DEF m
<1>5. /\ There(u)' = State(Empty, none)
      /\ \A v \in Upstreams \ {u} : There(v)' = There(v)
  BY <1>1, <1>2, ThereIs
<1>6. Step(There(u), m) = State(Empty, none)
  BY <1>4, StepIs
<1>7. Fits(There(u), m)
  BY <1>4 DEF Fits
<1>8. Told(u, m)
  BY <1>2, <1>5, <1>6 DEF Told
<1>9. Empty \in Maps /\ none \in SUBSET Methods
  BY EmptyIs
<1>10. Document(Empty, none, i)
  BY <1>1, EmptyIs DEF Document
<1> HIDE DEF none, i
<1> QED
  BY <1>1, <1>2, <1>3, <1>4, <1>7, <1>8, <1>9, <1>10, UpstreamKeeps

(* The connection is lost. *)
LEMMA LoseKeeps ==
  ASSUME Inv, NEW u \in Upstreams,
         Lose(u), UNCHANGED <<sessionVars, mergedVars>>
  PROVE  Inv'
<1> DEFINE m == Mark("closed")
           w == wire[u]
<1>1. Typed /\ Documents /\ MergedTyped
  BY DEF Inv
<1>2. /\ conn' = [conn EXCEPT ![u] = "over"]
      /\ UNCHANGED <<doc, listed, issued, changes, calm, dump>>
  BY DEF Lose, documentVars
<1>3. PICK k \in 0 .. Len(w) :
        wire' = [wire EXCEPT ![u] = Append(SubSeq(w, 1, k), m)]
  BY DEF Lose, Mark
<1> DEFINE s == SubSeq(w, 1, k)
<1>4. m \in Messages /\ m.kind = "closed"
  BY MessagesAre DEF Mark
<1>5. w \in Seq(Messages)
  BY <1>1 DEF Typed
<1>6. s \in Seq(Messages)
  BY <1>5
<1> HIDE DEF m, w
<1>7. /\ conn'[u] = "over" /\ wire'[u] = Append(s, m)
      /\ \A v \in Upstreams \ {u} : conn'[v] = conn[v] /\ wire'[v] = wire[v]
  BY <1>1, <1>2, <1>3 DEF Typed
<1>8. \A v \in Upstreams :
        /\ worker'[v] = worker[v]
        /\ delegates'[v] = delegates[v] /\ docHeld'[v] = docHeld[v]
        /\ Here(v)' = Here(v) /\ There(v)' = There(v)
  BY <1>2 DEF sessionVars, mergedVars, Here, There
<1> HIDE DEF s
<1>9. Append(s, m) \in Seq(Messages)
  BY <1>4, <1>6
<1>10. Append(s, m) # <<>> /\ Append(s, m)[Len(Append(s, m))] = m
  BY <1>4, <1>6
<1>11. Typed'
  <2>1. conn' \in [Upstreams -> {"idle", "subscribed", "dumped", "open", "over"}]
    BY <1>1, <1>2 DEF Typed
  <2>2. wire' \in [Upstreams -> Seq(Messages)]
    BY <1>1, <1>3, <1>9 DEF Typed, s
  <2> QED
    BY <1>1, <1>2, <2>1, <2>2 DEF Typed, sessionVars, mergedVars
<1>12. Documents'
  BY <1>1, <1>2 DEF Documents, Document
<1>13. MergedTyped'
  BY <1>1 DEF MergedTyped, Scope, sessionVars, mergedVars
<1>14. ASSUME Sessions
       PROVE  Session(u)'
  <2>1. Session(u) /\ (worker'[u] # "on" => delegates'[u] = {} /\ docHeld'[u] = {})
    BY <1>8, <1>14 DEF Sessions, Session
  <2>2. ASSUME worker'[u] = "on"
        PROVE  \E t \in States : Led(Here(u)', wire'[u], t)
    <3>1. PICK t \in States : Led(Here(u), w, t)
      BY <1>8, <2>1, <2>2 DEF Session, w
    <3>2. PICK r \in States : Led(Here(u), s, r)
      BY <1>5, <3>1, LedPrefix DEF s
    <3>3. Fits(r, m) /\ Step(r, m) = r
      BY <1>4, StepIs DEF Fits
    <3>4. Led(Here(u), Append(s, m), Step(r, m))
      BY <1>4, <1>6, <3>2, <3>3, LedAppend
    <3> QED
      BY <1>7, <1>8, <3>2, <3>3, <3>4
  <2> QED
    BY <1>4, <1>7, <1>10, <2>1, <2>2 DEF Session
<1>15. ASSUME Sessions, NEW v \in Upstreams \ {u}
       PROVE  Session(v)'
  <2>1. Session(v) /\ dump'[v] = dump[v]
    BY <1>2, <1>15 DEF Sessions
  <2> QED
    BY <1>7, <1>8, <2>1, SessionKept
<1>16. ASSUME AllCalm'
       PROVE  (MergedSound /\ Sessions)'
  <2>1. MergedSound /\ Sessions
    BY <1>2, <1>16 DEF Inv, AllCalm
  <2>2. MergedSound'
    BY <2>1 DEF MergedSound, Sound, Owned, Made, sessionVars, mergedVars
  <2> QED
    BY <1>14, <1>15, <2>1, <2>2 DEF Sessions
<1> QED
  BY <1>11, <1>12, <1>13, <1>16 DEF Inv

LEMMA UpstreamStep ==
  ASSUME Inv, NEW u \in Upstreams, Upstream(u)
  PROVE  Inv'
<1>1. UNCHANGED <<sessionVars, mergedVars>>
  BY DEF Upstream
<1>2. ASSUME NEW id \in IDs, NEW p \in Parents, UpCreate(u, id, p) PROVE Inv'
  BY <1>1, <1>2, CreateKeeps
<1>3. ASSUME NEW id \in IDs, NEW p \in Parents, UpPatch(u, id, p) PROVE Inv'
  BY <1>1, <1>3, PatchKeeps
<1>4. ASSUME NEW id \in IDs, UpDelete(u, id) PROVE Inv'
  BY <1>1, <1>4, DeleteKeeps
<1>5. ASSUME NEW ms \in SUBSET Methods, UpDocument(u, ms) PROVE Inv'
  BY <1>1, <1>5, DocumentKeeps
<1>6. UpSignal(u) => Inv'
  BY <1>1, SignalKeeps
<1>7. UpReset(u) => Inv'
  BY <1>1, ResetKeeps
<1>8. Lose(u) => Inv'
  BY <1>1, LoseKeeps
<1> QED
  BY <1>2, <1>3, <1>4, <1>5, <1>6, <1>7, <1>8 DEF Upstream

(* What a step of a session that connects leaves alone. *)
LEMMA JoinKeeps ==
  ASSUME Inv, NEW u \in Upstreams,
         UNCHANGED <<documentVars, calm, delegates, docHeld, mergedVars>>
  PROVE  /\ Documents' /\ MergedTyped'
         /\ AllCalm' => AllCalm /\ MergedSound'
         /\ \A v \in Upstreams : /\ delegates'[v] = delegates[v]
                                 /\ docHeld'[v] = docHeld[v]
                                 /\ Here(v)' = Here(v) /\ There(v)' = There(v)
<1>1. UNCHANGED <<doc, listed, issued, changes, calm, delegates, docHeld,
                  merged, comm, poisoned>>
  BY DEF documentVars, mergedVars
<1>2. Documents' /\ MergedTyped'
  BY <1>1 DEF Inv, Documents, Document, MergedTyped, Scope
<1>3. AllCalm' => AllCalm /\ MergedSound'
  BY <1>1 DEF Inv, AllCalm, MergedSound, Sound, Owned, Made
<1> QED
  BY <1>1, <1>2, <1>3 DEF Here, There

(* A session starts. *)
LEMMA MakeClientStep ==
  ASSUME Inv, NEW u \in Upstreams, MakeClient(u)
  PROVE  Inv'
<1>1. Typed
  BY DEF Inv
<1>2. /\ conn[u] = "idle"
      /\ conn' = [conn EXCEPT ![u] = "subscribed"]
      /\ worker' = [worker EXCEPT ![u] = "on"]
      /\ UNCHANGED <<wire, dump>>
      /\ UNCHANGED <<documentVars, calm, delegates, docHeld, mergedVars>>
  BY DEF MakeClient
<1>3. /\ Documents' /\ MergedTyped'
      /\ AllCalm' => AllCalm /\ MergedSound'
      /\ \A v \in Upstreams : /\ delegates'[v] = delegates[v]
                              /\ docHeld'[v] = docHeld[v]
                              /\ Here(v)' = Here(v) /\ There(v)' = There(v)
  BY <1>2, JoinKeeps
<1>4. /\ conn'[u] = "subscribed" /\ worker'[u] = "on"
      /\ \A v \in Upstreams \ {u} : conn'[v] = conn[v] /\ worker'[v] = worker[v]
  BY <1>1, <1>2 DEF Typed
<1>5. Typed'
  BY <1>1, <1>2 DEF Typed, documentVars, mergedVars
<1>6. ASSUME AllCalm'
      PROVE  Sessions'
  <2>1. Sessions /\ Session(u)
    BY <1>3, <1>6 DEF Inv, Sessions
  <2>2. Session(u)'
    <3>1. wire[u] = <<>> /\ delegates[u] = {} /\ docHeld[u] = {}
      BY <1>2, <2>1 DEF Session
    <3>2. Here(u) = State(Empty, {})
      BY <3>1 DEF Here, Empty
    <3>3. State(Empty, {}) \in States
      BY EmptyIs, StateIs
    <3>4. Led(Here(u), <<>>, Here(u))
      BY <3>2, <3>3, LedNowhere
    <3> QED
      BY <1>2, <1>3, <1>4, <3>1, <3>2, <3>3, <3>4 DEF Session
  <2>3. ASSUME NEW v \in Upstreams \ {u}
        PROVE  Session(v)'
    <3>1. Session(v) /\ wire'[v] = wire[v] /\ dump'[v] = dump[v]
      BY <1>2, <2>1 DEF Sessions
    <3> QED
      BY <1>3, <1>4, <3>1, SessionKept
  <2> QED
    BY <2>2, <2>3 DEF Sessions
<1> QED
  BY <1>3, <1>5, <1>6 DEF Inv

(* The upstream writes the dump. *)
LEMMA TakeDumpStep ==
  ASSUME Inv, NEW u \in Upstreams, TakeDump(u)
  PROVE  Inv'
<1> DEFINE w == Dump(u)
<1>1. Typed /\ Documents
  BY DEF Inv
<1>2. /\ conn[u] = "subscribed"
      /\ conn' = [conn EXCEPT ![u] = "dumped"]
      /\ dump' = [dump EXCEPT ![u] = w]
      /\ UNCHANGED <<wire, worker>>
      /\ UNCHANGED <<documentVars, calm, delegates, docHeld, mergedVars>>
  BY DEF TakeDump, sessionVars
<1>3. w \in Seq(Messages) /\ Led(State(Empty, {}), w, There(u))
  BY <1>1, DumpLeads
<1> HIDE DEF w
<1>4. /\ Documents' /\ MergedTyped'
      /\ AllCalm' => AllCalm /\ MergedSound'
      /\ \A v \in Upstreams : /\ delegates'[v] = delegates[v]
                              /\ docHeld'[v] = docHeld[v]
                              /\ Here(v)' = Here(v) /\ There(v)' = There(v)
  BY <1>2, JoinKeeps
<1>5. /\ conn'[u] = "dumped" /\ dump'[u] = w
      /\ \A v \in Upstreams \ {u} : conn'[v] = conn[v] /\ dump'[v] = dump[v]
  BY <1>1, <1>2 DEF Typed
<1>6. Typed'
  BY <1>1, <1>2, <1>3 DEF Typed, documentVars, mergedVars
<1>7. ASSUME AllCalm'
      PROVE  Sessions'
  <2>1. Sessions /\ Session(u)
    BY <1>4, <1>7 DEF Inv, Sessions
  <2>2. Session(u)'
    BY <1>2, <1>3, <1>4, <1>5, <2>1 DEF Session
  <2>3. ASSUME NEW v \in Upstreams \ {u}
        PROVE  Session(v)'
    <3>1. Session(v) /\ wire'[v] = wire[v] /\ worker'[v] = worker[v]
      BY <1>2, <2>1 DEF Sessions
    <3> QED
      BY <1>4, <1>5, <3>1, SessionKept
  <2> QED
    BY <2>2, <2>3 DEF Sessions
<1> QED
  BY <1>4, <1>6, <1>7 DEF Inv

(* A sequence that is put into another. *)
LEMMA Inserted ==
  ASSUME NEW w \in Seq(Messages), NEW d \in Seq(Messages), NEW k \in 0 .. Len(w)
  PROVE  /\ SubSeq(w, 1, k) \o d \o SubSeq(w, k + 1, Len(w)) \in Seq(Messages)
         /\ w = <<>> => SubSeq(w, 1, k) \o d \o SubSeq(w, k + 1, Len(w)) = d
<1> DEFINE a == SubSeq(w, 1, k)
           b == SubSeq(w, k + 1, Len(w))
<1>1. a \in Seq(Messages) /\ b \in Seq(Messages)
  OBVIOUS
<1>2. a \o d \in Seq(Messages)
  BY <1>1
<1>3. (a \o d) \o b \in Seq(Messages)
  BY <1>1, <1>2
<1>4. ASSUME w = <<>>
      PROVE  a = <<>> /\ b = <<>>
  <2>1. Len(w) = 0 /\ k = 0
    BY <1>4
  <2>2. Len(a) = 0 /\ Len(b) = 0
    BY <2>1
  <2> QED
    BY <1>1, <2>2
<1>5. <<>> \o d = d /\ d \o <<>> = d
  OBVIOUS
<1> HIDE DEF a, b
<1>6. w = <<>> => (a \o d) \o b = d
  BY <1>4, <1>5
<1> QED
  BY <1>3, <1>6 DEF a, b

(* The dump comes among the messages to the client. *)
LEMMA SendDumpStep ==
  ASSUME Inv, NEW u \in Upstreams, SendDump(u)
  PROVE  Inv'
<1>1. Typed /\ Documents
  BY DEF Inv
<1>2. /\ conn[u] = "dumped"
      /\ conn' = [conn EXCEPT ![u] = "open"]
      /\ dump' = [dump EXCEPT ![u] = <<>>]
      /\ UNCHANGED worker
      /\ UNCHANGED <<documentVars, calm, delegates, docHeld, mergedVars>>
  BY DEF SendDump, sessionVars
<1>3. PICK k \in 0 .. Len(wire[u]) :
        wire' = [wire EXCEPT ![u] =
                   SubSeq(@, 1, k) \o dump[u] \o SubSeq(@, k + 1, Len(@))]
  BY DEF SendDump
<1> DEFINE w == SubSeq(wire[u], 1, k) \o dump[u]
                  \o SubSeq(wire[u], k + 1, Len(wire[u]))
<1>4. wire[u] \in Seq(Messages) /\ dump[u] \in Seq(Messages)
  BY <1>1 DEF Typed
<1>5. w \in Seq(Messages) /\ (wire[u] = <<>> => w = dump[u])
  BY <1>4, Inserted
<1>6. wire' = [wire EXCEPT ![u] = w]
  BY <1>3
<1> HIDE DEF w
<1>7. /\ Documents' /\ MergedTyped'
      /\ AllCalm' => AllCalm /\ MergedSound'
      /\ \A v \in Upstreams : /\ delegates'[v] = delegates[v]
                              /\ docHeld'[v] = docHeld[v]
                              /\ Here(v)' = Here(v) /\ There(v)' = There(v)
  BY <1>2, JoinKeeps
<1>8. /\ conn'[u] = "open" /\ wire'[u] = w
      /\ \A v \in Upstreams \ {u} :
           conn'[v] = conn[v] /\ dump'[v] = dump[v] /\ wire'[v] = wire[v]
  BY <1>1, <1>2, <1>6 DEF Typed
<1>9. Typed'
  <2>1. <<>> \in Seq(Messages)
    OBVIOUS
  <2> QED
    BY <1>1, <1>2, <1>5, <1>6, <2>1 DEF Typed, documentVars, mergedVars
<1>10. ASSUME AllCalm'
       PROVE  Sessions'
  <2>1. Sessions /\ Session(u)
    BY <1>7, <1>10 DEF Inv, Sessions
  <2>2. Session(u)'
    <3>1. /\ wire[u] = <<>> /\ delegates[u] = {} /\ docHeld[u] = {}
          /\ Led(State(Empty, {}), dump[u], There(u))
      BY <1>2, <2>1 DEF Session
    <3>2. Here(u) = State(Empty, {}) /\ w = dump[u]
      BY <1>5, <3>1 DEF Here, Empty
    <3>3. There(u) \in States
      BY <1>1, StateIs DEF There, Typed
    <3> QED
      BY <1>2, <1>7, <1>8, <3>1, <3>2, <3>3 DEF Session
  <2>3. ASSUME NEW v \in Upstreams \ {u}
        PROVE  Session(v)'
    <3>1. Session(v) /\ worker'[v] = worker[v]
      BY <1>2, <2>1 DEF Sessions
    <3> QED
      BY <1>7, <1>8, <3>1, SessionKept
  <2> QED
    BY <2>2, <2>3 DEF Sessions
<1> QED
  BY <1>7, <1>9, <1>10 DEF Inv

LEMMA InitInv == Init => Inv
<1> SUFFICES ASSUME Init PROVE Inv
  OBVIOUS
<1>1. Empty \in Maps /\ DOMAIN Empty = {}
  BY EmptyIs
<1>2. Typed
  <2>1. MaxChanges \in Nat
    BY MergeConstants
  <2>2. /\ wire \in [Upstreams -> Seq(Messages)]
        /\ dump \in [Upstreams -> Seq(Messages)]
        /\ calm \in [Upstreams -> BOOLEAN]
    BY DEF Init
  <2>3. doc \in [Upstreams -> Maps] /\ changes \in 0 .. MaxChanges
    BY <1>1, <2>1 DEF Init
  <2>4. /\ listed \in [Upstreams -> SUBSET Methods]
        /\ issued \in [Upstreams -> SUBSET IDs]
        /\ delegates \in [Upstreams -> SUBSET IDs]
        /\ docHeld \in [Upstreams -> SUBSET Methods]
    BY DEF Init
  <2>5. /\ conn \in [Upstreams -> {"idle", "subscribed", "dumped", "open", "over"}]
        /\ worker \in [Upstreams -> {"none", "on", "ended", "panicked"}]
        /\ poisoned \in BOOLEAN
    BY DEF Init
  <2> QED
    BY <2>2, <2>3, <2>4, <2>5 DEF Typed
<1>3. Documents
  BY <1>1 DEF Init, Documents, Document
<1>4. MergedSound
  <2>1. Sound(merged, delegates, docHeld, comm)
    BY <1>1 DEF Init, Sound
  <2>2. \A u \in Upstreams : Made(u, delegates[u]) = {}
    BY DEF Init, Made
  <2> QED
    BY <1>1, <2>1, <2>2 DEF Init, MergedSound, Owned
<1>5. Sessions
  BY DEF Init, Sessions, Session
<1>6. MergedTyped
  BY <1>1 DEF Init, MergedTyped, Scope
<1> QED
  BY <1>2, <1>3, <1>4, <1>5, <1>6 DEF Inv

LEMMA InvStep == Inv /\ [Next]_vars => Inv'
<1> SUFFICES ASSUME Inv, [Next]_vars PROVE Inv'
  OBVIOUS
<1>1. ASSUME NEW u \in Upstreams, Upstream(u) PROVE Inv'
  BY <1>1, UpstreamStep
<1>2. ASSUME NEW u \in Upstreams, Join(u) PROVE Inv'
  BY <1>2, MakeClientStep, TakeDumpStep, SendDumpStep DEF Join
<1>3. ASSUME NEW u \in Upstreams, Worker(u) PROVE Inv'
  BY <1>3, WorkerStep
<1>4. CASE UNCHANGED vars
  <2>1. UNCHANGED <<doc, listed, issued, changes, conn, calm, dump, wire, worker,
                    delegates, docHeld, merged, comm, poisoned>>
    BY <1>4 DEF vars, upstreamVars, documentVars, sessionVars, mergedVars
  <2>2. Typed' /\ MergedTyped'
    BY <2>1 DEF Inv, Typed, MergedTyped, Scope
  <2>3. Documents'
    BY <2>1 DEF Inv, Documents, Document
  <2>4. AllCalm' => AllCalm /\ MergedSound'
    BY <2>1 DEF Inv, AllCalm, MergedSound, Sound, Owned, Made
  <2>5. ASSUME AllCalm', NEW v \in Upstreams PROVE Session(v)'
    <3>1. Session(v)
      BY <2>4, <2>5 DEF Inv, Sessions
    <3>2. Here(v)' = Here(v) /\ There(v)' = There(v)
      BY <2>1 DEF Here, There
    <3> QED
      BY <2>1, <3>1, <3>2, SessionKept
  <2> QED
    BY <2>2, <2>3, <2>4, <2>5 DEF Inv, Sessions
<1> QED
  BY <1>1, <1>2, <1>3, <1>4 DEF Next

-----------------------------------------------------------------------------
(* What follows *)

LEMMA InvTypes == Inv => TypeOK
<1> SUFFICES ASSUME Inv PROVE TypeOK
  OBVIOUS
<1>1. Typed /\ Documents /\ MergedTyped
  BY DEF Inv
<1>2. ASSUME NEW u \in Upstreams
      PROVE  /\ DOMAIN doc[u] \subseteq issued[u] /\ Range(doc[u]) \subseteq Parents
             /\ listed[u] \subseteq DOMAIN doc[u] \cap Methods
             /\ \A i \in 1 .. Len(wire[u]) : wire[u][i] \in Messages
             /\ \A i \in 1 .. Len(dump[u]) : dump[u][i] \in Messages
             /\ docHeld[u] \subseteq Methods
             /\ Made(u, delegates[u]) \subseteq DOMAIN merged
  <2>1. doc[u] \in Maps /\ Document(doc[u], listed[u], issued[u])
    BY <1>1 DEF Typed, Documents
  <2>2. \A id \in DOMAIN doc[u] : doc[u][id] \in Parents
    BY <2>1, MapsAre
  <2>3. Range(doc[u]) \subseteq Parents
    BY <2>2 DEF Range
  <2>4. wire[u] \in Seq(Messages) /\ dump[u] \in Seq(Messages)
    BY <1>1 DEF Typed
  <2>5. /\ \A i \in 1 .. Len(wire[u]) : wire[u][i] \in Messages
        /\ \A i \in 1 .. Len(dump[u]) : dump[u][i] \in Messages
    BY <2>4
  <2>6. Made(u, delegates[u]) \subseteq DOMAIN merged
    BY <1>1 DEF Made, MergedTyped, Scope
  <2> QED
    BY <1>1, <2>1, <2>3, <2>5, <2>6 DEF Typed, Document
<1>3. /\ DOMAIN merged \subseteq Upstreams \X IDs
      /\ Range(merged) \subseteq Parents
      /\ comm \subseteq DOMAIN merged
  BY <1>1 DEF MergedTyped, Scope, Range
<1> QED
  BY <1>1, <1>2, <1>3 DEF TypeOK, Typed

(* What the merged server shows of u is what its session's delegates own,  *)
(* and methods that the document lists.                                    *)
LEMMA ShownIs ==
  ASSUME MergedSound, NEW u \in Upstreams
  PROVE  Shown(u) = Made(u, delegates[u]) \cup (comm \cap Shown(u))
<1>1. DOMAIN merged = Owned(delegates, comm)
  BY DEF MergedSound
<1>2. ASSUME NEW c \in Shown(u), c \notin comm
      PROVE  c \in Made(u, delegates[u])
  <2>1. c \in DOMAIN merged /\ c[1] = u
    BY DEF Shown
  <2>2. PICK v \in Upstreams : c \in Made(v, delegates[v])
    BY <1>1, <1>2, <2>1 DEF Owned
  <2>3. c[1] = v
    BY <2>2 DEF Made
  <2> QED
    BY <2>1, <2>2, <2>3
<1>3. ASSUME NEW c \in Made(u, delegates[u])
      PROVE  c \in Shown(u)
  <2>1. c \in DOMAIN merged
    BY <1>1 DEF Owned
  <2>2. c[1] = u
    BY DEF Made
  <2> QED
    BY <2>1, <2>2 DEF Shown
<1> QED
  BY <1>2, <1>3

LEMMA InvMirrors == Inv => (AllCalm => MirrorsConverge)
<1> SUFFICES ASSUME Inv, AllCalm, NEW u \in Upstreams, worker[u] = "on", wire[u] = <<>>,
                    conn[u] = "open"
             PROVE  /\ Shown(u) = Made(u, DOMAIN doc[u]) \cup (comm \cap Shown(u))
                    /\ \A id \in DOMAIN doc[u] : merged[<<u, id>>] = doc[u][id]
  BY DEF MirrorsConverge
<1>1. Typed /\ MergedSound /\ Session(u)
  BY DEF Inv, Sessions
<1>2. Led(Here(u), <<>>, There(u))
  BY <1>1 DEF Session
<1>3. Here(u) = There(u)
  BY <1>2, LedEnd
<1>4. Here(u).map = doc[u]
  BY <1>3, StateIs DEF There
<1>5. /\ DOMAIN Here(u).map = delegates[u]
      /\ \A id \in delegates[u] : Here(u).map[id] = merged[<<u, id>>]
  BY <1>1, HereIs
<1>6. delegates[u] = DOMAIN doc[u]
  BY <1>4, <1>5
<1>7. \A id \in DOMAIN doc[u] : merged[<<u, id>>] = doc[u][id]
  BY <1>4, <1>5
<1> QED
  BY <1>1, <1>6, <1>7, ShownIs

(* No session becomes calm. *)
LEMMA CalmBefore ==
  ASSUME Inv, [Next]_vars, AllCalm'
  PROVE  AllCalm
<1>1. calm \in [Upstreams -> BOOLEAN]
  BY DEF Inv, Typed
<1>2. ASSUME NEW u \in Upstreams, NEW m, Tell(u, m)
      PROVE  AllCalm
  <2>1. calm' = calm \/ calm' = [calm EXCEPT ![u] = FALSE]
    BY <1>2 DEF Tell
  <2> QED
    BY <1>1, <2>1 DEF AllCalm
<1>3. ASSUME calm' = calm PROVE AllCalm
  BY <1>3 DEF AllCalm
<1>4. ASSUME NEW u \in Upstreams, Upstream(u) PROVE AllCalm
  <2>1. CASE Lose(u)
    BY <1>3, <2>1 DEF Lose
  <2>2. CASE ~ Lose(u)
    <3>1. \E m : Tell(u, m)
      BY <1>4, <2>2 DEF Upstream, UpCreate, UpPatch, UpDelete, UpDocument,
           UpSignal, UpReset
    <3> QED
      BY <1>2, <3>1
  <2> QED
    BY <2>1, <2>2
<1>5. ASSUME NEW u \in Upstreams, Join(u) \/ Worker(u) PROVE AllCalm
  BY <1>3, <1>5 DEF Join, MakeClient, TakeDump, SendDump, Worker, upstreamVars
<1>6. CASE UNCHANGED vars
  BY <1>3, <1>6 DEF vars, upstreamVars
<1> QED
  BY <1>4, <1>5, <1>6 DEF Next

(* A step does not poison the mutex when parents are older. *)
LEMMA SurvivesStep ==
  ASSUME ParentsFirst, Inv, MergedSurvives, [Next]_vars
  PROVE  MergedSurvives'
<1> SUFFICES ASSUME AllCalm' PROVE ~ poisoned'
  BY DEF MergedSurvives
<1>1. AllCalm /\ ~ poisoned
  <2>1. AllCalm
    BY CalmBefore
  <2> QED
    BY <2>1 DEF MergedSurvives
<1>2. ASSUME NEW u \in Upstreams, Worker(u)
      PROVE  poisoned' = poisoned
  <2> DEFINE m == Head(wire[u])
  <2>1. Typed /\ MergedSound /\ Session(u)
    BY <1>1 DEF Inv, Sessions
  <2>2. worker[u] = "on" /\ wire[u] # <<>> /\ wire[u] \in Seq(Messages)
    BY <1>2, <2>1 DEF Worker, Typed
  <2>3. PICK t \in States : Led(Here(u), wire[u], t)
    BY <2>1, <2>2 DEF Session
  <2>4. Fits(Here(u), m)
    BY <2>2, <2>3, LedTail
  <2>5. Handles(u, m)
    BY <1>2 DEF Worker, Handles
  <2> HIDE DEF m
  <2>6. DOMAIN Here(u).map = delegates[u]
    BY <2>1, HereIs
  <2>7. CASE HandleCreate(u, m)
    <3>1. Resolves(u, m.parent)
      BY <2>4, <2>6, <2>7 DEF Fits, HandleCreate, Resolves
    <3> QED
      BY <1>1, <2>7, <3>1 DEF HandleCreate, MakeMerged
  <2>8. CASE ~ HandleCreate(u, m)
    BY <2>5, <2>8 DEF Handles, HandlePatch, HandleDelete, HandleDocument,
         HandleSignal, HandleReset, HandleClosed
  <2> QED
    BY <2>7, <2>8
<1>3. ASSUME NEW u \in Upstreams, Upstream(u) \/ Join(u)
      PROVE  poisoned' = poisoned
  BY <1>3 DEF Upstream, Join, MakeClient, TakeDump, SendDump, mergedVars
<1>4. CASE UNCHANGED vars
  BY <1>1, <1>4 DEF vars, mergedVars
<1> QED
  BY <1>1, <1>2, <1>3, <1>4 DEF Next

-----------------------------------------------------------------------------
(* Theorems *)

(* As long as no upstream changes while a session connects, what a session *)
(* shows and the messages under way to it make up the document of its      *)
(* upstream, whatever the upstreams do, and each message fits what the     *)
(* session shows when it comes to it (lib/replay.rs).                      *)
THEOREM MergeInvariant == Spec => []Inv
<1>1. Init => Inv
  BY InitInv
<1>2. Inv /\ [Next]_vars => Inv'
  BY InvStep
<1> QED
  BY <1>1, <1>2, PTL DEF Spec

(* The merged server holds components of the upstreams only, each delegate *)
(* has its component there, and its document lists components it holds.    *)
THEOREM MergeTypes == Spec => []TypeOK
<1>1. Inv => TypeOK
  BY InvTypes
<1> QED
  BY <1>1, MergeInvariant, PTL

(* As long as no upstream changes while a session connects, a session that *)
(* has handled all it was sent mirrors its upstream: the same components   *)
(* with the same parents, and nothing else but methods the merged document *)
(* still lists.                                                            *)
THEOREM SessionsMirror == Spec => [](AllCalm => MirrorsConverge)
<1>1. Inv => (AllCalm => MirrorsConverge)
  BY InvMirrors
<1> QED
  BY <1>1, MergeInvariant, PTL

(* When parents are older than their children and no upstream changes      *)
(* while a session connects, no thread panics with the merged server's     *)
(* state locked.                                                           *)
THEOREM MergedServerSurvives ==
  ASSUME ParentsFirst
  PROVE  Spec => []MergedSurvives
<1>1. Init => MergedSurvives
  BY DEF Init, MergedSurvives
<1>2. Inv /\ MergedSurvives /\ [Next]_vars => MergedSurvives'
  BY SurvivesStep
<1> QED
  BY <1>1, <1>2, MergeInvariant, PTL DEF Spec

(* What the merged server still shows of an upstream whose session has     *)
(* ended or panicked is what the merged document lists, if no upstream     *)
(* changed while a session connected.                                      *)
StoppedAreForgotten ==
  AllCalm => \A u \in Upstreams :
    worker[u] \in {"ended", "panicked"} => Shown(u) \subseteq comm

(* ClientState::clear() and the unwinding of a worker's thread leave no    *)
(* component of its upstream behind but those the merged document lists.   *)
THEOREM StoppedSessionsAreForgotten == Spec => []StoppedAreForgotten
<1>1. Inv => StoppedAreForgotten
  <2> SUFFICES ASSUME Inv, AllCalm, NEW u \in Upstreams,
                      worker[u] \in {"ended", "panicked"}
               PROVE  Shown(u) \subseteq comm
    BY DEF StoppedAreForgotten
  <2>1. MergedSound /\ delegates[u] = {}
    BY DEF Inv, Sessions, Session
  <2>2. Made(u, delegates[u]) = {}
    BY <2>1 DEF Made
  <2>3. Shown(u) = Made(u, delegates[u]) \cup (comm \cap Shown(u))
    BY <2>1, ShownIs
  <2> QED
    BY <2>2, <2>3
<1> QED
  BY <1>1, MergeInvariant, PTL

=============================================================================
