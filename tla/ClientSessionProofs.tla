------------------------ MODULE ClientSessionProofs ------------------------
(***************************************************************************)
(* Proofs about ClientSession, for every set of names and every bound: its *)
(* types, that no message brings the worker down, that names lead to their *)
(* delegates, and that no invocation is lost or answered twice.            *)
(*                                                                         *)
(* The first three are about one sequence, the messages on their way to the*)
(* worker (Stream): what the client has, changed by these messages in their*)
(* order, is what the server has.  The last is about the places where an   *)
(* invocation and its reply can be.                                        *)
(***************************************************************************)
EXTENDS ClientSession, FiniteSetTheorems, TLAPS

-----------------------------------------------------------------------------
(* Sequences of messages.  K gives the names of the components a client    *)
(* knows, D is the domain of K, L gives those that live on the server.     *)

Creates(m) == m.kind = "create"
Deletes(m) == m.kind = "delete"

(* Message m is the end of component x. *)
Ends(m, x) == m.kind = "reset" \/ (m.kind = "delete" /\ m.id = x)

(* No message from the i-th to the k-th of s is the end of x. *)
Lasts(s, i, k, x) == \A j \in i .. k : ~ Ends(s[j], x)

(* Whoever has handled the messages before the k-th has component x. *)
Available(s, D, k, x) ==
  \/ x \in D /\ Lasts(s, 1, k - 1, x)
  \/ \E i \in 1 .. k - 1 :
       Creates(s[i]) /\ s[i].id = x /\ Lasts(s, i + 1, k - 1, x)

(* IDs up to n are issued, and those of P are created for good. *)
Fresh(s, P, n) ==
  /\ P \subseteq 1 .. n
  /\ \A k \in 1 .. Len(s) : Creates(s[k]) => s[k].id \in (1 .. n) \ P
  /\ \A i, k \in 1 .. Len(s) :
       i < k /\ Creates(s[i]) /\ Creates(s[k]) => s[i].id # s[k].id

(* Only components the client has by then are deleted. *)
DeletesKnown(s, D) ==
  \A k \in 1 .. Len(s) : Deletes(s[k]) => Available(s, D, k, s[k].id)

(* In the end the client has what lives on the server ... *)
LiveKnown(s, D, L) == \A x \in DOMAIN L : Available(s, D, Len(s) + 1, x)

(* ... and nothing else, by the same names. *)
LiveNamed(s, K, L) ==
  /\ \A x \in DOMAIN K :
       Lasts(s, 1, Len(s), x) => x \in DOMAIN L /\ L[x] = K[x]
  /\ \A i \in 1 .. Len(s) :
       Creates(s[i]) /\ Lasts(s, i + 1, Len(s), s[i].id) =>
         s[i].id \in DOMAIN L /\ L[s[i].id] = s[i].name

(* A name is given only when the component that had it has ended. *)
NamesFree(s, K) ==
  /\ \A k \in 1 .. Len(s) : \A x \in DOMAIN K :
       Creates(s[k]) /\ s[k].name # NoName /\ K[x] = s[k].name =>
         ~ Lasts(s, 1, k - 1, x)
  /\ \A i, k \in 1 .. Len(s) :
       /\ i < k /\ Creates(s[i]) /\ Creates(s[k])
       /\ s[k].name # NoName /\ s[i].name = s[k].name
       => ~ Lasts(s, i + 1, k - 1, s[i].id)

-----------------------------------------------------------------------------
(* The inductive invariant. *)

(* What the worker will still be given. *)
Reading == incoming \in {"spawned", "on"}
Stream == IF Reading THEN inbox \o wire ELSE inbox

(* The components the client has, the one of a callback included. *)
Here ==
  components \cup (IF calling = NoCallback THEN {} ELSE {calling.id} \ {Document})

Making == calling # NoCallback /\ calling.kind = "make"

NameOf(x) ==
  IF Making /\ x = calling.id THEN calling.name
  ELSE IF x \in DOMAIN revMap THEN revMap[x] ELSE NoName

Known == [x \in Here |-> NameOf(x)]

(* The IDs the client has seen, and remembers. *)
Past == Here \cup mistyped \cup DOMAIN revMap

TaskType ==
  /\ incoming \in {"spawned", "on", "ended", "panicked"}
  /\ forward \in {"on", "closing", "ended", "panicked"}
  /\ worker \in {"on", "ended", "panicked", "misread"}
  /\ incomingStop \in BOOLEAN /\ forwardStop \in BOOLEAN

ServerType ==
  /\ issued \in 0 .. MaxIds
  /\ DOMAIN live \subseteq 1 .. issued
  /\ sent \in 0 .. MaxSends /\ resets \in 0 .. MaxResets
  /\ asked \subseteq Calls
  /\ peer \in {"open", "closing", "over"}

QueueType ==
  /\ wire \in Seq(Frames \cup {SocketError, StreamEnd})
  /\ inbox \in Seq(Frames \cup {Closed})
  /\ output \in Seq(Calls \cup {Close})

ClientType ==
  /\ calling \in Callbacks \cup {NoCallback}
  /\ components \subseteq Ids /\ mistyped \subseteq Ids
  /\ DOMAIN nameMap \subseteq Names /\ Range(nameMap) \subseteq Ids
  /\ DOMAIN revMap \subseteq Ids /\ Range(revMap) \subseteq Names
  /\ DOMAIN subs \subseteq DOMAIN made /\ Range(subs) \subseteq Contexts
  /\ DOMAIN made \subseteq Calls /\ epoch \in Nat

Types == TaskType /\ ServerType /\ QueueType /\ ClientType

(* The delegate of a callback is in no list, a lost one is not either, and *)
(* one that is being made has no name yet. *)
TakenApart ==
  /\ mistyped \cap components = {}
  /\ calling # NoCallback => calling.id \notin components \cup mistyped
  /\ Making => calling.id \notin DOMAIN revMap

(* The stream, seen from the client and from the server. *)
StreamFits ==
  worker = "on" =>
    /\ Fresh(Stream, Past, issued)
    /\ mistyped = {} => DeletesKnown(Stream, Here)
    /\ DistinctNames => NamesFree(Stream, Known)

ServerFits ==
  worker = "on" /\ Reading /\ peer # "over" =>
    /\ mistyped = {} => LiveKnown(Stream, Here, live)
    /\ LiveNamed(Stream, Known, live)

(* The two maps of names, and a name about to be entered. *)
MapsFit ==
  worker = "on" /\ DistinctNames =>
    /\ \A n \in DOMAIN nameMap :
         nameMap[n] \in DOMAIN revMap /\ revMap[nameMap[n]] = n
    /\ Making /\ calling.name # NoName =>
         \A x \in components \cap DOMAIN revMap : revMap[x] # calling.name

IInv ==
  /\ Types /\ TakenApart /\ StreamFits /\ ServerFits
  /\ MapsFit /\ NamesAgree /\ WorkerSurvives

-----------------------------------------------------------------------------
(* Sequences that agree up to a place. *)

(* What is said of the messages before a place does not depend on those    *)
(* after it. *)
LEMMA SameBefore ==
  ASSUME NEW s, NEW t, NEW n \in Nat, \A j \in 1 .. n : t[j] = s[j],
         NEW k \in 1 .. n + 1, NEW x
  PROVE  /\ \A i \in 1 .. n + 1 : Lasts(s, i, k - 1, x) <=> Lasts(t, i, k - 1, x)
         /\ \A D : Available(s, D, k, x) <=> Available(t, D, k, x)
<1>1. \A i \in 1 .. n + 1 : Lasts(s, i, k - 1, x) <=> Lasts(t, i, k - 1, x)
  BY DEF Lasts
<1>2. \A i \in 1 .. k - 1 : t[i] = s[i] /\ i + 1 \in 1 .. n + 1
  OBVIOUS
<1>3. 1 \in 1 .. n + 1
  OBVIOUS
<1> QED
  BY <1>1, <1>2, <1>3 DEF Available

(* A shorter stream, and then messages that create nothing. *)
LEMMA CutFresh ==
  ASSUME NEW s, NEW t, Len(s) \in Nat, Len(t) \in Nat,
         NEW n \in 0 .. Len(s), \A j \in 1 .. n : t[j] = s[j],
         \A j \in n + 1 .. Len(t) : ~ Creates(t[j]),
         NEW P, NEW N, Fresh(s, P, N)
  PROVE  Fresh(t, P, N)
<1>1. \A k \in 1 .. Len(t) : Creates(t[k]) => k \in 1 .. n
  OBVIOUS
<1> QED
  BY <1>1 DEF Fresh

LEMMA CutNames ==
  ASSUME NEW s, NEW t, Len(s) \in Nat, Len(t) \in Nat,
         NEW n \in 0 .. Len(s), \A j \in 1 .. n : t[j] = s[j],
         \A j \in n + 1 .. Len(t) : ~ Creates(t[j]),
         NEW K, NamesFree(s, K)
  PROVE  NamesFree(t, K)
<1>1. \A k \in 1 .. Len(t) : Creates(t[k]) => k \in 1 .. n
  OBVIOUS
<1>n. n \in Nat
  OBVIOUS
<1>s. \A k \in 1 .. n + 1 : \A x :
        \A i \in 1 .. n + 1 : Lasts(s, i, k - 1, x) <=> Lasts(t, i, k - 1, x)
  BY <1>n, SameBefore
<1>2. ASSUME NEW k \in 1 .. Len(t), NEW x \in DOMAIN K,
             Creates(t[k]), t[k].name # NoName, K[x] = t[k].name
      PROVE  ~ Lasts(t, 1, k - 1, x)
  <2>1. k \in 1 .. n /\ t[k] = s[k] /\ k \in 1 .. n + 1 /\ k \in 1 .. Len(s)
        /\ 1 \in 1 .. n + 1
    BY <1>1, <1>2
  <2>2. ~ Lasts(s, 1, k - 1, x)
    BY <1>2, <2>1 DEF NamesFree
  <2> QED
    BY <2>1, <2>2, <1>s
<1>3. ASSUME NEW i \in 1 .. Len(t), NEW k \in 1 .. Len(t), i < k,
             Creates(t[i]), Creates(t[k]), t[k].name # NoName,
             t[i].name = t[k].name
      PROVE  ~ Lasts(t, i + 1, k - 1, t[i].id)
  <2>1. /\ k \in 1 .. n /\ t[k] = s[k] /\ k \in 1 .. n + 1 /\ k \in 1 .. Len(s)
        /\ i \in 1 .. n /\ t[i] = s[i] /\ i + 1 \in 1 .. n + 1
        /\ i \in 1 .. Len(s)
    BY <1>1, <1>3
  <2>2. ~ Lasts(s, i + 1, k - 1, t[i].id)
    BY <1>3, <2>1 DEF NamesFree
  <2> QED
    BY <2>1, <2>2, <1>s
<1> QED
  BY <1>2, <1>3 DEF NamesFree

LEMMA CutDeletes ==
  ASSUME NEW s, NEW t, Len(s) \in Nat, Len(t) \in Nat,
         NEW n \in 0 .. Len(s), \A j \in 1 .. n : t[j] = s[j],
         \A j \in n + 1 .. Len(t) : ~ Deletes(t[j]),
         NEW D, DeletesKnown(s, D)
  PROVE  DeletesKnown(t, D)
<1> SUFFICES ASSUME NEW k \in 1 .. Len(t), Deletes(t[k])
             PROVE  Available(t, D, k, t[k].id)
  BY DEF DeletesKnown
<1>n. n \in Nat
  OBVIOUS
<1>s. \A j \in 1 .. n + 1 : \A x : Available(s, D, j, x) <=> Available(t, D, j, x)
  BY <1>n, SameBefore
<1>1. k \in 1 .. n /\ t[k] = s[k] /\ k \in 1 .. n + 1 /\ k \in 1 .. Len(s)
  OBVIOUS
<1>2. Available(s, D, k, t[k].id)
  BY <1>1 DEF DeletesKnown
<1> QED
  BY <1>1, <1>2, <1>s

(* A longer stream, by messages that create, delete and reset nothing. *)
Inert(m) == m.kind \notin {"create", "delete", "reset"}

LEMMA InertLasts ==
  ASSUME NEW s, NEW t, Len(s) \in Nat, Len(t) \in Nat, Len(s) <= Len(t),
         \A j \in 1 .. Len(s) : t[j] = s[j],
         \A j \in Len(s) + 1 .. Len(t) : Inert(t[j]),
         NEW i \in 1 .. Len(s) + 1, NEW x
  PROVE  Lasts(t, i, Len(t), x) <=> Lasts(s, i, Len(s), x)
<1>1. \A j \in Len(s) + 1 .. Len(t) : ~ Ends(t[j], x)
  BY DEF Inert, Ends
<1> QED
  BY <1>1 DEF Lasts

LEMMA InertLive ==
  ASSUME NEW s, NEW t, Len(s) \in Nat, Len(t) \in Nat, Len(s) <= Len(t),
         \A j \in 1 .. Len(s) : t[j] = s[j],
         \A j \in Len(s) + 1 .. Len(t) : Inert(t[j]),
         NEW K, NEW D, NEW L
  PROVE  /\ LiveKnown(s, D, L) => LiveKnown(t, D, L)
         /\ LiveNamed(s, K, L) => LiveNamed(t, K, L)
<1>0. \A i \in 1 .. Len(s) + 1 : \A x :
        Lasts(t, i, Len(t), x) <=> Lasts(s, i, Len(s), x)
  BY InertLasts
<1>1. ASSUME LiveKnown(s, D, L), NEW x \in DOMAIN L
      PROVE  Available(t, D, Len(t) + 1, x)
  <2>1. Available(s, D, Len(s) + 1, x)
    BY <1>1 DEF LiveKnown
  <2>2. CASE x \in D /\ Lasts(s, 1, Len(s), x)
    <3>1. Lasts(t, 1, Len(t), x)
      BY <2>2, <1>0
    <3> QED
      BY <2>2, <3>1 DEF Available
  <2>3. ASSUME NEW i \in 1 .. Len(s), Creates(s[i]), s[i].id = x,
               Lasts(s, i + 1, Len(s), x)
        PROVE  Available(t, D, Len(t) + 1, x)
    <3>1. Lasts(t, i + 1, Len(t), x) /\ i \in 1 .. Len(t) /\ t[i] = s[i]
      BY <2>3, <1>0
    <3> QED
      BY <2>3, <3>1 DEF Available
  <2> QED
    BY <2>1, <2>2, <2>3 DEF Available
<1>2. ASSUME LiveNamed(s, K, L)
      PROVE  LiveNamed(t, K, L)
  <2>1. \A x \in DOMAIN K :
          Lasts(t, 1, Len(t), x) => x \in DOMAIN L /\ L[x] = K[x]
    BY <1>0, <1>2 DEF LiveNamed
  <2>2. ASSUME NEW i \in 1 .. Len(t), Creates(t[i]),
               Lasts(t, i + 1, Len(t), t[i].id)
        PROVE  t[i].id \in DOMAIN L /\ L[t[i].id] = t[i].name
    <3>1. i \in 1 .. Len(s) /\ t[i] = s[i] /\ i + 1 \in 1 .. Len(s) + 1
      BY <2>2 DEF Inert, Creates
    <3>2. Lasts(s, i + 1, Len(s), t[i].id)
      BY <2>2, <3>1, <1>0
    <3> QED
      BY <1>2, <2>2, <3>1, <3>2 DEF LiveNamed
  <2> QED
    BY <2>1, <2>2 DEF LiveNamed
<1> QED
  BY <1>1, <1>2 DEF LiveKnown

-----------------------------------------------------------------------------
(* The server sends one more message. *)

(* A component is created: its ID is new, and its name is not in use. *)
LEMMA AddCreate ==
  ASSUME NEW s, NEW t, Len(s) \in Nat, Len(t) = Len(s) + 1,
         \A j \in 1 .. Len(s) : t[j] = s[j],
         Creates(t[Len(s) + 1]), NEW n \in Nat, t[Len(s) + 1].id = n + 1,
         NEW P, Fresh(s, P, n), NEW L, DOMAIN L \subseteq 1 .. n,
         NEW K, DOMAIN K \subseteq P
  PROVE  LET m == t[Len(s) + 1] IN
         /\ Fresh(t, P, n + 1)
         /\ \A D : LiveKnown(s, D, L) => LiveKnown(t, D, Put(L, m.id, m.name))
         /\ LiveNamed(s, K, L) => LiveNamed(t, K, Put(L, m.id, m.name))
         /\ /\ LiveNamed(s, K, L) /\ NamesFree(s, K)
            /\ m.name # NoName => \A x \in DOMAIN L : L[x] # m.name
            => NamesFree(t, K)
<1> DEFINE l == Len(s) + 1
           m == t[l]
           L2 == Put(L, m.id, m.name)
<1>0. /\ l \in Nat /\ Len(t) = l /\ Creates(m) /\ m.id = n + 1
      /\ \A x : ~ Ends(m, x)
  BY DEF Creates, Ends
<1>p. /\ DOMAIN L2 = DOMAIN L \cup {n + 1} /\ L2[n + 1] = m.name
      /\ \A x \in DOMAIN L : L2[x] = L[x]
  BY <1>0 DEF Put
<1> HIDE DEF m, L2
<1>1. \A i \in 1 .. l : \A x : Lasts(t, i, l, x) <=> Lasts(s, i, l - 1, x)
  BY <1>0 DEF Lasts, m
<1>s. \A k \in 1 .. l : \A x : \A i \in 1 .. l :
        Lasts(s, i, k - 1, x) <=> Lasts(t, i, k - 1, x)
  BY SameBefore
<1>f. /\ P \subseteq 1 .. n
      /\ \A k \in 1 .. Len(s) : Creates(s[k]) => s[k].id \in (1 .. n) \ P
      /\ \A i, k \in 1 .. Len(s) :
           i < k /\ Creates(s[i]) /\ Creates(s[k]) => s[i].id # s[k].id
  BY DEF Fresh
<1>2. Fresh(t, P, n + 1)
  <2>1. P \subseteq 1 .. n + 1
    BY <1>f
  <2>2. ASSUME NEW k \in 1 .. Len(t), Creates(t[k])
        PROVE  t[k].id \in (1 .. n + 1) \ P
    BY <1>0, <1>f, <2>2 DEF m
  <2>3. ASSUME NEW i \in 1 .. Len(t), NEW k \in 1 .. Len(t), i < k,
               Creates(t[i]), Creates(t[k])
        PROVE  t[i].id # t[k].id
    <3>1. i \in 1 .. Len(s) /\ t[i] = s[i] /\ t[i].id \in 1 .. n
      BY <1>0, <1>f, <2>3
    <3>2. CASE k = l
      BY <3>1, <3>2, <1>0 DEF m
    <3>3. CASE k # l
      <4>1. k \in 1 .. Len(s) /\ t[k] = s[k]
        BY <3>3, <1>0
      <4> QED
        BY <1>f, <2>3, <3>1, <4>1
    <3> QED
      BY <3>2, <3>3
  <2> QED
    BY <2>1, <2>2, <2>3 DEF Fresh
<1>3. ASSUME NEW D, LiveKnown(s, D, L), NEW x \in DOMAIN L2
      PROVE  Available(t, D, Len(t) + 1, x)
  <2>1. CASE x = n + 1
    <3>1. l \in 1 .. Len(t) + 1 - 1 /\ Creates(t[l]) /\ t[l].id = x
            /\ Lasts(t, l + 1, Len(t) + 1 - 1, x)
      BY <1>0, <2>1 DEF Lasts, m
    <3> QED
      BY <3>1 DEF Available
  <2>2. CASE x \in DOMAIN L
    <3>1. Available(s, D, l, x)
      BY <1>3, <2>2 DEF LiveKnown
    <3>2. CASE x \in D /\ Lasts(s, 1, l - 1, x)
      <4>1. Lasts(t, 1, Len(t) + 1 - 1, x)
        BY <1>0, <1>1, <3>2
      <4> QED
        BY <3>2, <4>1 DEF Available
    <3>3. ASSUME NEW i \in 1 .. l - 1, Creates(s[i]), s[i].id = x,
                 Lasts(s, i + 1, l - 1, x)
          PROVE  Available(t, D, Len(t) + 1, x)
      <4>1. i \in 1 .. Len(t) + 1 - 1 /\ t[i] = s[i] /\ i + 1 \in 1 .. l
        BY <1>0
      <4>2. Lasts(t, i + 1, Len(t) + 1 - 1, x)
        BY <1>0, <1>1, <3>3, <4>1
      <4> QED
        BY <3>3, <4>1, <4>2 DEF Available
    <3> QED
      BY <3>1, <3>2, <3>3 DEF Available
  <2> QED
    BY <1>p, <2>1, <2>2
<1>4. ASSUME LiveNamed(s, K, L)
      PROVE  LiveNamed(t, K, L2)
  <2>1. ASSUME NEW x \in DOMAIN K, Lasts(t, 1, Len(t), x)
        PROVE  x \in DOMAIN L2 /\ L2[x] = K[x]
    <3>1. Lasts(s, 1, Len(s), x)
      BY <1>0, <1>1, <2>1
    <3> QED
      BY <1>4, <1>p, <2>1, <3>1 DEF LiveNamed
  <2>2. ASSUME NEW i \in 1 .. Len(t), Creates(t[i]),
               Lasts(t, i + 1, Len(t), t[i].id)
        PROVE  t[i].id \in DOMAIN L2 /\ L2[t[i].id] = t[i].name
    <3>1. CASE i = l
      BY <3>1, <1>0, <1>p DEF m
    <3>2. CASE i # l
      <4>1. i \in 1 .. Len(s) /\ t[i] = s[i] /\ i + 1 \in 1 .. l
        BY <3>2, <1>0
      <4>2. Lasts(s, i + 1, Len(s), s[i].id)
        BY <1>0, <1>1, <2>2, <4>1
      <4>3. s[i].id \in DOMAIN L /\ L[s[i].id] = s[i].name
        BY <1>4, <2>2, <4>1, <4>2 DEF LiveNamed
      <4> QED
        BY <4>1, <4>3, <1>p
    <3> QED
      BY <3>1, <3>2
  <2> QED
    BY <2>1, <2>2 DEF LiveNamed
<1>5. ASSUME LiveNamed(s, K, L), NamesFree(s, K),
             m.name # NoName => \A x \in DOMAIN L : L[x] # m.name
      PROVE  NamesFree(t, K)
  <2>1. ASSUME NEW k \in 1 .. Len(t), NEW x \in DOMAIN K, Creates(t[k]),
               t[k].name # NoName, K[x] = t[k].name
        PROVE  ~ Lasts(t, 1, k - 1, x)
    <3>0. 1 \in 1 .. l /\ k \in 1 .. l
      BY <1>0
    <3>1. CASE k = l
      <4>1. ~ Lasts(s, 1, Len(s), x)
        BY <1>5, <2>1, <3>1 DEF LiveNamed, m
      <4> QED
        BY <4>1, <3>0, <3>1, <1>s
    <3>2. CASE k # l
      <4>1. k \in 1 .. Len(s) /\ t[k] = s[k]
        BY <3>2, <1>0
      <4>2. ~ Lasts(s, 1, k - 1, x)
        BY <1>5, <2>1, <4>1 DEF NamesFree
      <4> QED
        BY <4>2, <3>0, <1>s
    <3> QED
      BY <3>1, <3>2
  <2>2. ASSUME NEW i \in 1 .. Len(t), NEW k \in 1 .. Len(t), i < k,
               Creates(t[i]), Creates(t[k]), t[k].name # NoName,
               t[i].name = t[k].name
        PROVE  ~ Lasts(t, i + 1, k - 1, t[i].id)
    <3>0. /\ i \in 1 .. Len(s) /\ t[i] = s[i] /\ i + 1 \in 1 .. l
          /\ k \in 1 .. l
      BY <1>0, <2>2
    <3>1. CASE k = l
      <4>1. ~ Lasts(s, i + 1, Len(s), s[i].id)
        BY <1>5, <2>2, <3>0, <3>1 DEF LiveNamed, m
      <4> QED
        BY <4>1, <3>0, <3>1, <1>s
    <3>2. CASE k # l
      <4>1. k \in 1 .. Len(s) /\ t[k] = s[k]
        BY <3>2, <1>0
      <4>2. ~ Lasts(s, i + 1, k - 1, s[i].id)
        BY <1>5, <2>2, <3>0, <4>1 DEF NamesFree
      <4> QED
        BY <4>2, <3>0, <1>s
    <3> QED
      BY <3>1, <3>2
  <2> QED
    BY <2>1, <2>2 DEF NamesFree
<1>6. \A D : LiveKnown(s, D, L) => LiveKnown(t, D, L2)
  BY <1>3 DEF LiveKnown
<1> QED
  BY <1>2, <1>4, <1>5, <1>6 DEF m, L2

(* A component that lives is deleted. *)
LEMMA AddDelete ==
  ASSUME NEW s, NEW t, Len(s) \in Nat, Len(t) = Len(s) + 1,
         \A j \in 1 .. Len(s) : t[j] = s[j],
         Deletes(t[Len(s) + 1]), NEW L, t[Len(s) + 1].id \in DOMAIN L,
         NEW D, NEW K
  PROVE  LET m == t[Len(s) + 1] IN
         /\ LiveKnown(s, D, L) =>
              /\ DeletesKnown(s, D) => DeletesKnown(t, D)
              /\ LiveKnown(t, D, Without(L, m.id))
         /\ LiveNamed(s, K, L) => LiveNamed(t, K, Without(L, m.id))
<1> DEFINE l == Len(s) + 1
           m == t[l]
           L2 == Without(L, m.id)
<1>0. /\ l \in Nat /\ Len(t) = l /\ Deletes(m) /\ ~ Creates(m)
      /\ \A x : Ends(m, x) <=> x = m.id
  BY DEF Deletes, Creates, Ends
<1>p. /\ DOMAIN L2 = DOMAIN L \ {m.id}
      /\ \A x \in DOMAIN L2 : L2[x] = L[x]
  BY DEF Without
<1> HIDE DEF m, L2
<1>1. \A i \in 1 .. l : \A x :
        Lasts(t, i, l, x) <=> Lasts(s, i, l - 1, x) /\ x # m.id
  BY <1>0 DEF Lasts, m
<1>s. \A k \in 1 .. l : \A x : Available(s, D, k, x) <=> Available(t, D, k, x)
  BY SameBefore
<1>2. ASSUME LiveKnown(s, D, L), DeletesKnown(s, D)
      PROVE  DeletesKnown(t, D)
  <2> SUFFICES ASSUME NEW k \in 1 .. Len(t), Deletes(t[k])
               PROVE  Available(t, D, k, t[k].id)
    BY DEF DeletesKnown
  <2>1. CASE k = l
    <3>1. Available(s, D, l, m.id)
      BY <1>2 DEF LiveKnown, m
    <3> QED
      BY <3>1, <2>1, <1>s, <1>0 DEF m
  <2>2. CASE k # l
    <3>1. k \in 1 .. Len(s) /\ t[k] = s[k] /\ k \in 1 .. l
      BY <2>2, <1>0
    <3>2. Available(s, D, k, t[k].id)
      BY <1>2, <3>1 DEF DeletesKnown
    <3> QED
      BY <3>1, <3>2, <1>s
  <2> QED
    BY <2>1, <2>2
<1>3. ASSUME LiveKnown(s, D, L)
      PROVE  LiveKnown(t, D, L2)
  <2> SUFFICES ASSUME NEW x \in DOMAIN L2
               PROVE  Available(t, D, Len(t) + 1, x)
    BY DEF LiveKnown
  <2>1. Available(s, D, l, x) /\ x # m.id
    BY <1>3, <1>p DEF LiveKnown
  <2>2. CASE x \in D /\ Lasts(s, 1, l - 1, x)
    <3>1. Lasts(t, 1, Len(t) + 1 - 1, x)
      BY <1>0, <1>1, <2>1, <2>2
    <3> QED
      BY <2>2, <3>1 DEF Available
  <2>3. ASSUME NEW i \in 1 .. l - 1, Creates(s[i]), s[i].id = x,
               Lasts(s, i + 1, l - 1, x)
        PROVE  Available(t, D, Len(t) + 1, x)
    <3>1. i \in 1 .. Len(t) + 1 - 1 /\ t[i] = s[i] /\ i + 1 \in 1 .. l
      BY <1>0
    <3>2. Lasts(t, i + 1, Len(t) + 1 - 1, x)
      BY <1>0, <1>1, <2>1, <2>3, <3>1
    <3> QED
      BY <2>3, <3>1, <3>2 DEF Available
  <2> QED
    BY <2>1, <2>2, <2>3 DEF Available
<1>4. ASSUME LiveNamed(s, K, L)
      PROVE  LiveNamed(t, K, L2)
  <2>1. ASSUME NEW x \in DOMAIN K, Lasts(t, 1, Len(t), x)
        PROVE  x \in DOMAIN L2 /\ L2[x] = K[x]
    <3>1. Lasts(s, 1, Len(s), x) /\ x # m.id
      BY <1>0, <1>1, <2>1
    <3> QED
      BY <1>4, <1>p, <2>1, <3>1 DEF LiveNamed
  <2>2. ASSUME NEW i \in 1 .. Len(t), Creates(t[i]),
               Lasts(t, i + 1, Len(t), t[i].id)
        PROVE  t[i].id \in DOMAIN L2 /\ L2[t[i].id] = t[i].name
    <3>1. i \in 1 .. Len(s) /\ t[i] = s[i] /\ i + 1 \in 1 .. l
      BY <1>0, <2>2 DEF m
    <3>2. Lasts(s, i + 1, Len(s), s[i].id) /\ s[i].id # m.id
      BY <1>0, <1>1, <2>2, <3>1
    <3>3. s[i].id \in DOMAIN L /\ L[s[i].id] = s[i].name
      BY <1>4, <2>2, <3>1, <3>2 DEF LiveNamed
    <3> QED
      BY <3>1, <3>2, <3>3, <1>p
  <2> QED
    BY <2>1, <2>2 DEF LiveNamed
<1> QED
  BY <1>2, <1>3, <1>4 DEF m, L2

(* All of them end. *)
LEMMA AddReset ==
  ASSUME NEW t, NEW l \in Nat, Len(t) = l + 1, t[l + 1].kind = "reset",
         NEW D, NEW K
  PROVE  LiveKnown(t, D, Empty) /\ LiveNamed(t, K, Empty)
<1>1. DOMAIN Empty = {}
  BY DEF Empty
<1>2. \A i \in 1 .. l + 1 : \A x : ~ Lasts(t, i, Len(t), x)
  BY DEF Lasts, Ends
<1>3. ASSUME NEW i \in 1 .. Len(t), Creates(t[i])
      PROVE  i + 1 \in 1 .. l + 1
  BY <1>3 DEF Creates
<1> QED
  BY <1>1, <1>2, <1>3 DEF LiveKnown, LiveNamed

-----------------------------------------------------------------------------
(* The worker takes the first message. *)

LEMMA TailLasts ==
  ASSUME NEW s, NEW t, Len(t) \in Nat, Len(s) = Len(t) + 1,
         \A j \in 1 .. Len(t) : t[j] = s[j + 1],
         NEW k \in 1 .. Len(t) + 1, NEW x
  PROVE  /\ \A i \in 1 .. Len(t) + 1 :
              Lasts(t, i, k - 1, x) <=> Lasts(s, i + 1, k, x)
         /\ Lasts(s, 1, k, x) <=> ~ Ends(s[1], x) /\ Lasts(t, 1, k - 1, x)
<1>1. ASSUME NEW i \in 1 .. Len(t) + 1
      PROVE  Lasts(t, i, k - 1, x) <=> Lasts(s, i + 1, k, x)
  <2>1. ASSUME Lasts(t, i, k - 1, x), NEW j \in i + 1 .. k
        PROVE  ~ Ends(s[j], x)
    <3>1. j - 1 \in i .. k - 1 /\ j - 1 \in 1 .. Len(t) /\ (j - 1) + 1 = j
      OBVIOUS
    <3>2. t[j - 1] = s[j]
      BY <3>1
    <3> QED
      BY <2>1, <3>1, <3>2 DEF Lasts
  <2>2. ASSUME Lasts(s, i + 1, k, x), NEW j \in i .. k - 1
        PROVE  ~ Ends(t[j], x)
    <3>1. j + 1 \in i + 1 .. k /\ j \in 1 .. Len(t)
      OBVIOUS
    <3> QED
      BY <2>2, <3>1 DEF Lasts
  <2> QED
    BY <2>1, <2>2 DEF Lasts
<1>2. Lasts(s, 1, k, x) <=> ~ Ends(s[1], x) /\ Lasts(s, 2, k, x)
  <2>1. \A j \in 1 .. k : j = 1 \/ j \in 2 .. k
    OBVIOUS
  <2>2. 1 \in 1 .. k /\ \A j \in 2 .. k : j \in 1 .. k
    OBVIOUS
  <2> QED
    BY <2>1, <2>2 DEF Lasts
<1>3. Lasts(t, 1, k - 1, x) <=> Lasts(s, 2, k, x)
  BY <1>1
<1> QED
  BY <1>1, <1>2, <1>3

(* What the client has by then becomes what it has. *)
LEMMA TakeAvailable ==
  ASSUME NEW s, NEW t, Len(t) \in Nat, Len(s) = Len(t) + 1,
         \A j \in 1 .. Len(t) : t[j] = s[j + 1],
         NEW k \in 1 .. Len(t) + 1, NEW x, NEW D, NEW D2,
         Available(s, D, k + 1, x),
         x \in D /\ ~ Ends(s[1], x) => x \in D2,
         Creates(s[1]) /\ s[1].id = x => x \in D2
  PROVE  Available(t, D2, k, x)
<1>0. /\ \A i \in 1 .. Len(t) + 1 :
           Lasts(t, i, k - 1, x) <=> Lasts(s, i + 1, k, x)
      /\ Lasts(s, 1, k, x) <=> ~ Ends(s[1], x) /\ Lasts(t, 1, k - 1, x)
  BY TailLasts
<1>1. CASE x \in D /\ Lasts(s, 1, k + 1 - 1, x)
  <2>1. x \in D2 /\ Lasts(t, 1, k - 1, x)
    BY <1>0, <1>1
  <2> QED
    BY <2>1 DEF Available
<1>2. ASSUME NEW i \in 1 .. k + 1 - 1, Creates(s[i]), s[i].id = x,
             Lasts(s, i + 1, k + 1 - 1, x)
      PROVE  Available(t, D2, k, x)
  <2>1. CASE i = 1
    <3>1. x \in D2 /\ Lasts(t, 1, k - 1, x)
      BY <1>0, <1>2, <2>1
    <3> QED
      BY <3>1 DEF Available
  <2>2. CASE i # 1
    <3>1. i - 1 \in 1 .. k - 1 /\ i - 1 \in 1 .. Len(t) /\ (i - 1) + 1 = i
            /\ i \in 1 .. Len(t) + 1
      BY <2>2
    <3>2. t[i - 1] = s[i]
      BY <3>1
    <3>3. Lasts(t, (i - 1) + 1, k - 1, x)
      BY <1>0, <1>2, <3>1
    <3> QED
      BY <1>2, <3>1, <3>2, <3>3 DEF Available
  <2> QED
    BY <2>1, <2>2
<1> QED
  BY <1>1, <1>2 DEF Available

LEMMA TakeKnown ==
  ASSUME NEW s, NEW t, Len(t) \in Nat, Len(s) = Len(t) + 1,
         \A j \in 1 .. Len(t) : t[j] = s[j + 1],
         NEW D, NEW D2,
         \A x \in D : ~ Ends(s[1], x) => x \in D2,
         Creates(s[1]) => s[1].id \in D2
  PROVE  /\ DeletesKnown(s, D) => DeletesKnown(t, D2)
         /\ \A L : LiveKnown(s, D, L) => LiveKnown(t, D2, L)
<1>0. \A k \in 1 .. Len(t) + 1 : \A x :
        Available(s, D, k + 1, x) => Available(t, D2, k, x)
  BY TakeAvailable
<1>1. ASSUME DeletesKnown(s, D), NEW k \in 1 .. Len(t), Deletes(t[k])
      PROVE  Available(t, D2, k, t[k].id)
  <2>1. k + 1 \in 1 .. Len(s) /\ t[k] = s[k + 1] /\ k \in 1 .. Len(t) + 1
    OBVIOUS
  <2>2. Available(s, D, k + 1, t[k].id)
    BY <1>1, <2>1 DEF DeletesKnown
  <2> QED
    BY <1>0, <2>1, <2>2
<1>2. ASSUME NEW L, LiveKnown(s, D, L), NEW x \in DOMAIN L
      PROVE  Available(t, D2, Len(t) + 1, x)
  <2>1. Available(s, D, (Len(t) + 1) + 1, x) /\ Len(t) + 1 \in 1 .. Len(t) + 1
    BY <1>2 DEF LiveKnown
  <2> QED
    BY <1>0, <2>1
<1> QED
  BY <1>1, <1>2 DEF DeletesKnown, LiveKnown

LEMMA TakeFresh ==
  ASSUME NEW s, NEW t, Len(t) \in Nat, Len(s) = Len(t) + 1,
         \A j \in 1 .. Len(t) : t[j] = s[j + 1],
         NEW P, NEW P2, NEW N, Fresh(s, P, N),
         \A x \in P2 : x \in P \/ (Creates(s[1]) /\ x = s[1].id)
  PROVE  Fresh(t, P2, N)
<1>1. \A k \in 1 .. Len(t) : k + 1 \in 1 .. Len(s) /\ t[k] = s[k + 1]
        /\ 1 < k + 1
  OBVIOUS
<1>2. 1 \in 1 .. Len(s)
  OBVIOUS
<1>3. P2 \subseteq 1 .. N
  BY <1>2 DEF Fresh
<1>4. ASSUME NEW k \in 1 .. Len(t), Creates(t[k])
      PROVE  t[k].id \in (1 .. N) \ P2
  BY <1>1, <1>2, <1>4 DEF Fresh
<1>5. ASSUME NEW i \in 1 .. Len(t), NEW k \in 1 .. Len(t), i < k,
             Creates(t[i]), Creates(t[k])
      PROVE  t[i].id # t[k].id
  <2>1. i + 1 < k + 1
    BY <1>5
  <2> QED
    BY <1>1, <1>5, <2>1 DEF Fresh
<1> QED
  BY <1>3, <1>4, <1>5 DEF Fresh

LEMMA TakeNamed ==
  ASSUME NEW s, NEW t, Len(t) \in Nat, Len(s) = Len(t) + 1,
         \A j \in 1 .. Len(t) : t[j] = s[j + 1],
         NEW K, NEW K2,
         \A x \in DOMAIN K2 :
           \/ x \in DOMAIN K /\ K2[x] = K[x] /\ ~ Ends(s[1], x)
           \/ Creates(s[1]) /\ s[1].id = x /\ K2[x] = s[1].name
  PROVE  /\ NamesFree(s, K) => NamesFree(t, K2)
         /\ \A L : LiveNamed(s, K, L) => LiveNamed(t, K2, L)
<1>0. \A k \in 1 .. Len(t) + 1 : \A x :
        /\ \A i \in 1 .. Len(t) + 1 :
             Lasts(t, i, k - 1, x) <=> Lasts(s, i + 1, k, x)
        /\ Lasts(s, 1, k, x) <=> ~ Ends(s[1], x) /\ Lasts(t, 1, k - 1, x)
  BY TailLasts
<1>1. \A k \in 1 .. Len(t) : /\ k + 1 \in 1 .. Len(s) /\ t[k] = s[k + 1]
                             /\ k \in 1 .. Len(t) + 1 /\ (k + 1) - 1 = k
                             /\ k + 1 \in 1 .. Len(t) + 1
  OBVIOUS
<1>2. 1 \in 1 .. Len(s) /\ 1 \in 1 .. Len(t) + 1
  OBVIOUS
<1>3. ASSUME NamesFree(s, K)
      PROVE  NamesFree(t, K2)
  <2>1. ASSUME NEW k \in 1 .. Len(t), NEW x \in DOMAIN K2, Creates(t[k]),
               t[k].name # NoName, K2[x] = t[k].name
        PROVE  ~ Lasts(t, 1, k - 1, x)
    <3>1. CASE x \in DOMAIN K /\ K2[x] = K[x] /\ ~ Ends(s[1], x)
      <4>1. ~ Lasts(s, 1, (k + 1) - 1, x)
        BY <1>1, <1>3, <2>1, <3>1 DEF NamesFree
      <4>2. ~ Lasts(s, 1, k, x)
        BY <1>1, <4>1
      <4>3. k \in 1 .. Len(t) + 1
        BY <1>1
      <4>4. Lasts(s, 1, k, x) <=> ~ Ends(s[1], x) /\ Lasts(t, 1, k - 1, x)
        BY <1>0, <4>3
      <4> QED
        BY <3>1, <4>2, <4>4
    <3>2. CASE Creates(s[1]) /\ s[1].id = x /\ K2[x] = s[1].name
      <4>1. 1 < k + 1
        OBVIOUS
      <4>2. ~ Lasts(s, 1 + 1, (k + 1) - 1, x)
        BY <1>1, <1>2, <1>3, <2>1, <3>2, <4>1 DEF NamesFree
      <4>3. ~ Lasts(s, 1 + 1, k, x)
        BY <1>1, <4>2
      <4>4. k \in 1 .. Len(t) + 1
        BY <1>1
      <4>5. Lasts(t, 1, k - 1, x) <=> Lasts(s, 1 + 1, k, x)
        BY <1>0, <1>2, <4>4
      <4> QED
        BY <4>3, <4>5
    <3> QED
      BY <3>1, <3>2
  <2>2. ASSUME NEW i \in 1 .. Len(t), NEW k \in 1 .. Len(t), i < k,
               Creates(t[i]), Creates(t[k]), t[k].name # NoName,
               t[i].name = t[k].name
        PROVE  ~ Lasts(t, i + 1, k - 1, t[i].id)
    <3>1. i + 1 < k + 1
      BY <2>2
    <3>2. ~ Lasts(s, (i + 1) + 1, (k + 1) - 1, t[i].id)
      BY <1>1, <1>3, <2>2, <3>1 DEF NamesFree
    <3>3. ~ Lasts(s, (i + 1) + 1, k, t[i].id)
      BY <1>1, <3>2
    <3>4. /\ k \in 1 .. Len(t) + 1
          /\ i + 1 \in 1 .. Len(t) + 1
      BY <1>1
    <3> QED
      BY <1>0, <3>3, <3>4
  <2> QED
    BY <2>1, <2>2 DEF NamesFree
<1>4. ASSUME NEW L, LiveNamed(s, K, L)
      PROVE  LiveNamed(t, K2, L)
  <2>0. Len(t) + 1 \in 1 .. Len(t) + 1 /\ (Len(t) + 1) - 1 = Len(t)
    OBVIOUS
  <2>1. ASSUME NEW x \in DOMAIN K2, Lasts(t, 1, Len(t), x)
        PROVE  x \in DOMAIN L /\ L[x] = K2[x]
    <3>1. CASE x \in DOMAIN K /\ K2[x] = K[x] /\ ~ Ends(s[1], x)
      <4>1. Lasts(s, 1, Len(s), x)
        BY <1>0, <2>0, <2>1, <3>1
      <4> QED
        BY <1>4, <3>1, <4>1 DEF LiveNamed
    <3>2. CASE Creates(s[1]) /\ s[1].id = x /\ K2[x] = s[1].name
      <4>1. Lasts(s, 1 + 1, Len(s), x)
        BY <1>0, <1>2, <2>0, <2>1
      <4> QED
        BY <1>4, <1>2, <3>2, <4>1 DEF LiveNamed
    <3> QED
      BY <3>1, <3>2
  <2>2. ASSUME NEW i \in 1 .. Len(t), Creates(t[i]),
               Lasts(t, i + 1, Len(t), t[i].id)
        PROVE  t[i].id \in DOMAIN L /\ L[t[i].id] = t[i].name
    <3>1. Lasts(s, (i + 1) + 1, Len(s), t[i].id)
      BY <1>0, <1>1, <2>0, <2>2
    <3> QED
      BY <1>1, <1>4, <2>2, <3>1 DEF LiveNamed
  <2> QED
    BY <2>1, <2>2 DEF LiveNamed
<1> QED
  BY <1>3, <1>4

(* Nothing is taken, and the client knows less. *)
LEMMA KnowLess ==
  ASSUME NEW s, NEW K, NEW K2, DOMAIN K2 \subseteq DOMAIN K,
         \A x \in DOMAIN K2 : K2[x] = K[x]
  PROVE  /\ NamesFree(s, K) => NamesFree(s, K2)
         /\ \A L : LiveNamed(s, K, L) => LiveNamed(s, K2, L)
  BY DEF NamesFree, LiveNamed

-----------------------------------------------------------------------------
(* Messages. *)

AllFrames == Frames \cup {Closed, SocketError, StreamEnd}

LEMMA MessageParts ==
  ASSUME NEW m \in AllFrames
  PROVE  /\ Creates(m) => m.id \in Ids /\ m.name \in Names \cup {NoName}
         /\ Deletes(m) => m.id \in Ids
         /\ m.kind = "notify" => m.id \in Contexts
         /\ m.kind = "reply" => m.call \in Calls
  BY DEF AllFrames, Frames, Messages, Creates, Deletes, Ping, CloseFrame,
         Closed, SocketError, StreamEnd

(* Those that are no messages of the server change nothing in the stream. *)
LEMMA FramesInert ==
  /\ Inert(Ping) /\ Inert(CloseFrame) /\ Inert(Closed)
  /\ Inert(SocketError) /\ Inert(StreamEnd)
  /\ \A m : Inert(m) => ~ Creates(m) /\ ~ Deletes(m) /\ \A x : ~ Ends(m, x)
  BY DEF Inert, Creates, Deletes, Ends, Ping, CloseFrame, Closed,
         SocketError, StreamEnd

LEMMA IdsFacts ==
  /\ Document \notin Ids /\ MaxIds \in Nat /\ Ids \subseteq Nat
  /\ NoName \notin Names
  BY SessionConstants DEF Ids

LEMMA CallbackParts ==
  ASSUME NEW c \in Callbacks
  PROVE  /\ c # NoCallback /\ c.id \in Contexts
         /\ c.kind \in {"make", "notified", "replied"}
         /\ c.kind = "make" => c.id \in Ids /\ c.name \in Names \cup {NoName}
  BY CallbackConstants DEF Callbacks, Contexts

-----------------------------------------------------------------------------
(* The stream. *)

(* It consists of messages. *)
LEMMA StreamType ==
  ASSUME QueueType
  PROVE  /\ Stream \in Seq(AllFrames) /\ Len(Stream) \in Nat
         /\ Len(inbox) \in Nat /\ Len(inbox) <= Len(Stream)
         /\ \A j \in 1 .. Len(inbox) : Stream[j] = inbox[j]
         /\ Reading =>
              /\ Stream = inbox \o wire /\ Len(Stream) = Len(inbox) + Len(wire)
              /\ \A j \in 1 .. Len(wire) : Stream[Len(inbox) + j] = wire[j]
<1>1. wire \in Seq(AllFrames) /\ inbox \in Seq(AllFrames)
  BY DEF QueueType, AllFrames
<1>2. CASE Reading
  <2>1. Stream = inbox \o wire
    BY <1>2 DEF Stream
  <2> QED
    BY <1>1, <1>2, <2>1
<1>3. CASE ~ Reading
  <2>1. Stream = inbox
    BY <1>3 DEF Stream
  <2> QED
    BY <1>1, <1>3, <2>1
<1> QED
  BY <1>2, <1>3

(* The client's part of the state stays as it is. *)
clientState ==
  <<worker, calling, components, mistyped, nameMap, revMap, subs, epoch, made>>

LEMMA SameClient ==
  ASSUME UNCHANGED clientState
  PROVE  /\ Here' = Here /\ Known' = Known /\ Past' = Past
         /\ ClientType => ClientType'
         /\ TakenApart => TakenApart'
         /\ MapsFit => MapsFit'
         /\ NamesAgree => NamesAgree'
<1> USE DEF clientState
<1>1. Here' = Here /\ Making' = Making
  BY DEF Here, Making
<1>2. Known' = Known
  BY <1>1 DEF Known, NameOf, Making
<1>3. Past' = Past
  BY <1>1 DEF Past
<1>4. ClientType => ClientType'
  BY DEF ClientType
<1>5. TakenApart => TakenApart'
  BY <1>1 DEF TakenApart
<1>6. MapsFit => MapsFit'
  BY <1>1 DEF MapsFit
<1>7. NamesAgree => NamesAgree'
  BY DEF NamesAgree, Present
<1> QED
  BY <1>1, <1>2, <1>3, <1>4, <1>5, <1>6, <1>7

LEMMA KnownParts ==
  /\ DOMAIN Known = Here
  /\ \A x \in Here : Known[x] = NameOf(x)
  /\ Here \subseteq Past
  BY DEF Known, Past

(* The stream is cut and goes on with messages that create and delete      *)
(* nothing, and the client does nothing. *)
LEMMA CutStream ==
  ASSUME QueueType, QueueType', UNCHANGED clientState, StreamFits,
         NEW n \in 0 .. Len(Stream), n <= Len(Stream'),
         \A j \in 1 .. n : Stream'[j] = Stream[j],
         \A j \in n + 1 .. Len(Stream') :
           ~ Creates(Stream'[j]) /\ ~ Deletes(Stream'[j]),
         issued' = issued
  PROVE  StreamFits'
<1> SUFFICES ASSUME worker' = "on"
             PROVE  /\ Fresh(Stream', Past', issued')
                    /\ mistyped' = {} => DeletesKnown(Stream', Here')
                    /\ DistinctNames => NamesFree(Stream', Known')
  BY DEF StreamFits
<1>1. Len(Stream) \in Nat /\ Len(Stream') \in Nat
  BY StreamType
<1>2. worker = "on" /\ mistyped' = mistyped
  BY DEF clientState
<1>3. Here' = Here /\ Known' = Known /\ Past' = Past
  BY SameClient
<1>4. /\ Fresh(Stream, Past, issued)
      /\ mistyped = {} => DeletesKnown(Stream, Here)
      /\ DistinctNames => NamesFree(Stream, Known)
  BY <1>2 DEF StreamFits
<1> DEFINE s == Stream
           t == Stream'
<1>5. /\ Len(s) \in Nat /\ Len(t) \in Nat
      /\ \A j \in 1 .. n : t[j] = s[j]
      /\ \A j \in n + 1 .. Len(t) : ~ Creates(t[j])
      /\ \A j \in n + 1 .. Len(t) : ~ Deletes(t[j])
  BY <1>1
<1>6. n \in 0 .. Len(s)
  OBVIOUS
<1> HIDE DEF s, t
<1>7. Fresh(s, Past, issued) => Fresh(t, Past, issued)
  BY <1>5, <1>6, CutFresh
<1>8. DeletesKnown(s, Here) => DeletesKnown(t, Here)
  BY <1>5, <1>6, CutDeletes
<1>9. NamesFree(s, Known) => NamesFree(t, Known)
  BY <1>5, <1>6, CutNames
<1> QED
  BY <1>2, <1>3, <1>4, <1>7, <1>8, <1>9 DEF s, t

(* The stream goes on with messages that do not matter here. *)
LEMMA InertStream ==
  ASSUME QueueType, QueueType', UNCHANGED clientState, ServerFits,
         Reading' => Reading /\ Len(Stream) <= Len(Stream')
           /\ (\A j \in 1 .. Len(Stream) : Stream'[j] = Stream[j])
           /\ (\A j \in Len(Stream) + 1 .. Len(Stream') : Inert(Stream'[j])),
         peer' # "over" => peer # "over",
         live' = live
  PROVE  ServerFits'
<1> SUFFICES ASSUME worker' = "on", Reading', peer' # "over"
             PROVE  /\ mistyped' = {} => LiveKnown(Stream', Here', live')
                    /\ LiveNamed(Stream', Known', live')
  BY DEF ServerFits
<1>1. Len(Stream) \in Nat /\ Len(Stream') \in Nat
  BY StreamType
<1>2. worker = "on" /\ mistyped' = mistyped
  BY DEF clientState
<1>3. Here' = Here /\ Known' = Known
  BY SameClient
<1>4. /\ mistyped = {} => LiveKnown(Stream, Here, live)
      /\ LiveNamed(Stream, Known, live)
  BY <1>2 DEF ServerFits
<1> DEFINE s == Stream
           t == Stream'
<1>5. /\ Len(s) \in Nat /\ Len(t) \in Nat /\ Len(s) <= Len(t)
      /\ \A j \in 1 .. Len(s) : t[j] = s[j]
      /\ \A j \in Len(s) + 1 .. Len(t) : Inert(t[j])
  BY <1>1
<1> HIDE DEF s, t
<1>6. /\ LiveKnown(s, Here, live) => LiveKnown(t, Here, live)
      /\ LiveNamed(s, Known, live) => LiveNamed(t, Known, live)
  BY <1>5, InertLive
<1> QED
  BY <1>2, <1>3, <1>4, <1>6 DEF s, t

-----------------------------------------------------------------------------
(* The parts of the invariant that a step of the client's tasks or of the  *)
(* server leaves alone. *)

LEMMA ClientStays ==
  ASSUME IInv, UNCHANGED clientState, TaskType', ServerType', QueueType',
         StreamFits', ServerFits', forward' = "on" => forward = "on"
  PROVE  IInv'
<1>1. ClientType' /\ TakenApart' /\ MapsFit' /\ NamesAgree'
  BY SameClient DEF IInv, Types
<1>2. WorkerSurvives'
  BY DEF IInv, WorkerSurvives, clientState
<1> QED
  BY <1>1, <1>2 DEF IInv, Types

(* The server is ready to send. *)
LEMMA SendStream ==
  ASSUME QueueType, ServerType, NEW m \in Messages \cup {Ping}, Send(m),
         UNCHANGED <<incoming, inbox, output, forward, peer>>
  PROVE  /\ QueueType' /\ Reading' = Reading /\ sent' \in 0 .. MaxSends
         /\ Len(Stream) \in Nat
         /\ Reading => /\ Len(Stream') = Len(Stream) + 1
                       /\ \A j \in 1 .. Len(Stream) : Stream'[j] = Stream[j]
                       /\ Stream'[Len(Stream) + 1] = m
         /\ ~ Reading => Stream' = Stream
<1>1. m \in AllFrames /\ m \in Frames \cup {SocketError, StreamEnd}
  BY DEF AllFrames, Frames
<1>2. wire' = Append(wire, m) /\ inbox' = inbox /\ output' = output
  BY DEF Send
<1>3. QueueType'
  BY <1>1, <1>2 DEF QueueType
<1>4. Reading' = Reading
  BY DEF Reading
<1>5. wire \in Seq(AllFrames) /\ inbox \in Seq(AllFrames)
  BY DEF QueueType, AllFrames
<1>6. Stream \in Seq(AllFrames) /\ Len(Stream) \in Nat
  BY StreamType
<1>7. ASSUME Reading
      PROVE  Stream' = Append(Stream, m)
  <2>1. Stream = inbox \o wire /\ Stream' = inbox \o Append(wire, m)
    BY <1>2, <1>4, <1>7 DEF Stream
  <2>2. inbox \o Append(wire, m) = Append(inbox \o wire, m)
    BY <1>1, <1>5
  <2> QED
    BY <2>1, <2>2
<1>8. ~ Reading => Stream' = Stream
  BY <1>2, <1>4 DEF Stream
<1>9. ASSUME Reading
      PROVE  /\ Len(Stream') = Len(Stream) + 1
             /\ \A j \in 1 .. Len(Stream) : Stream'[j] = Stream[j]
             /\ Stream'[Len(Stream) + 1] = m
  BY <1>1, <1>6, <1>7, <1>9
<1>10. sent' \in 0 .. MaxSends
  BY SessionConstants DEF Send, ServerType
<1> QED
  BY <1>3, <1>4, <1>6, <1>8, <1>9, <1>10

(* A message that creates and deletes nothing. *)
LEMMA SendCuts ==
  ASSUME IInv, NEW m \in Messages \cup {Ping}, ~ Creates(m), ~ Deletes(m), Send(m),
         UNCHANGED <<incoming, inbox, output, forward, peer, clientState>>,
         issued' = issued
  PROVE  StreamFits'
<1>1. QueueType /\ ServerType /\ StreamFits
  BY DEF IInv, Types
<1>2. /\ QueueType' /\ Len(Stream) \in Nat
      /\ Reading => /\ Len(Stream') = Len(Stream) + 1
                    /\ \A j \in 1 .. Len(Stream) : Stream'[j] = Stream[j]
                    /\ Stream'[Len(Stream) + 1] = m
      /\ ~ Reading => Stream' = Stream
  BY <1>1, SendStream
<1> DEFINE n == Len(Stream)
<1>3. /\ n \in 0 .. Len(Stream) /\ n <= Len(Stream')
      /\ \A j \in 1 .. n : Stream'[j] = Stream[j]
  BY <1>2
<1>4. \A j \in n + 1 .. Len(Stream') :
        ~ Creates(Stream'[j]) /\ ~ Deletes(Stream'[j])
  BY <1>2
<1> HIDE DEF n
<1> QED
  BY <1>1, <1>2, <1>3, <1>4, CutStream

LEMMA SendFrame ==
  ASSUME IInv, NEW m \in Messages \cup {Ping}, Send(m), StreamFits', ServerFits',
         UNCHANGED <<taskVars, inbox, output, peer, clientState>>,
         issued' \in 0 .. MaxIds, DOMAIN live' \subseteq 1 .. issued',
         resets' \in 0 .. MaxResets, asked' \subseteq Calls
  PROVE  IInv'
<1>1. QueueType /\ ServerType /\ TaskType
  BY DEF IInv, Types
<1>2. QueueType' /\ sent' \in 0 .. MaxSends
  BY <1>1, SendStream DEF taskVars
<1>3. ServerType'
  BY <1>1, <1>2 DEF ServerType
<1>4. TaskType'
  BY <1>1 DEF TaskType, taskVars, clientState
<1> QED
  BY <1>2, <1>3, <1>4, ClientStays DEF taskVars

LEMMA ServeCreateStep ==
  ASSUME IInv, NEW id \in Ids, NEW name \in Names \cup {NoName},
         ServeCreate(id, name),
         UNCHANGED <<taskVars, inbox, output, clientState>>
  PROVE  IInv'
<1> DEFINE m == [kind |-> "create", id |-> id, name |-> name]
           s == Stream
           t == Stream'
<1>1. QueueType /\ ServerType /\ StreamFits /\ ServerFits
  BY DEF IInv, Types
<1>2. /\ Send(m) /\ id = issued + 1 /\ issued' = id /\ live' = Put(live, id, name)
      /\ UNCHANGED <<asked, peer, resets>> /\ peer # "over"
      /\ DistinctNames /\ name # NoName => \A i \in DOMAIN live : live[i] # name
  BY DEF ServeCreate, Send
<1>3. m \in Messages
  BY DEF Messages
<1>4. /\ Reading' = Reading /\ QueueType' /\ Len(s) \in Nat
      /\ Reading => /\ Len(t) = Len(s) + 1
                    /\ \A j \in 1 .. Len(s) : t[j] = s[j]
                    /\ t[Len(s) + 1] = m
      /\ ~ Reading => t = s
  BY <1>1, <1>2, <1>3, SendStream DEF taskVars
<1>5. Creates(m) /\ m.id = issued + 1 /\ m.name = name
  BY <1>2 DEF Creates
<1>6. Here' = Here /\ Known' = Known /\ Past' = Past
  BY SameClient
<1>7. UNCHANGED <<worker, mistyped>>
  BY DEF clientState
<1>8. DOMAIN Known \subseteq Past
  BY KnownParts
<1>9. issued \in Nat /\ DOMAIN live \subseteq 1 .. issued
  BY <1>1, SessionConstants DEF ServerType
<1>10. issued' \in 0 .. MaxIds /\ DOMAIN live' \subseteq 1 .. issued'
  BY <1>2, <1>9, IdsFacts DEF Put, Ids
<1> HIDE DEF m, s, t
<1>11. ASSUME worker = "on", Reading
       PROVE  /\ Fresh(t, Past, issued')
              /\ mistyped = {} => DeletesKnown(t, Here)
              /\ DistinctNames => NamesFree(t, Known)
              /\ mistyped = {} => LiveKnown(t, Here, live')
              /\ LiveNamed(t, Known, live')
  <2>1. /\ Fresh(s, Past, issued)
        /\ mistyped = {} => DeletesKnown(s, Here)
        /\ DistinctNames => NamesFree(s, Known)
        /\ mistyped = {} => LiveKnown(s, Here, live)
        /\ LiveNamed(s, Known, live)
    BY <1>1, <1>2, <1>11 DEF StreamFits, ServerFits, s
  <2>2. /\ Fresh(t, Past, issued + 1)
        /\ \A D : LiveKnown(s, D, live) => LiveKnown(t, D, Put(live, id, name))
        /\ LiveNamed(s, Known, live) => LiveNamed(t, Known, Put(live, id, name))
        /\ /\ LiveNamed(s, Known, live) /\ NamesFree(s, Known)
           /\ name # NoName => \A x \in DOMAIN live : live[x] # name
           => NamesFree(t, Known)
    <3>1. m.id = id
      BY <1>2, <1>5
    <3>2. t[Len(s) + 1] = m
      BY <1>4, <1>11
    <3> QED
      BY <1>4, <1>5, <1>8, <1>9, <1>11, <2>1, <3>1, <3>2, AddCreate
  <2>3. mistyped = {} => DeletesKnown(t, Here)
    <3>1. \A j \in Len(s) + 1 .. Len(t) : ~ Deletes(t[j])
      BY <1>4, <1>5, <1>11 DEF Creates, Deletes
    <3>2. Len(t) \in Nat /\ Len(s) \in 0 .. Len(s)
      BY <1>4, <1>11
    <3> QED
      BY <1>4, <1>11, <2>1, <3>1, <3>2, CutDeletes
  <2> QED
    BY <1>2, <2>1, <2>2, <2>3
<1>12. ASSUME worker = "on", ~ Reading
       PROVE  /\ Fresh(t, Past, issued')
              /\ mistyped = {} => DeletesKnown(t, Here)
              /\ DistinctNames => NamesFree(t, Known)
  <2>1. /\ Fresh(s, Past, issued)
        /\ mistyped = {} => DeletesKnown(s, Here)
        /\ DistinctNames => NamesFree(s, Known)
    BY <1>1, <1>12 DEF StreamFits, s
  <2>2. 1 .. issued \subseteq 1 .. issued'
    BY <1>2, <1>9
  <2>3. Fresh(s, Past, issued')
    BY <2>1, <2>2 DEF Fresh
  <2> QED
    BY <1>4, <1>12, <2>1, <2>3
<1>13. StreamFits'
  BY <1>6, <1>7, <1>11, <1>12 DEF StreamFits, t
<1>14. ServerFits'
  BY <1>4, <1>6, <1>7, <1>11 DEF ServerFits, t
<1> QED
  BY <1>1, <1>2, <1>3, <1>10, <1>13, <1>14, SendFrame DEF ServerType

LEMMA ServeDeleteStep ==
  ASSUME IInv, NEW id \in Ids, ServeDelete(id),
         UNCHANGED <<taskVars, inbox, output, clientState>>
  PROVE  IInv'
<1> DEFINE m == [kind |-> "delete", id |-> id]
           s == Stream
           t == Stream'
<1>1. QueueType /\ ServerType /\ StreamFits /\ ServerFits
  BY DEF IInv, Types
<1>2. /\ Send(m) /\ id \in DOMAIN live /\ live' = Without(live, id)
      /\ UNCHANGED <<issued, asked, peer, resets>> /\ peer # "over"
  BY DEF ServeDelete, Send
<1>3. m \in Messages
  BY DEF Messages
<1>4. /\ Reading' = Reading /\ QueueType' /\ Len(s) \in Nat
      /\ Reading => /\ Len(t) = Len(s) + 1
                    /\ \A j \in 1 .. Len(s) : t[j] = s[j]
                    /\ t[Len(s) + 1] = m
      /\ ~ Reading => t = s
  BY <1>1, <1>2, <1>3, SendStream DEF taskVars
<1>5. Deletes(m) /\ ~ Creates(m) /\ m.id = id
  BY DEF Creates, Deletes
<1>6. Here' = Here /\ Known' = Known /\ Past' = Past
  BY SameClient
<1>7. UNCHANGED <<worker, mistyped>>
  BY DEF clientState
<1>8. DOMAIN live' \subseteq 1 .. issued'
  BY <1>1, <1>2 DEF ServerType, Without
<1> HIDE DEF m, s, t
<1>9. ASSUME worker = "on"
      PROVE  /\ Fresh(s, Past, issued)
             /\ mistyped = {} => DeletesKnown(s, Here)
             /\ DistinctNames => NamesFree(s, Known)
  BY <1>1, <1>9 DEF StreamFits, s
<1>10. ASSUME worker = "on", Reading
       PROVE  /\ Fresh(t, Past, issued)
              /\ mistyped = {} => DeletesKnown(t, Here)
              /\ DistinctNames => NamesFree(t, Known)
              /\ mistyped = {} => LiveKnown(t, Here, live')
              /\ LiveNamed(t, Known, live')
  <2>1. /\ mistyped = {} => LiveKnown(s, Here, live)
        /\ LiveNamed(s, Known, live)
    BY <1>1, <1>2, <1>10 DEF ServerFits, s
  <2>2. /\ LiveKnown(s, Here, live) =>
             /\ DeletesKnown(s, Here) => DeletesKnown(t, Here)
             /\ LiveKnown(t, Here, live')
        /\ LiveNamed(s, Known, live) => LiveNamed(t, Known, live')
    <3>1. t[Len(s) + 1] = m
      BY <1>4, <1>10
    <3> QED
      BY <1>2, <1>4, <1>5, <1>10, <3>1, AddDelete
  <2>3. \A j \in Len(s) + 1 .. Len(t) : ~ Creates(t[j])
    BY <1>4, <1>5, <1>10
  <2>4. Len(t) \in Nat /\ Len(s) \in 0 .. Len(s)
    BY <1>4, <1>10
  <2>5. Fresh(t, Past, issued)
    BY <1>4, <1>9, <1>10, <2>3, <2>4, CutFresh
  <2>6. DistinctNames => NamesFree(t, Known)
    BY <1>4, <1>9, <1>10, <2>3, <2>4, CutNames
  <2> QED
    BY <1>9, <1>10, <2>1, <2>2, <2>5, <2>6
<1>11. StreamFits'
  BY <1>2, <1>4, <1>6, <1>7, <1>9, <1>10 DEF StreamFits, t
<1>12. ServerFits'
  BY <1>4, <1>6, <1>7, <1>10 DEF ServerFits, t
<1> QED
  BY <1>1, <1>2, <1>3, <1>8, <1>11, <1>12, SendFrame DEF ServerType

LEMMA ServeInertStep ==
  ASSUME IInv, NEW m \in Messages \cup {Ping}, Inert(m), Send(m), asked' \subseteq Calls,
         UNCHANGED <<taskVars, inbox, output, clientState>>,
         UNCHANGED <<issued, live, peer, resets>>
  PROVE  IInv'
<1>1. QueueType /\ ServerType /\ ServerFits
  BY DEF IInv, Types
<1>2. /\ Reading' = Reading /\ QueueType' /\ Len(Stream) \in Nat
      /\ Reading => /\ Len(Stream') = Len(Stream) + 1
                    /\ \A j \in 1 .. Len(Stream) : Stream'[j] = Stream[j]
                    /\ Stream'[Len(Stream) + 1] = m
  BY <1>1, SendStream DEF taskVars
<1>3. ~ Creates(m) /\ ~ Deletes(m)
  BY FramesInert
<1>4. StreamFits'
  BY <1>3, SendCuts DEF taskVars
<1>5. Reading => Len(Stream) <= Len(Stream')
        /\ \A j \in Len(Stream) + 1 .. Len(Stream') : Inert(Stream'[j])
  BY <1>2
<1>6. ServerFits'
  BY <1>1, <1>2, <1>5, InertStream
<1> QED
  BY <1>1, <1>4, <1>6, SendFrame DEF ServerType

LEMMA ServeResetStep ==
  ASSUME IInv, ServeReset, UNCHANGED <<taskVars, inbox, output, clientState>>
  PROVE  IInv'
<1> DEFINE m == [kind |-> "reset"]
           t == Stream'
<1>1. QueueType /\ ServerType
  BY DEF IInv, Types
<1>2. /\ Send(m) /\ resets < MaxResets /\ resets' = resets + 1 /\ live' = Empty
      /\ UNCHANGED <<issued, asked, peer>>
  BY DEF ServeReset
<1>3. m \in Messages /\ ~ Creates(m) /\ ~ Deletes(m)
  BY DEF Messages, Creates, Deletes
<1>4. /\ Reading' = Reading /\ Len(Stream) \in Nat
      /\ Reading => Len(t) = Len(Stream) + 1 /\ t[Len(Stream) + 1] = m
  BY <1>1, <1>2, <1>3, SendStream DEF taskVars
<1>5. StreamFits'
  BY <1>2, <1>3, SendCuts DEF taskVars
<1>6. Here' = Here /\ Known' = Known
  BY SameClient
<1>7. m.kind = "reset"
  OBVIOUS
<1> HIDE DEF m, t
<1>8. Reading => LiveKnown(t, Here, Empty) /\ LiveNamed(t, Known, Empty)
  BY <1>4, <1>7, AddReset
<1>9. ServerFits'
  BY <1>2, <1>4, <1>6, <1>8 DEF ServerFits, t
<1>10. resets' \in 0 .. MaxResets /\ DOMAIN live' \subseteq 1 .. issued'
  BY <1>1, <1>2, SessionConstants DEF ServerType, Empty
<1> QED
  BY <1>1, <1>2, <1>3, <1>5, <1>9, <1>10, SendFrame DEF ServerType

(* The connection is over: the stream is cut, and the rest does not count. *)
LEMMA OverStep ==
  ASSUME IInv, peer' = "over",
         UNCHANGED <<taskVars, inbox, output, clientState, serverVars, asked>>,
         NEW n \in 0 .. Len(wire), NEW w \in Seq({CloseFrame, SocketError, StreamEnd}),
         wire' = SubSeq(wire, 1, n) \o w
  PROVE  IInv'
<1>1. QueueType /\ ServerType /\ StreamFits /\ TaskType
  BY DEF IInv, Types
<1>2. Reading' = Reading /\ inbox' = inbox /\ output' = output
  BY DEF Reading, taskVars
<1>3. w \in Seq(Frames \cup {SocketError, StreamEnd})
  BY DEF Frames
<1>4. /\ wire \in Seq(Frames \cup {SocketError, StreamEnd})
      /\ inbox \in Seq(AllFrames)
  BY <1>1 DEF QueueType, AllFrames
<1> DEFINE c == SubSeq(wire, 1, n)
<1>5. /\ c \in Seq(Frames \cup {SocketError, StreamEnd}) /\ Len(c) = n
      /\ \A j \in 1 .. n : c[j] = wire[j]
  BY <1>4
<1>6. wire' = c \o w
  OBVIOUS
<1> HIDE DEF c
<1>7. QueueType'
  BY <1>1, <1>2, <1>3, <1>5, <1>6 DEF QueueType
<1>8. /\ Len(wire') = n + Len(w) /\ Len(w) \in Nat /\ n \in Nat
      /\ \A j \in 1 .. n : wire'[j] = wire[j]
      /\ \A j \in 1 .. Len(w) : wire'[n + j] = w[j]
  BY <1>3, <1>5, <1>6
<1>9. \A j \in n + 1 .. Len(wire') :
        /\ j - n \in 1 .. Len(w) /\ wire'[j] = w[j - n]
        /\ wire'[j] \in {CloseFrame, SocketError, StreamEnd}
  <2> TAKE j \in n + 1 .. Len(wire')
  <2>1. j - n \in 1 .. Len(w) /\ n + (j - n) = j
    BY <1>8
  <2>2. wire'[j] = w[j - n]
    BY <1>8, <2>1
  <2> QED
    BY <2>1, <2>2
<1>11. StreamFits'
  <2>1. CASE Reading
    <3> DEFINE k == Len(inbox) + n
    <3>1. /\ Len(Stream) = Len(inbox) + Len(wire)
          /\ \A j \in 1 .. Len(inbox) : Stream[j] = inbox[j]
          /\ \A j \in 1 .. Len(wire) : Stream[Len(inbox) + j] = wire[j]
          /\ Len(inbox) \in Nat
      BY <1>1, <2>1, StreamType
    <3>2. /\ Len(Stream') = Len(inbox) + Len(wire')
          /\ \A j \in 1 .. Len(inbox) : Stream'[j] = inbox[j]
          /\ \A j \in 1 .. Len(wire') : Stream'[Len(inbox) + j] = wire'[j]
      <4>1. Stream' = inbox \o wire'
        BY <1>2, <2>1 DEF Stream
      <4>2. wire' \in Seq(AllFrames)
        BY <1>7 DEF QueueType, AllFrames
      <4> QED
        BY <1>4, <3>1, <4>1, <4>2
    <3>3. k \in 0 .. Len(Stream) /\ k <= Len(Stream')
      BY <1>4, <1>8, <3>1, <3>2
    <3>4. ASSUME NEW j \in 1 .. k
          PROVE  Stream'[j] = Stream[j]
      <4>1. CASE j <= Len(inbox)
        BY <3>1, <3>2, <4>1
      <4>2. CASE j > Len(inbox)
        <5>1. /\ j - Len(inbox) \in 1 .. n /\ j - Len(inbox) \in 1 .. Len(wire)
              /\ j - Len(inbox) \in 1 .. Len(wire')
              /\ Len(inbox) + (j - Len(inbox)) = j
          BY <1>4, <1>8, <3>1, <4>2
        <5>2. Stream'[j] = wire'[j - Len(inbox)]
          BY <3>2, <5>1
        <5>3. Stream[j] = wire[j - Len(inbox)]
          BY <3>1, <5>1
        <5> QED
          BY <1>8, <5>1, <5>2, <5>3
      <4> QED
        BY <1>8, <3>1, <4>1, <4>2
    <3>5. ASSUME NEW j \in k + 1 .. Len(Stream')
          PROVE  ~ Creates(Stream'[j]) /\ ~ Deletes(Stream'[j])
      <4>1. /\ j - Len(inbox) \in n + 1 .. Len(wire')
            /\ j - Len(inbox) \in 1 .. Len(wire')
            /\ Len(inbox) + (j - Len(inbox)) = j
        BY <1>8, <3>1, <3>2
      <4>2. Stream'[j] \in {CloseFrame, SocketError, StreamEnd}
        BY <1>9, <3>2, <4>1
      <4> QED
        BY <4>2, FramesInert
    <3> HIDE DEF k
    <3> QED
      BY <1>1, <1>7, <3>3, <3>4, <3>5, CutStream DEF serverVars
  <2>2. CASE ~ Reading
    <3>1. Stream' = Stream /\ Len(Stream) \in Nat
      BY <1>1, <1>2, <2>2, StreamType DEF Stream
    <3>2. UNCHANGED <<worker, mistyped, issued>>
      BY DEF clientState, serverVars
    <3> QED
      BY <1>1, <3>1, <3>2, SameClient DEF StreamFits
  <2> QED
    BY <2>1, <2>2
<1>12. ServerFits'
  BY DEF ServerFits
<1>13. ServerType' /\ TaskType'
  BY <1>1 DEF ServerType, serverVars, TaskType, taskVars, clientState
<1> QED
  BY <1>7, <1>11, <1>12, <1>13, ClientStays DEF taskVars

LEMMA ServeStep == IInv /\ Serve => IInv'
<1> SUFFICES ASSUME IInv, Serve
             PROVE  IInv'
  OBVIOUS
<1>1. UNCHANGED <<taskVars, inbox, output, clientState>>
  BY DEF Serve, clientState, stateVars, listVars, nameVars, history
<1>2. QueueType /\ ServerType
  BY DEF IInv, Types
<1>3. ASSUME NEW id \in Ids, NEW n \in Names \cup {NoName}, ServeCreate(id, n)
      PROVE  IInv'
  BY <1>1, <1>3, ServeCreateStep
<1>4. ASSUME NEW id \in Ids, ServeDelete(id)
      PROVE  IInv'
  BY <1>1, <1>4, ServeDeleteStep
<1>5. ASSUME NEW id \in Contexts, ServeNotice(id)
      PROVE  IInv'
  <2> DEFINE m == [kind |-> "notify", id |-> id]
  <2>1. m \in Messages /\ Inert(m)
    BY DEF Messages, Inert
  <2>2. Send(m) /\ UNCHANGED <<issued, live, asked, peer, resets>>
    BY <1>5 DEF ServeNotice
  <2> HIDE DEF m
  <2> QED
    BY <1>1, <1>2, <2>1, <2>2, ServeInertStep DEF ServerType
<1>6. ASSUME NEW i \in Calls, ServeReply(i)
      PROVE  IInv'
  <2> DEFINE m == [kind |-> "reply", call |-> i]
  <2>1. m \in Messages /\ Inert(m)
    BY DEF Messages, Inert
  <2>2. /\ Send(m) /\ UNCHANGED <<issued, live, peer, resets>>
        /\ asked' = asked \ {i}
    BY <1>6 DEF ServeReply
  <2> HIDE DEF m
  <2>3. asked' \subseteq Calls
    BY <1>2, <2>2 DEF ServerType
  <2> QED
    BY <1>1, <2>1, <2>2, <2>3, ServeInertStep
<1>7. CASE ServeReset
  BY <1>1, <1>7, ServeResetStep
<1>8. CASE Lose
  <2>1. PICK n \in 0 .. Len(wire) :
          wire' = Append(SubSeq(wire, 1, n), SocketError)
    BY <1>8 DEF Lose
  <2> DEFINE w == <<SocketError>>
  <2>2. w \in Seq({CloseFrame, SocketError, StreamEnd})
    OBVIOUS
  <2>3. SubSeq(wire, 1, n) \in Seq(Frames \cup {SocketError, StreamEnd})
    BY <1>2 DEF QueueType
  <2>4. wire' = SubSeq(wire, 1, n) \o w
    BY <2>1, <2>3
  <2> HIDE DEF w
  <2> QED
    BY <1>1, <1>8, <2>2, <2>4, OverStep DEF Lose
<1>9. CASE ServeClose
  <2> DEFINE w == <<CloseFrame, StreamEnd>>
             n == Len(wire)
  <2>1. w \in Seq({CloseFrame, SocketError, StreamEnd})
    OBVIOUS
  <2>2. wire \in Seq(Frames \cup {SocketError, StreamEnd})
    BY <1>2 DEF QueueType
  <2>3. wire = SubSeq(wire, 1, n) /\ n \in 0 .. Len(wire)
    BY <2>2
  <2>4. wire' = SubSeq(wire, 1, n) \o w
    BY <1>9, <2>3 DEF ServeClose
  <2> HIDE DEF w, n
  <2> QED
    BY <1>1, <1>9, <2>1, <2>3, <2>4, OverStep DEF ServeClose
<1>10. CASE ServePing
  <2>1. Ping \in Messages \cup {Ping} /\ Inert(Ping)
    BY FramesInert
  <2>2. Send(Ping) /\ UNCHANGED <<issued, live, asked, peer, resets>>
    BY <1>10 DEF ServePing
  <2> QED
    BY <1>1, <1>2, <2>1, <2>2, ServeInertStep DEF ServerType
<1> QED
  BY <1>3, <1>4, <1>5, <1>6, <1>7, <1>8, <1>9, <1>10 DEF Serve

-----------------------------------------------------------------------------
(* incoming_message_task. *)

(* It no longer reads: the stream ends with what it passed on. *)
LEMMA NoLongerReads ==
  ASSUME QueueType, QueueType', StreamFits, ~ Reading', UNCHANGED clientState,
         issued' = issued, inbox' = inbox \/ inbox' = Append(inbox, Closed)
  PROVE  StreamFits' /\ ServerFits'
<1>1. inbox \in Seq(AllFrames) /\ Closed \in AllFrames
  BY DEF QueueType, AllFrames
<1>2. Stream' = inbox'
  BY DEF Stream
<1> DEFINE n == Len(inbox)
<1>3. /\ n \in 0 .. Len(Stream) /\ n <= Len(Stream')
      /\ \A j \in 1 .. n : Stream'[j] = Stream[j]
      /\ \A j \in n + 1 .. Len(Stream') : Stream'[j] = Closed
  <2>1. /\ n \in 0 .. Len(Stream)
        /\ \A j \in 1 .. n : Stream[j] = inbox[j]
    BY StreamType
  <2>2. CASE inbox' = inbox
    BY <1>1, <1>2, <2>1, <2>2
  <2>3. CASE inbox' = Append(inbox, Closed)
    BY <1>1, <1>2, <2>1, <2>3
  <2> QED
    BY <2>2, <2>3
<1> HIDE DEF n
<1>4. \A j \in n + 1 .. Len(Stream') :
        ~ Creates(Stream'[j]) /\ ~ Deletes(Stream'[j])
  BY <1>3, FramesInert
<1> QED
  BY <1>3, <1>4, CutStream DEF ServerFits

(* The stream stays as it is. *)
LEMMA SameStream ==
  ASSUME StreamFits, ServerFits, UNCHANGED clientState, Stream' = Stream,
         issued' = issued, live' = live, Reading' => Reading,
         peer' # "over" => peer # "over"
  PROVE  StreamFits' /\ ServerFits'
<1>1. Here' = Here /\ Known' = Known /\ Past' = Past
  BY SameClient
<1>2. UNCHANGED <<worker, mistyped>>
  BY DEF clientState
<1> QED
  BY <1>1, <1>2 DEF StreamFits, ServerFits

LEMMA ReadsStep ==
  ASSUME IInv, IncomingReads,
         UNCHANGED <<serverVars, asked, peer, forward, forwardStop, output,
                     clientState>>
  PROVE  IInv'
<1>1. QueueType /\ StreamFits /\ ServerFits /\ ServerType /\ TaskType
  BY DEF IInv, Types
<1> DEFINE h == Head(wire)
<1>2. /\ wire \in Seq(Frames \cup {SocketError, StreamEnd}) /\ wire # <<>>
      /\ wire' = Tail(wire) /\ incoming = "on" /\ incomingStop' = incomingStop
      /\ inbox \in Seq(Frames \cup {Closed}) /\ inbox \in Seq(AllFrames)
  BY <1>1 DEF IncomingReads, QueueType, AllFrames
<1>3. /\ h \in Frames \cup {SocketError, StreamEnd} /\ h \in AllFrames
      /\ h = wire[1] /\ Len(wire) \in Nat /\ 1 \in 1 .. Len(wire)
      /\ wire' \in Seq(Frames \cup {SocketError, StreamEnd})
      /\ wire' \in Seq(AllFrames) /\ Len(wire') = Len(wire) - 1
      /\ \A j \in 1 .. Len(wire') : j + 1 \in 1 .. Len(wire) /\ wire'[j] = wire[j + 1]
  BY <1>2 DEF AllFrames
<1>4. \/ incoming' = "panicked" /\ inbox' = inbox
      \/ incoming' = "ended" /\ inbox' = Append(inbox, Closed)
      \/ /\ h # SocketError /\ h # StreamEnd
         /\ inbox' = Append(inbox, h) /\ incoming' = incoming
  BY DEF IncomingReads
<1> HIDE DEF h
<1>p. \/ inbox' = inbox
      \/ \E e \in Frames \cup {Closed} : e \in {h, Closed} /\ inbox' = Append(inbox, e)
  BY <1>3, <1>4
<1>5. /\ inbox' \in Seq(Frames \cup {Closed})
      /\ \A k \in 1 .. Len(inbox') :
           \/ inbox'[k] \in {h, Closed}
           \/ k \in 1 .. Len(inbox) /\ inbox'[k] = inbox[k]
  <2>1. CASE inbox' = inbox
    BY <1>2, <2>1
  <2>2. ASSUME NEW e \in Frames \cup {Closed}, e \in {h, Closed},
               inbox' = Append(inbox, e)
        PROVE  /\ inbox' \in Seq(Frames \cup {Closed})
               /\ \A k \in 1 .. Len(inbox') :
                    \/ inbox'[k] \in {h, Closed}
                    \/ k \in 1 .. Len(inbox) /\ inbox'[k] = inbox[k]
    BY <1>2, <2>2
  <2> QED
    BY <1>p, <2>1, <2>2
<1>6. QueueType'
  BY <1>1, <1>3, <1>5 DEF QueueType
<1>8. StreamFits' /\ ServerFits'
  <2>1. CASE incoming' \in {"panicked", "ended"}
    <3>1. ~ Reading' /\ (inbox' = inbox \/ inbox' = Append(inbox, Closed))
      BY <1>2, <1>4, <2>1 DEF Reading
    <3> QED
      BY <1>1, <1>6, <3>1, NoLongerReads DEF serverVars
  <2>2. CASE h # SocketError /\ h # StreamEnd
             /\ inbox' = Append(inbox, h) /\ incoming' = incoming
    <3>1. Reading /\ Reading'
      BY <1>2, <2>2 DEF Reading
    <3>2. Stream = inbox \o wire /\ Stream' = Append(inbox, h) \o Tail(wire)
      BY <1>2, <2>2, <3>1 DEF Stream
    <3>3. Append(inbox, h) \o Tail(wire) = inbox \o wire
      <4>1. wire \in Seq(AllFrames) /\ h = Head(wire)
        BY <1>1 DEF QueueType, AllFrames, h
      <4> QED
        BY <1>2, <4>1
    <3> QED
      BY <1>1, <3>1, <3>2, <3>3, SameStream DEF serverVars
  <2> QED
    BY <1>4, <2>1, <2>2
<1>9. TaskType' /\ ServerType'
  BY <1>1, <1>2, <1>4 DEF TaskType, ServerType, serverVars, clientState
<1> QED
  BY <1>6, <1>8, <1>9, ClientStays

LEMMA IncomingStep == IInv /\ Incoming => IInv'
<1> SUFFICES ASSUME IInv, Incoming
             PROVE  IInv'
  OBVIOUS
<1>1. UNCHANGED <<serverVars, asked, peer, forward, forwardStop, output,
                  clientState>>
  BY DEF Incoming, clientState, stateVars, listVars, nameVars, history
<1>2. QueueType /\ StreamFits /\ ServerFits /\ ServerType /\ TaskType
  BY DEF IInv, Types
<1>3. CASE IncomingStarts
  <2>1. /\ incoming = "spawned" /\ incoming' = "on"
        /\ UNCHANGED <<wire, inbox, incomingStop>>
    BY <1>3 DEF IncomingStarts
  <2>2. Reading /\ Reading'
    BY <2>1 DEF Reading
  <2>3. Stream' = Stream
    BY <2>1, <2>2 DEF Stream
  <2>4. StreamFits' /\ ServerFits'
    BY <1>1, <1>2, <2>2, <2>3, SameStream DEF serverVars
  <2>5. TaskType' /\ ServerType' /\ QueueType'
    BY <1>1, <1>2, <2>1 DEF TaskType, ServerType, QueueType,
       serverVars, clientState
  <2> QED
    BY <1>1, <2>4, <2>5, ClientStays
<1>4. CASE IncomingStops
  <2>1. /\ incoming' = "ended"
        /\ UNCHANGED <<wire, inbox, incomingStop>>
    BY <1>4 DEF IncomingStops
  <2>2. ~ Reading'
    BY <2>1 DEF Reading
  <2>3. TaskType' /\ ServerType' /\ QueueType'
    BY <1>1, <1>2, <2>1 DEF TaskType, ServerType, QueueType,
       serverVars, clientState
  <2>4. StreamFits' /\ ServerFits'
    BY <1>1, <1>2, <2>1, <2>2, <2>3, NoLongerReads DEF serverVars
  <2> QED
    BY <1>1, <2>3, <2>4, ClientStays
<1>5. CASE IncomingReads
  BY <1>1, <1>5, ReadsStep
<1> QED
  BY <1>3, <1>4, <1>5 DEF Incoming

-----------------------------------------------------------------------------
(* forward_task. *)

LEMMA ForwardStep == IInv /\ Forward => IInv'
<1> SUFFICES ASSUME IInv, Forward
             PROVE  IInv'
  OBVIOUS
<1>1. UNCHANGED <<serverVars, wire, incoming, inbox, clientState>>
  BY DEF Forward, clientState, stateVars, listVars, nameVars, history
<1>2. QueueType /\ StreamFits /\ ServerFits /\ ServerType /\ TaskType
  BY DEF IInv, Types
<1>3. Stream' = Stream /\ Reading' = Reading
  BY <1>1 DEF Stream, Reading
<1>4. /\ forward' = "on" => forward = "on" /\ peer' = peer
      /\ peer' # "over" => peer # "over"
      /\ peer' \in {peer, "closing"} /\ asked' \subseteq Calls
      /\ output' \in Seq(Calls \cup {Close})
      /\ forward' \in {"on", "closing", "ended", "panicked"}
      /\ incomingStop' \in BOOLEAN /\ forwardStop' \in BOOLEAN
  <2>1. CASE ForwardStops
    BY <1>2, <2>1 DEF ForwardStops, TaskType, ServerType, QueueType
  <2>2. CASE ForwardSends
    <3>1. Head(output) \in Calls /\ Tail(output) \in Seq(Calls \cup {Close})
      BY <1>2, <2>2 DEF ForwardSends, QueueType
    <3> QED
      BY <1>2, <2>2, <3>1 DEF ForwardSends, TaskType, ServerType
  <2>3. CASE ForwardCloses
    <3>1. Tail(output) \in Seq(Calls \cup {Close})
      BY <1>2, <2>3 DEF ForwardCloses, QueueType
    <3> QED
      BY <1>2, <2>3, <3>1 DEF ForwardCloses, TaskType, ServerType
  <2>4. CASE ForwardTellsAll
    BY <1>2, <2>4 DEF ForwardTellsAll, StopSent, TaskType, ServerType, QueueType
  <2> QED
    BY <2>1, <2>2, <2>3, <2>4 DEF Forward
<1>5. StreamFits' /\ ServerFits'
  BY <1>1, <1>2, <1>3, <1>4, SameStream DEF serverVars
<1>6. TaskType' /\ ServerType' /\ QueueType'
  BY <1>1, <1>2, <1>4 DEF TaskType, ServerType, QueueType,
     serverVars, clientState
<1> QED
  BY <1>1, <1>4, <1>5, <1>6, ClientStays

-----------------------------------------------------------------------------
(* The worker. *)

workerKeeps == <<serverVars, asked, peer, wire, incoming, forward>>

(* It goes on. *)
LEMMA WorkerOn ==
  ASSUME IInv, UNCHANGED workerKeeps, UNCHANGED stops, worker = "on",
         worker' = "on", QueueType', ClientType', TakenApart',
         MapsFit', NamesAgree', StreamFits', ServerFits'
  PROVE  IInv'
<1>1. TaskType' /\ ServerType'
  BY DEF IInv, Types, TaskType, ServerType, workerKeeps, serverVars, stops
<1>2. WorkerSurvives'
  BY DEF WorkerSurvives
<1> QED
  BY <1>1, <1>2 DEF IInv, Types

(* It ends. *)
LEMMA WorkerGone ==
  ASSUME IInv, UNCHANGED workerKeeps, worker' \in {"panicked", "ended", "misread"},
         QueueType', ClientType', TakenApart',
         incomingStop' \in BOOLEAN, forwardStop' \in BOOLEAN,
         worker' = "panicked" => forward # "on" \/ mistyped' # {}
  PROVE  IInv'
<1>1. TaskType' /\ ServerType'
  BY DEF IInv, Types, TaskType, ServerType, workerKeeps, serverVars
<1>2. WorkerSurvives'
  BY DEF WorkerSurvives, workerKeeps
<1>3. MapsFit' /\ NamesAgree' /\ StreamFits' /\ ServerFits'
  BY DEF MapsFit, NamesAgree, StreamFits, ServerFits
<1> QED
  BY <1>1, <1>2, <1>3 DEF IInv, Types

LEMMA InboxKept ==
  ASSUME IInv, UNCHANGED workerKeeps, output' \in Seq(Calls \cup {Close}),
         inbox' = inbox \/ (inbox # <<>> /\ inbox' = Tail(inbox))
  PROVE  QueueType'
<1>1. QueueType
  BY DEF IInv, Types
<1>2. inbox \in Seq(Frames \cup {Closed})
  BY <1>1 DEF QueueType
<1>3. /\ inbox' \in Seq(Frames \cup {Closed})
      /\ \A k \in 1 .. Len(inbox') : \E i \in 1 .. Len(inbox) : inbox'[k] = inbox[i]
  <2>1. CASE inbox' = inbox
    BY <1>2, <2>1
  <2>2. CASE inbox # <<>> /\ inbox' = Tail(inbox)
    <3>1. /\ inbox' \in Seq(Frames \cup {Closed})
          /\ \A k \in 1 .. Len(inbox') : k + 1 \in 1 .. Len(inbox) /\ inbox'[k] = inbox[k + 1]
      BY <1>2, <2>2
    <3> QED
      BY <3>1
  <2> QED
    BY <2>1, <2>2
<1> QED
  BY <1>1, <1>3 DEF QueueType, workerKeeps

(* The first message is what the worker takes. *)
LEMMA TakeStream ==
  ASSUME IInv, inbox # <<>>, inbox' = Tail(inbox), UNCHANGED workerKeeps
  PROVE  LET s == Stream
             t == Stream'
         IN /\ Len(t) \in Nat /\ Len(s) = Len(t) + 1
            /\ \A j \in 1 .. Len(t) : t[j] = s[j + 1]
            /\ s[1] = Head(inbox) /\ Reading' = Reading
<1>1. QueueType
  BY DEF IInv, Types
<1>2. inbox \in Seq(AllFrames) /\ wire \in Seq(AllFrames)
  BY <1>1 DEF QueueType, AllFrames
<1>3. Reading' = Reading /\ wire' = wire
  BY DEF Reading, workerKeeps
<1>4. Stream' = Tail(Stream) /\ Stream # <<>> /\ Head(Stream) = Head(inbox)
  <2>1. CASE Reading
    <3>1. Stream = inbox \o wire /\ Stream' = Tail(inbox) \o wire
      BY <1>3, <2>1 DEF Stream
    <3>2. Tail(inbox) \o wire = Tail(inbox \o wire)
      BY <1>2
    <3> QED
      BY <1>2, <3>1, <3>2
  <2>2. CASE ~ Reading
    BY <1>3, <2>2 DEF Stream
  <2> QED
    BY <2>1, <2>2
<1>5. Stream \in Seq(AllFrames)
  BY <1>1, StreamType
<1> DEFINE s == Stream
           t == Stream'
<1>6. s \in Seq(AllFrames) /\ s # <<>> /\ t = Tail(s) /\ Head(s) = Head(inbox)
  BY <1>4, <1>5
<1> HIDE DEF s, t
<1>7. /\ Len(t) \in Nat /\ Len(s) = Len(t) + 1
      /\ \A j \in 1 .. Len(t) : t[j] = s[j + 1]
      /\ s[1] = Head(inbox)
  BY <1>6
<1> QED
  BY <1>3, <1>7 DEF s, t

LEMMA TakeFits ==
  ASSUME IInv, inbox # <<>>, inbox' = Tail(inbox), UNCHANGED workerKeeps,
         worker = "on", NEW m, m = Head(inbox),
         mistyped' = mistyped,
         \A x \in Here : ~ Ends(m, x) => x \in Here',
         Creates(m) => m.id \in Here',
         \A x \in Past' : x \in Past \/ (Creates(m) /\ x = m.id),
         \A x \in Here' :
           \/ x \in Here /\ Known'[x] = Known[x] /\ ~ Ends(m, x)
           \/ Creates(m) /\ m.id = x /\ Known'[x] = m.name
  PROVE  StreamFits' /\ ServerFits'
<1> DEFINE s == Stream
           t == Stream'
           H2 == Here'
           K2 == Known'
           P2 == Past'
<1>1. /\ Len(t) \in Nat /\ Len(s) = Len(t) + 1
      /\ \A j \in 1 .. Len(t) : t[j] = s[j + 1]
      /\ s[1] = m /\ Reading' = Reading
  BY TakeStream
<1>2. StreamFits /\ ServerFits
  BY DEF IInv
<1>3. /\ Fresh(s, Past, issued)
      /\ mistyped = {} => DeletesKnown(s, Here)
      /\ DistinctNames => NamesFree(s, Known)
      /\ Reading /\ peer # "over" =>
           /\ mistyped = {} => LiveKnown(s, Here, live)
           /\ LiveNamed(s, Known, live)
  BY <1>2 DEF StreamFits, ServerFits
<1>4. UNCHANGED <<issued, live, peer>>
  BY DEF workerKeeps, serverVars
<1>5. DOMAIN Known = Here /\ DOMAIN K2 = H2
  BY DEF Known
<1>6. /\ \A x \in Here : ~ Ends(m, x) => x \in H2
      /\ Creates(m) => m.id \in H2
      /\ \A x \in P2 : x \in Past \/ (Creates(m) /\ x = m.id)
      /\ \A x \in DOMAIN K2 :
           \/ x \in DOMAIN Known /\ K2[x] = Known[x] /\ ~ Ends(m, x)
           \/ Creates(m) /\ m.id = x /\ K2[x] = m.name
  BY <1>5
<1> HIDE DEF s, t, H2, K2, P2
<1>7. Fresh(t, P2, issued)
  BY <1>1, <1>3, <1>6, TakeFresh
<1>8. /\ DeletesKnown(s, Here) => DeletesKnown(t, H2)
      /\ LiveKnown(s, Here, live) => LiveKnown(t, H2, live)
  BY <1>1, <1>6, TakeKnown
<1>9. /\ NamesFree(s, Known) => NamesFree(t, K2)
      /\ LiveNamed(s, Known, live) => LiveNamed(t, K2, live)
  BY <1>1, <1>6, TakeNamed
<1> QED
  BY <1>1, <1>3, <1>4, <1>7, <1>8, <1>9 DEF StreamFits, ServerFits, t, H2, K2, P2

(* What the invariant says of the message. *)
LEMMA FirstMessage ==
  ASSUME IInv, inbox # <<>>, worker = "on", NEW m, m = Head(inbox)
  PROVE  /\ m \in AllFrames
         /\ Creates(m) =>
              /\ m.id \notin Past
              /\ DistinctNames /\ m.name # NoName =>
                   \A x \in Here : Known[x] # m.name
         /\ Deletes(m) /\ mistyped = {} => m.id \in Here
<1>1. QueueType /\ StreamFits
  BY DEF IInv, Types
<1>2. /\ inbox \in Seq(AllFrames) /\ m = inbox[1] /\ 1 \in 1 .. Len(inbox)
      /\ m \in AllFrames
  BY <1>1 DEF QueueType, AllFrames
<1> DEFINE s == Stream
<1>3. Len(s) \in Nat /\ s[1] = m /\ 1 \in 1 .. Len(s)
  BY <1>1, <1>2, StreamType
<1>4. /\ Fresh(s, Past, issued)
      /\ mistyped = {} => DeletesKnown(s, Here)
      /\ DistinctNames => NamesFree(s, Known)
  BY <1>1 DEF StreamFits
<1> HIDE DEF s
<1>5. Creates(m) => m.id \notin Past
  BY <1>3, <1>4 DEF Fresh
<1>6. ASSUME Creates(m), DistinctNames, m.name # NoName, NEW x \in Here
      PROVE  Known[x] # m.name
  <2>1. Lasts(s, 1, 1 - 1, x)
    BY DEF Lasts
  <2>2. x \in DOMAIN Known
    BY DEF Known
  <2> QED
    BY <1>3, <1>4, <1>6, <2>1, <2>2 DEF NamesFree
<1>7. ASSUME Deletes(m), mistyped = {}
      PROVE  m.id \in Here
  <2>1. Available(s, Here, 1, m.id)
    BY <1>3, <1>4, <1>7 DEF DeletesKnown
  <2> QED
    BY <2>1 DEF Available
<1> QED
  BY <1>2, <1>5, <1>6, <1>7

(* A delegate, or the document, is taken out and called. *)
LEMMA EnterDelegate ==
  ASSUME IInv, worker = "on", calling = NoCallback, calling' \in Callbacks,
         calling'.kind # "make", calling'.id \in components \cup {Document},
         components' = components \ {calling'.id},
         UNCHANGED <<worker, nameMap, revMap, mistyped>>
  PROVE  /\ Here' = Here /\ Known' = Known /\ Past' = Past
         /\ TakenApart' /\ MapsFit' /\ NamesAgree'
<1>1. ClientType /\ TakenApart /\ MapsFit /\ NamesAgree
  BY DEF IInv, Types
<1>2. calling' # NoCallback
  BY CallbackConstants
<1>3. Document \notin components /\ Document \notin mistyped
  BY <1>1, IdsFacts DEF ClientType
<1>4. Here = components
  BY DEF Here
<1>5. Here' = Here
  BY <1>2, <1>3, <1>4 DEF Here
<1>6. ~ Making /\ ~ Making'
  BY <1>2 DEF Making
<1>7. Known' = Known
  BY <1>5, <1>6 DEF Known, NameOf
<1>8. Past' = Past
  BY <1>5 DEF Past
<1>9. TakenApart'
  BY <1>1, <1>3, <1>6 DEF TakenApart
<1>10. MapsFit'
  BY <1>1, <1>6 DEF MapsFit
<1>11. Present' = Present
  BY <1>2, <1>3 DEF Present
<1>12. NamesAgree'
  BY <1>1, <1>11 DEF NamesAgree
<1> QED
  BY <1>5, <1>7, <1>8, <1>9, <1>10, <1>12

(* Handlers.  The first message is taken, and ... *)
Takes(m) ==
  /\ worker = "on" /\ calling = NoCallback /\ inbox # <<>>
  /\ inbox' = Tail(inbox) /\ m = Head(inbox)
  /\ UNCHANGED workerKeeps

LEMMA TakenOn ==
  ASSUME IInv, NEW m, Takes(m), UNCHANGED <<worker, stops, output, mistyped>>,
         ClientType', TakenApart', MapsFit', NamesAgree',
         \A x \in Here : ~ Ends(m, x) => x \in Here',
         Creates(m) => m.id \in Here',
         \A x \in Past' : x \in Past \/ (Creates(m) /\ x = m.id),
         \A x \in Here' :
           \/ x \in Here /\ Known'[x] = Known[x] /\ ~ Ends(m, x)
           \/ Creates(m) /\ m.id = x /\ Known'[x] = m.name
  PROVE  IInv'
<1>1. StreamFits' /\ ServerFits'
  BY TakeFits DEF Takes
<1>2. output' \in Seq(Calls \cup {Close})
  BY DEF IInv, Types, QueueType
<1>3. QueueType'
  BY <1>2, InboxKept DEF Takes
<1>4. worker' = "on"
  BY DEF Takes
<1> QED
  BY <1>1, <1>3, <1>4, WorkerOn DEF Takes

LEMMA TakenInert ==
  ASSUME IInv, NEW m, Inert(m), Takes(m),
         UNCHANGED <<worker, stops, output, mistyped>>,
         ClientType', TakenApart', MapsFit', NamesAgree',
         Here' = Here, Known' = Known, Past' = Past
  PROVE  IInv'
<1>1. /\ \A x \in Here : ~ Ends(m, x) => x \in Here'
      /\ Creates(m) => m.id \in Here'
      /\ \A x \in Past' : x \in Past
      /\ \A x \in Here' : x \in Here /\ Known'[x] = Known[x] /\ ~ Ends(m, x)
  BY FramesInert
<1> QED
  BY <1>1, TakenOn

(* ... it does not matter here. *)
LEMMA IgnoreStep ==
  ASSUME IInv, NEW m, Inert(m), Takes(m), Ignore
  PROVE  IInv'
<1>1. UNCHANGED clientState /\ UNCHANGED <<stops, output, mistyped, worker>>
  BY DEF Ignore, clientState, stateVars, listVars, nameVars, history
<1>2. ClientType' /\ TakenApart' /\ MapsFit' /\ NamesAgree'
      /\ Here' = Here /\ Known' = Known /\ Past' = Past
  BY <1>1, SameClient DEF IInv, Types
<1> QED
  BY <1>1, <1>2, TakenInert

(* ... the thread unwinds. *)
LEMMA UnwindStep ==
  ASSUME IInv, UNCHANGED workerKeeps, worker' \in {"panicked", "misread"},
         UNCHANGED <<stops, output, calling, stateVars>>,
         inbox' = inbox \/ (inbox # <<>> /\ inbox' = Tail(inbox)),
         worker' = "panicked" => forward # "on" \/ mistyped # {}
  PROVE  IInv'
<1>1. /\ UNCHANGED <<stops, output, mistyped>>
      /\ UNCHANGED <<calling, components, nameMap, revMap, subs, epoch, made>>
  BY DEF stateVars, listVars, nameVars, history
<1>2. ClientType'
  BY <1>1 DEF IInv, Types, ClientType
<1>3. TakenApart'
  BY <1>1 DEF IInv, TakenApart, Making
<1>4. /\ output' \in Seq(Calls \cup {Close})
      /\ incomingStop' \in BOOLEAN /\ forwardStop' \in BOOLEAN
  BY <1>1 DEF IInv, Types, QueueType, TaskType, stops
<1>5. QueueType'
  BY <1>4, InboxKept
<1> QED
  BY <1>1, <1>2, <1>3, <1>4, <1>5, WorkerGone

(* ... the worker panics. *)
LEMMA PanicStep ==
  ASSUME IInv, UNCHANGED workerKeeps, Panic,
         inbox' = inbox \/ (inbox # <<>> /\ inbox' = Tail(inbox)),
         forward # "on" \/ mistyped # {}
  PROVE  IInv'
  BY UnwindStep DEF Panic

(* ... the frame has no messages. *)
LEMMA MisreadStep ==
  ASSUME IInv, NEW m, Takes(m), HandleOtherFrame(m)
  PROVE  IInv'
  BY UnwindStep DEF Takes, HandleOtherFrame

(* ... the worker ends. *)
LEMMA FinishStep ==
  ASSUME IInv, UNCHANGED workerKeeps, Finish, calling = NoCallback,
         inbox' = inbox \/ (inbox # <<>> /\ inbox' = Tail(inbox))
  PROVE  IInv'
<1>1. /\ worker' = "ended"
      /\ components' = {} /\ nameMap' = Empty /\ subs' = Empty
      /\ UNCHANGED <<output, calling, revMap, mistyped, epoch, made>>
  BY DEF Finish, Clear, history
<1>2. DOMAIN Empty = {} /\ Range(Empty) = {}
  BY DEF Empty, Range
<1>3. ClientType'
  BY <1>1, <1>2 DEF IInv, Types, ClientType
<1>4. TakenApart'
  BY <1>1 DEF IInv, TakenApart, Making
<1>5. /\ output' \in Seq(Calls \cup {Close})
      /\ incomingStop' \in BOOLEAN /\ forwardStop' \in BOOLEAN
  BY <1>1 DEF IInv, Types, QueueType, TaskType, Finish, StopSent
<1>6. QueueType'
  BY <1>5, InboxKept
<1> QED
  BY <1>1, <1>3, <1>4, <1>5, <1>6, WorkerGone

(* ... its delegate is made. *)
LEMMA CreateStep ==
  ASSUME IInv, NEW m, Takes(m), HandleCreate(m)
  PROVE  IInv'
<1> DEFINE c == [kind |-> "make", id |-> m.id, name |-> m.name]
<1>1. /\ calling = NoCallback /\ calling' = c /\ Creates(m)
      /\ UNCHANGED <<worker, stops, output, mistyped, nameMap, revMap, subs,
                     components, epoch, made>>
  BY DEF Takes, HandleCreate, Enter, Creates, nameVars, history
<1>2. /\ m \in AllFrames /\ m.id \notin Past
      /\ DistinctNames /\ m.name # NoName =>
                \A x \in Here : Known[x] # m.name
  BY <1>1, FirstMessage DEF Takes
<1>3. m.id \in Ids /\ m.name \in Names \cup {NoName}
  BY <1>1, <1>2, MessageParts
<1>4. c \in Callbacks /\ c # NoCallback
  BY <1>3, CallbackConstants DEF Callbacks
<1>5. c.id = m.id /\ c.name = m.name /\ c.kind = "make"
  OBVIOUS
<1> HIDE DEF c
<1>6. ClientType /\ TakenApart /\ MapsFit /\ NamesAgree
  BY DEF IInv, Types
<1>7. Here = components /\ Here' = components \cup {m.id}
  BY <1>1, <1>3, <1>4, <1>5, IdsFacts DEF Here
<1>8. ~ Making /\ Making'
  BY <1>1, <1>4, <1>5 DEF Making
<1>9. m.id \notin components /\ m.id \notin mistyped /\ m.id \notin DOMAIN revMap
  BY <1>2, <1>7 DEF Past
<1>10. /\ \A x \in Here : Known'[x] = Known[x]
       /\ Known'[m.id] = m.name
  BY <1>1, <1>5, <1>7, <1>8, <1>9 DEF Known, NameOf
<1>11. Past' = Past \cup {m.id}
  BY <1>1, <1>7 DEF Past
<1>12. ClientType'
  BY <1>1, <1>4, <1>6 DEF ClientType
<1>13. TakenApart'
  BY <1>1, <1>4, <1>5, <1>6, <1>9 DEF TakenApart
<1>14. ASSUME DistinctNames, m.name # NoName,
              NEW x \in components \cap DOMAIN revMap
       PROVE  revMap[x] # m.name
  BY <1>2, <1>7, <1>8, <1>14 DEF Known, NameOf
<1>15. MapsFit'
  BY <1>1, <1>5, <1>6, <1>14 DEF MapsFit, Takes
<1>16. Present = components /\ Present' = components
  BY <1>1, <1>4, <1>5 DEF Present
<1>17. NamesAgree'
  BY <1>1, <1>6, <1>16 DEF NamesAgree
<1>18. \A x : ~ Ends(m, x)
  BY <1>1 DEF Creates, Ends
<1> QED
  BY <1>1, <1>7, <1>10, <1>11, <1>12, <1>13, <1>15, <1>17, <1>18, TakenOn

(* ... it is deleted, and so is its name. *)
LEMMA DeleteStep ==
  ASSUME IInv, NEW m, Takes(m), HandleDelete(m)
  PROVE  IInv'
<1>1. calling = NoCallback /\ worker = "on" /\ Deletes(m)
  BY DEF Takes, HandleDelete, Deletes
<1>2. ClientType /\ TakenApart /\ MapsFit /\ NamesAgree
  BY DEF IInv, Types
<1>3. Here = components /\ ~ Making /\ Present = components
  BY <1>1 DEF Here, Making, Present
<1>4. CASE m.id \notin components
  <2>1. Panic
    BY <1>4 DEF HandleDelete
  <2>2. mistyped # {}
    BY <1>1, <1>3, <1>4, FirstMessage DEF Takes
  <2> QED
    BY <2>1, <2>2, PanicStep DEF Takes
<1>5. CASE m.id \in components
  <2> DEFINE id == m.id
  <2>1. /\ OnDelete(id)
        /\ UNCHANGED <<worker, stops, output, calling, mistyped, subs, epoch, made>>
    BY <1>5 DEF HandleDelete, history
  <2> HIDE DEF id
  <2>2. components' = components \ {id}
    BY <2>1 DEF OnDelete
  <2>3. Here' = components \ {id} /\ ~ Making' /\ Present' = components \ {id}
    BY <1>1, <2>1, <2>2 DEF Here, Making, Present
  <2>4. \/ /\ id \in DOMAIN revMap
           /\ nameMap' = Without(nameMap, revMap[id])
           /\ revMap' = Without(revMap, id)
        \/ id \notin DOMAIN revMap /\ UNCHANGED <<nameMap, revMap>>
    BY <2>1 DEF OnDelete
  <2>5. /\ DOMAIN revMap' = DOMAIN revMap \ {id}
        /\ \A x \in DOMAIN revMap' : revMap'[x] = revMap[x]
    BY <2>4 DEF Without
  <2>6. /\ DOMAIN nameMap' \subseteq DOMAIN nameMap
        /\ \A n \in DOMAIN nameMap' : nameMap'[n] = nameMap[n]
        /\ \A n \in DOMAIN nameMap' : id \in DOMAIN revMap => n # revMap[id]
        /\ \A n \in DOMAIN nameMap :
             n \in DOMAIN nameMap' \/ (id \in DOMAIN revMap /\ n = revMap[id])
    BY <2>4 DEF Without
  <2>7. ClientType'
    BY <1>2, <2>1, <2>2, <2>5, <2>6 DEF ClientType, Range
  <2>8. TakenApart'
    BY <1>1, <1>2, <2>1, <2>2, <2>3 DEF TakenApart
  <2>9. ASSUME DistinctNames, NEW n \in DOMAIN nameMap'
        PROVE  /\ nameMap'[n] \in DOMAIN revMap' /\ revMap'[nameMap'[n]] = n
               /\ nameMap'[n] # id
    <3>1. nameMap[n] \in DOMAIN revMap /\ revMap[nameMap[n]] = n
      BY <1>1, <1>2, <2>6, <2>9 DEF MapsFit
    <3>2. nameMap[n] # id
      BY <2>6, <3>1
    <3> QED
      BY <2>5, <2>6, <3>1, <3>2
  <2>10. MapsFit'
    BY <2>3, <2>9 DEF MapsFit
  <2>11. NamesAgree'
    <3> SUFFICES ASSUME DistinctNames
                 PROVE  /\ \A x \in Present' \cap DOMAIN revMap' :
                             revMap'[x] \in DOMAIN nameMap' /\ nameMap'[revMap'[x]] = x
                        /\ Range(nameMap') \subseteq Present' \cup mistyped'
      BY DEF NamesAgree
    <3>1. /\ \A x \in components \cap DOMAIN revMap :
               revMap[x] \in DOMAIN nameMap /\ nameMap[revMap[x]] = x
          /\ Range(nameMap) \subseteq components \cup mistyped
      BY <1>1, <1>2, <1>3 DEF NamesAgree
    <3>2. ASSUME NEW x \in Present' \cap DOMAIN revMap'
          PROVE  revMap'[x] \in DOMAIN nameMap' /\ nameMap'[revMap'[x]] = x
      <4>1. /\ x \in components \cap DOMAIN revMap /\ x # id
            /\ revMap'[x] = revMap[x]
        BY <2>3, <2>5
      <4>2. revMap[x] \in DOMAIN nameMap /\ nameMap[revMap[x]] = x
        BY <3>1, <4>1
      <4>3. id \in DOMAIN revMap => revMap[id] # revMap[x]
        BY <1>5, <3>1, <4>1, <4>2 DEF id
      <4>4. revMap[x] \in DOMAIN nameMap'
        BY <2>6, <4>2, <4>3
      <4> QED
        BY <2>6, <4>1, <4>2, <4>4
    <3>3. ASSUME NEW n \in DOMAIN nameMap'
          PROVE  nameMap'[n] \in Present' \cup mistyped'
      <4>1. nameMap[n] \in components \cup mistyped
        BY <2>6, <3>1 DEF Range
      <4>2. nameMap'[n] = nameMap[n] /\ nameMap'[n] # id
        BY <2>6, <2>9
      <4> QED
        BY <2>1, <2>3, <4>1, <4>2
    <3> QED
      BY <3>2, <3>3 DEF Range
  <2>12. ASSUME NEW x \in Here'
         PROVE  x \in Here /\ Known'[x] = Known[x] /\ ~ Ends(m, x)
    <3>1. x \in Here /\ x # id
      BY <1>3, <2>3
    <3>2. Known'[x] = Known[x]
      BY <1>3, <2>3, <2>5, <3>1 DEF Known, NameOf
    <3>3. ~ Ends(m, x)
      BY <1>1, <3>1 DEF Ends, Deletes, id
    <3> QED
      BY <3>1, <3>2, <3>3
  <2>13. \A x \in Here : ~ Ends(m, x) => x \in Here'
    BY <1>1, <1>3, <2>3 DEF Ends, Deletes, id
  <2>14. Past' \subseteq Past
    BY <1>3, <2>1, <2>3, <2>5 DEF Past
  <2>15. ~ Creates(m)
    BY <1>1 DEF Creates, Deletes
  <2> QED
    BY <2>1, <2>7, <2>8, <2>10, <2>11, <2>12, <2>13, <2>14, <2>15, TakenOn
<1> QED
  BY <1>4, <1>5

(* ... a delegate hears of it. *)
LEMMA NoticeStep ==
  ASSUME IInv, NEW m, Takes(m), HandleNotice(m)
  PROVE  IInv'
<1>1. m.kind = "notify" /\ Inert(m)
  BY DEF HandleNotice, Inert
<1>2. CASE m.id \notin components
  BY <1>1, <1>2, IgnoreStep DEF HandleNotice
<1>3. CASE m.id \in components
  <2> DEFINE c == [kind |-> "notified", id |-> m.id]
  <2>1. /\ components' = components \ {m.id} /\ calling' = c
        /\ UNCHANGED <<worker, stops, output, nameMap, revMap, mistyped, subs,
                       epoch, made>>
    BY <1>3 DEF HandleNotice, TakeOut, Enter, nameVars, history
  <2>2. ClientType
    BY DEF IInv, Types
  <2>3. c \in Callbacks /\ c.kind # "make" /\ c.id = m.id
    BY <1>3, <2>2 DEF ClientType, Callbacks, Contexts
  <2> HIDE DEF c
  <2>4. ClientType'
    BY <2>1, <2>2, <2>3 DEF ClientType
  <2>5. /\ Here' = Here /\ Known' = Known /\ Past' = Past
        /\ TakenApart' /\ MapsFit' /\ NamesAgree'
    BY <1>3, <2>1, <2>3, EnterDelegate DEF Takes
  <2> QED
    BY <1>1, <2>1, <2>4, <2>5, TakenInert
<1> QED
  BY <1>2, <1>3

(* ... the document does. *)
LEMMA DocumentStep ==
  ASSUME IInv, NEW m, Takes(m), HandleDocument(m)
  PROVE  IInv'
<1> DEFINE c == [kind |-> "notified", id |-> Document]
<1>1. /\ Inert(m) /\ calling' = c
      /\ UNCHANGED <<components, worker, stops, output, nameMap, revMap,
                     mistyped, subs, epoch, made>>
  BY DEF HandleDocument, Inert, Enter, nameVars, history
<1>2. ClientType
  BY DEF IInv, Types
<1>3. c \in Callbacks /\ c.kind # "make" /\ c.id = Document
  BY DEF Callbacks, Contexts
<1> HIDE DEF c
<1>4. ClientType'
  BY <1>1, <1>2, <1>3 DEF ClientType
<1>5. components' = components \ {Document}
  BY <1>1, <1>2, IdsFacts DEF ClientType
<1>6. /\ Here' = Here /\ Known' = Known /\ Past' = Past
      /\ TakenApart' /\ MapsFit' /\ NamesAgree'
  BY <1>1, <1>3, <1>5, EnterDelegate DEF Takes
<1> QED
  BY <1>1, <1>4, <1>6, TakenInert

(* ... an invocation is closed. *)
LEMMA ReplyStep ==
  ASSUME IInv, NEW m, Takes(m), HandleReply(m)
  PROVE  IInv'
<1>1. m.kind = "reply" /\ Inert(m)
  BY DEF HandleReply, Inert
<1>2. ClientType
  BY DEF IInv, Types
<1>3. m.call \in Calls
  <2>1. m \in AllFrames
    BY FirstMessage DEF Takes
  <2> QED
    BY <1>1, <2>1, MessageParts
<1>4. CASE m.call \notin DOMAIN subs
  BY <1>1, <1>4, IgnoreStep DEF HandleReply
<1>5. CASE m.call \in DOMAIN subs
  <2> DEFINE id == subs[m.call]
             c == [kind |-> "replied", id |-> id, call |-> m.call]
  <2>1. /\ subs' = Without(subs, m.call)
        /\ IF id \in components \cup {Document}
           THEN TakeOut(id) /\ Enter(c)
           ELSE UNCHANGED <<worker, stops, output, calling, listVars, history>>
    BY <1>5 DEF HandleReply
  <2>2. /\ DOMAIN subs' \subseteq DOMAIN subs
        /\ \A i \in DOMAIN subs' : subs'[i] = subs[i]
    BY <2>1 DEF Without
  <2>3. /\ DOMAIN subs' \subseteq DOMAIN made
        /\ Range(subs') \subseteq Contexts
    BY <1>2, <2>2 DEF ClientType, Range
  <2>4. id \in Contexts
    BY <1>2, <1>5 DEF ClientType, Range
  <2>5. c \in Callbacks /\ c.kind # "make" /\ c.id = id
    BY <1>3, <2>4 DEF Callbacks
  <2> HIDE DEF id, c
  <2>6. CASE id \in components \cup {Document}
    <3>1. /\ components' = components \ {id} /\ calling' = c
          /\ UNCHANGED <<worker, stops, output, nameMap, revMap, mistyped,
                         epoch, made>>
      BY <2>1, <2>6 DEF TakeOut, Enter, nameVars, history
    <3>2. ClientType'
      BY <1>2, <2>3, <2>5, <3>1 DEF ClientType
    <3>3. /\ Here' = Here /\ Known' = Known /\ Past' = Past
          /\ TakenApart' /\ MapsFit' /\ NamesAgree'
      BY <2>5, <2>6, <3>1, EnterDelegate DEF Takes
    <3> QED
      BY <1>1, <3>1, <3>2, <3>3, TakenInert
  <2>7. CASE id \notin components \cup {Document}
    <3>1. /\ UNCHANGED <<worker, stops, output, calling, components, mistyped>>
          /\ UNCHANGED <<nameMap, revMap, epoch, made>>
      BY <2>1, <2>7 DEF listVars, nameVars, history
    <3>2. ClientType'
      BY <1>2, <2>3, <3>1 DEF ClientType
    <3>3. Here' = Here /\ Making' = Making /\ Present' = Present
      BY <3>1 DEF Here, Making, Present
    <3>4. Known' = Known /\ Past' = Past
      BY <3>1, <3>3 DEF Known, NameOf, Past
    <3>5. TakenApart'
      BY <3>1, <3>3 DEF IInv, TakenApart
    <3>6. MapsFit'
      BY <3>1, <3>3 DEF IInv, MapsFit
    <3>7. NamesAgree'
      BY <3>1, <3>3 DEF IInv, NamesAgree
    <3> QED
      BY <1>1, <3>1, <3>2, <3>3, <3>4, <3>5, <3>6, <3>7, TakenInert
  <2> QED
    BY <2>6, <2>7
<1> QED
  BY <1>4, <1>5

(* ... everything is deleted, but for the names of the IDs. *)
LEMMA ResetStep ==
  ASSUME IInv, NEW m, Takes(m), HandleReset(m)
  PROVE  IInv'
<1>1. /\ m.kind = "reset" /\ calling = NoCallback
      /\ components' = {} /\ nameMap' = Empty /\ subs' = Empty
      /\ epoch' = epoch + 1
      /\ UNCHANGED <<worker, stops, output, calling, revMap, mistyped, made>>
  BY DEF Takes, HandleReset, Clear
<1>2. DOMAIN Empty = {} /\ Range(Empty) = {}
  BY DEF Empty, Range
<1>3. ClientType'
  BY <1>1, <1>2 DEF IInv, Types, ClientType
<1>4. Here' = {} /\ ~ Making' /\ Present' = {}
  BY <1>1 DEF Here, Making, Present
<1>5. TakenApart'
  BY <1>1 DEF TakenApart, Making
<1>6. MapsFit'
  BY <1>1, <1>2, <1>4 DEF MapsFit
<1>7. NamesAgree'
  BY <1>1, <1>2, <1>4 DEF NamesAgree
<1>8. /\ \A x : Ends(m, x)
      /\ ~ Creates(m)
  BY <1>1 DEF Ends, Creates
<1>9. Past' \subseteq Past
  BY <1>1, <1>4 DEF Past
<1> QED
  BY <1>1, <1>3, <1>4, <1>5, <1>6, <1>7, <1>8, <1>9, TakenOn

LEMMA TakesStep == IInv /\ WorkerTakes /\ UNCHANGED workerKeeps => IInv'
<1> SUFFICES ASSUME IInv, WorkerTakes, UNCHANGED workerKeeps
             PROVE  IInv'
  OBVIOUS
<1> DEFINE m == Head(inbox)
<1>1. Takes(m)
  BY DEF Takes, WorkerTakes
<1>2. \/ HandleCreate(m) \/ HandleDelete(m) \/ HandleNotice(m)
      \/ HandleDocument(m) \/ HandleReply(m) \/ HandleReset(m)
      \/ HandleClosed(m) \/ HandleOtherFrame(m)
  BY DEF WorkerTakes
<1> HIDE DEF m
<1>4. CASE HandleClosed(m)
  BY <1>1, <1>4, FinishStep DEF HandleClosed, Takes
<1>5. CASE HandleOtherFrame(m)
  BY <1>1, <1>5, MisreadStep DEF HandleOtherFrame, Takes
<1> QED
  BY <1>1, <1>2, <1>4, <1>5, CreateStep, DeleteStep, NoticeStep, DocumentStep,
     ReplyStep, ResetStep

LEMMA EndsStep == IInv /\ WorkerEnds /\ UNCHANGED workerKeeps => IInv'
  BY FinishStep DEF WorkerEnds

-----------------------------------------------------------------------------
(* Callbacks. *)

(* The client knows no more than before. *)
LEMMA CalledOn ==
  ASSUME IInv, worker = "on", worker' = "on", UNCHANGED workerKeeps,
         UNCHANGED <<stops, inbox>>, output' \in Seq(Calls \cup {Close}),
         ClientType', TakenApart', MapsFit', NamesAgree',
         Here' \subseteq Here, Past' \subseteq Past,
         \A x \in Here' : Known'[x] = Known[x],
         mistyped' = {} => mistyped = {} /\ Here' = Here
  PROVE  IInv'
<1>1. QueueType'
  BY InboxKept
<1>2. Reading' = Reading /\ Stream' = Stream /\ UNCHANGED <<issued, live, peer>>
  BY DEF Reading, Stream, workerKeeps, serverVars
<1>3. StreamFits /\ ServerFits
  BY DEF IInv
<1> DEFINE K2 == Known'
<1>4. /\ DOMAIN K2 \subseteq DOMAIN Known
      /\ \A x \in DOMAIN K2 : K2[x] = Known[x]
  BY DEF Known
<1> HIDE DEF K2
<1>5. /\ NamesFree(Stream, Known) => NamesFree(Stream, K2)
      /\ LiveNamed(Stream, Known, live) => LiveNamed(Stream, K2, live)
  BY <1>4, KnowLess
<1>6. Fresh(Stream, Past, issued) => Fresh(Stream, Past', issued)
  BY DEF Fresh
<1>7. StreamFits' /\ ServerFits'
  BY <1>2, <1>3, <1>5, <1>6 DEF StreamFits, ServerFits, K2
<1> QED
  BY <1>1, <1>7, WorkerOn

(* A document's callback invokes a method, or shuts down. *)
LEMMA InvokeStep ==
  ASSUME IInv, NEW context \in Contexts, InvokeMethod(context),
         UNCHANGED workerKeeps, inbox' = inbox
  PROVE  IInv'
<1> DEFINE i == Cardinality(DOMAIN made) + 1
<1>1. /\ worker = "on" /\ i \in Calls
      /\ IF ForwardListens
         THEN /\ subs' = Put(subs, i, context)
              /\ made' = Put(made, i, epoch)
              /\ output' = Append(output, i)
              /\ UNCHANGED <<worker, stops, calling, listVars, epoch>>
         ELSE Panic
  BY DEF InvokeMethod, OfDocument, InCallback
<1> HIDE DEF i
<1>2. ClientType /\ QueueType /\ TakenApart /\ MapsFit /\ NamesAgree
  BY DEF IInv, Types
<1>3. CASE ~ ForwardListens
  BY <1>1, <1>3, PanicStep DEF ForwardListens
<1>4. CASE ForwardListens
  <2>1. /\ subs' = Put(subs, i, context) /\ made' = Put(made, i, epoch)
        /\ output' = Append(output, i)
        /\ UNCHANGED <<worker, stops, calling, components, mistyped, nameMap,
                       revMap, epoch>>
    BY <1>1, <1>4 DEF listVars, nameVars
  <2>2. output' \in Seq(Calls \cup {Close})
    BY <1>1, <1>2, <2>1 DEF QueueType
  <2>3. /\ DOMAIN subs' = DOMAIN subs \cup {i}
        /\ DOMAIN made' = DOMAIN made \cup {i}
        /\ \A k \in DOMAIN subs' : subs'[k] = context \/ (k \in DOMAIN subs /\ subs'[k] = subs[k])
    BY <2>1 DEF Put
  <2>4. Range(subs') \subseteq Contexts
    BY <1>2, <2>3 DEF ClientType, Range
  <2>5. ClientType'
    BY <1>1, <1>2, <2>1, <2>3, <2>4 DEF ClientType
  <2>6. Here' = Here /\ Making' = Making /\ Present' = Present
    BY <2>1 DEF Here, Making, Present
  <2>7. Known' = Known /\ Past' = Past
    BY <2>1, <2>6 DEF Known, NameOf, Past
  <2>8. TakenApart' /\ MapsFit' /\ NamesAgree'
    BY <1>2, <2>1, <2>6 DEF TakenApart, MapsFit, NamesAgree
  <2> QED
    BY <1>1, <2>1, <2>2, <2>5, <2>6, <2>7, <2>8, CalledOn
<1> QED
  BY <1>3, <1>4

LEMMA ShutdownStep ==
  ASSUME IInv, Shutdown, UNCHANGED workerKeeps, inbox' = inbox
  PROVE  IInv'
<1>1. /\ worker = "on"
      /\ IF ForwardListens
         THEN /\ output' = Append(output, Close)
              /\ UNCHANGED <<worker, stops, calling, stateVars>>
         ELSE Panic
  BY DEF Shutdown, OfDocument, InCallback
<1>2. CASE ~ ForwardListens
  BY <1>1, <1>2, PanicStep DEF ForwardListens
<1>3. CASE ForwardListens
  <2>1. /\ output' = Append(output, Close) /\ UNCHANGED <<stops, worker, mistyped>>
        /\ UNCHANGED clientState
    BY <1>1, <1>3 DEF clientState, stateVars, listVars, nameVars, history
  <2>2. output' \in Seq(Calls \cup {Close})
    BY <2>1 DEF IInv, Types, QueueType
  <2>3. ClientType' /\ TakenApart' /\ MapsFit' /\ NamesAgree'
        /\ Here' = Here /\ Known' = Known /\ Past' = Past
    BY <2>1, SameClient DEF IInv, Types
  <2> QED
    BY <1>1, <2>1, <2>2, <2>3, CalledOn
<1> QED
  BY <1>2, <1>3

(* A callback loses a delegate. *)
LEMMA MistypedStep ==
  ASSUME IInv, NEW id \in Ids, MutateMistyped(id), UNCHANGED workerKeeps,
         inbox' = inbox
  PROVE  IInv'
<1>1. /\ worker = "on" /\ calling # NoCallback /\ id \in components
      /\ components' = components \ {id} /\ mistyped' = mistyped \cup {id}
      /\ UNCHANGED <<worker, stops, output, calling, nameMap, revMap, subs,
                     epoch, made>>
  BY DEF MutateMistyped, InCallback, nameVars, history
<1>2. ClientType /\ QueueType /\ TakenApart /\ MapsFit /\ NamesAgree
  BY DEF IInv, Types
<1>3. calling.id # id
  BY <1>1, <1>2 DEF TakenApart
<1>4. Here' = Here \ {id} /\ Making' = Making /\ Here' \subseteq Here
  BY <1>1, <1>3 DEF Here, Making
<1>5. Past' \subseteq Past
  BY <1>1, <1>4 DEF Past, Here
<1>6. \A x \in Here' : Known'[x] = Known[x]
  BY <1>1, <1>4 DEF Known, NameOf
<1>7. ClientType'
  BY <1>1, <1>2 DEF ClientType
<1>8. TakenApart'
  BY <1>1, <1>2, <1>3, <1>4 DEF TakenApart
<1>9. MapsFit'
  BY <1>1, <1>2, <1>4 DEF MapsFit
<1>10. Present' \subseteq Present /\ Present \subseteq Present' \cup {id}
  BY <1>1, <1>3 DEF Present
<1>11. NamesAgree'
  BY <1>1, <1>2, <1>10 DEF NamesAgree
<1>12. output' \in Seq(Calls \cup {Close}) /\ mistyped' # {}
  BY <1>1, <1>2 DEF QueueType
<1> QED
  BY <1>1, <1>4, <1>5, <1>6, <1>7, <1>8, <1>9, <1>11, <1>12, CalledOn

(* The maker returns: the delegate is listed, under its name. *)
LEMMA MadeStep ==
  ASSUME IInv, Return, calling.kind = "make", UNCHANGED workerKeeps,
         inbox' = inbox
  PROVE  IInv'
<1> DEFINE id == calling.id
           name == calling.name
<1>1. /\ worker = "on" /\ calling # NoCallback /\ calling' = NoCallback
      /\ OnCreate(id, name)
      /\ UNCHANGED <<worker, stops, output, mistyped, subs, epoch, made>>
  BY DEF Return, InCallback, history
<1>2. ClientType /\ QueueType /\ TakenApart /\ MapsFit /\ NamesAgree
  BY DEF IInv, Types
<1>3. id \in Ids /\ name \in Names \cup {NoName}
  BY <1>1, <1>2, CallbackParts DEF ClientType
<1>4. Making /\ ~ Making'
  BY <1>1 DEF Making
<1>5. id \notin components /\ id \notin mistyped /\ id \notin DOMAIN revMap
  BY <1>1, <1>2, <1>4 DEF TakenApart
<1>6. id # Document
  BY <1>3, IdsFacts
<1>7. components' = components \cup {id}
  BY <1>1 DEF OnCreate
<1>8. \/ name = NoName /\ UNCHANGED <<nameMap, revMap>>
      \/ /\ name \in Names /\ name # NoName
         /\ nameMap' = Put(nameMap, name, id) /\ revMap' = Put(revMap, id, name)
  BY <1>1, <1>3 DEF OnCreate
<1>9. \A x \in Here : NameOf(x) = IF x = id THEN name
                                  ELSE IF x \in DOMAIN revMap THEN revMap[x] ELSE NoName
  BY <1>4 DEF NameOf
<1>10. Here = components \cup {id} /\ Here' = Here
  BY <1>1, <1>6, <1>7 DEF Here
<1>11. Present = components /\ Present' = components \cup {id}
  BY <1>1, <1>4, <1>7 DEF Present, Making
<1>12. MapsFit /\ DistinctNames =>
           /\ \A n \in DOMAIN nameMap :
                nameMap[n] \in DOMAIN revMap /\ revMap[nameMap[n]] = n
           /\ name # NoName =>
                \A x \in components \cap DOMAIN revMap : revMap[x] # name
  BY <1>1, <1>4 DEF MapsFit
<1> HIDE DEF id, name
<1>13. /\ DOMAIN revMap' = IF name = NoName THEN DOMAIN revMap ELSE DOMAIN revMap \cup {id}
       /\ \A x \in DOMAIN revMap : x # id /\ revMap'[x] = revMap[x]
       /\ name # NoName => revMap'[id] = name
  BY <1>5, <1>8 DEF Put
<1>14. /\ DOMAIN nameMap' = IF name = NoName THEN DOMAIN nameMap ELSE DOMAIN nameMap \cup {name}
       /\ \A n \in DOMAIN nameMap : n # name => nameMap'[n] = nameMap[n]
       /\ name # NoName => nameMap'[name] = id
       /\ name = NoName => nameMap' = nameMap
  BY <1>8 DEF Put
<1>15. ClientType'
  <2>1. DOMAIN nameMap' \subseteq Names /\ DOMAIN revMap' \subseteq Ids
    BY <1>2, <1>3, <1>13, <1>14 DEF ClientType
  <2>2. \A n \in DOMAIN nameMap' :
          nameMap'[n] = id \/ (n \in DOMAIN nameMap /\ nameMap'[n] = nameMap[n])
    BY <1>14
  <2>3. \A x \in DOMAIN revMap' :
          (x = id /\ revMap'[x] \in Names) \/ (x \in DOMAIN revMap /\ revMap'[x] = revMap[x])
    BY <1>3, <1>13
  <2>4. Range(nameMap') \subseteq Ids
    BY <1>2, <1>3, <2>2 DEF ClientType, Range
  <2>5. Range(revMap') \subseteq Names
    BY <1>2, <2>3 DEF ClientType, Range
  <2> QED
    BY <1>1, <1>2, <1>3, <1>7, <2>1, <2>4, <2>5 DEF ClientType
<1>16. TakenApart'
  BY <1>1, <1>2, <1>4, <1>5, <1>7 DEF TakenApart
<1>17. ASSUME DistinctNames, NEW n \in DOMAIN nameMap'
       PROVE  nameMap'[n] \in DOMAIN revMap' /\ revMap'[nameMap'[n]] = n
  <2>1. CASE name # NoName /\ n = name
    BY <1>13, <1>14, <2>1
  <2>2. CASE ~ (name # NoName /\ n = name)
    <3>1. n \in DOMAIN nameMap /\ nameMap'[n] = nameMap[n]
      BY <1>14, <2>2
    <3>2. nameMap[n] \in DOMAIN revMap /\ revMap[nameMap[n]] = n
      BY <1>2, <1>12, <1>17, <3>1
    <3> QED
      BY <1>13, <3>1, <3>2
  <2> QED
    BY <2>1, <2>2
<1>18. MapsFit'
  BY <1>4, <1>17 DEF MapsFit
<1>19. NamesAgree'
  <2> SUFFICES ASSUME DistinctNames
               PROVE  /\ \A x \in Present' \cap DOMAIN revMap' :
                           revMap'[x] \in DOMAIN nameMap' /\ nameMap'[revMap'[x]] = x
                      /\ Range(nameMap') \subseteq Present' \cup mistyped'
    BY DEF NamesAgree
  <2>1. /\ \A x \in components \cap DOMAIN revMap :
             revMap[x] \in DOMAIN nameMap /\ nameMap[revMap[x]] = x
        /\ Range(nameMap) \subseteq components \cup mistyped
    BY <1>1, <1>2, <1>11 DEF NamesAgree
  <2>2. ASSUME NEW x \in Present' \cap DOMAIN revMap'
        PROVE  revMap'[x] \in DOMAIN nameMap' /\ nameMap'[revMap'[x]] = x
    <3>1. CASE x = id
      <4>1. name # NoName
        BY <1>5, <1>13, <3>1
      <4> QED
        BY <1>13, <1>14, <3>1, <4>1
    <3>2. CASE x # id
      <4>1. x \in components \cap DOMAIN revMap /\ revMap'[x] = revMap[x]
        BY <1>11, <1>13, <3>2
      <4>2. revMap[x] \in DOMAIN nameMap /\ nameMap[revMap[x]] = x
        BY <2>1, <4>1
      <4>3. name = NoName \/ revMap[x] # name
        BY <1>2, <1>12, <4>1
      <4> QED
        BY <1>14, <4>1, <4>2, <4>3
    <3> QED
      BY <3>1, <3>2
  <2>3. ASSUME NEW n \in DOMAIN nameMap'
        PROVE  nameMap'[n] \in Present' \cup mistyped'
    <3>1. nameMap'[n] = id \/ (n \in DOMAIN nameMap /\ nameMap'[n] = nameMap[n])
      BY <1>14
    <3>2. n \in DOMAIN nameMap => nameMap[n] \in components \cup mistyped
      BY <2>1 DEF Range
    <3> QED
      BY <1>1, <1>11, <3>1, <3>2
  <2> QED
    BY <2>2, <2>3 DEF Range
<1>20. \A x \in Here' : Known'[x] = Known[x]
  <2> SUFFICES ASSUME NEW x \in Here
               PROVE  NameOf(x)' = NameOf(x)
    BY <1>10 DEF Known
  <2>1. NameOf(x)' = IF x \in DOMAIN revMap' THEN revMap'[x] ELSE NoName
    BY <1>4 DEF NameOf
  <2>2. CASE x = id
    BY <1>5, <1>9, <1>13, <2>1, <2>2
  <2>3. CASE x # id
    BY <1>9, <1>13, <2>1, <2>3
  <2> QED
    BY <2>2, <2>3
<1>21. Past' \subseteq Past
  BY <1>1, <1>10, <1>13 DEF Past
<1>22. output' \in Seq(Calls \cup {Close})
  BY <1>1, <1>2 DEF QueueType
<1> QED
  BY <1>1, <1>10, <1>15, <1>16, <1>18, <1>19, <1>20, <1>21, <1>22, CalledOn

(* A delegate that was called is put back. *)
LEMMA PutBackStep ==
  ASSUME IInv, Return, calling.kind # "make", UNCHANGED workerKeeps,
         inbox' = inbox
  PROVE  IInv'
<1>1. /\ worker = "on" /\ calling # NoCallback /\ calling' = NoCallback
      /\ PutBack(calling.id)
      /\ UNCHANGED <<worker, stops, output, mistyped, nameMap, revMap, subs,
                     epoch, made>>
  BY DEF Return, InCallback, history, nameVars
<1>2. ClientType /\ QueueType /\ TakenApart /\ MapsFit /\ NamesAgree
  BY DEF IInv, Types
<1>3. calling.id \in Contexts /\ calling.id \notin mistyped
  BY <1>1, <1>2, CallbackParts DEF ClientType, TakenApart
<1>4. components' = components \cup ({calling.id} \ {Document})
  BY <1>1 DEF PutBack
<1>5. Here = components' /\ Here' = components' /\ ~ Making /\ ~ Making'
  BY <1>1, <1>4 DEF Here, Making
<1>6. Present = components' /\ Present' = components'
  BY <1>1, <1>4 DEF Present
<1>7. Known' = Known /\ Past' = Past
  BY <1>1, <1>5 DEF Known, NameOf, Past
<1>8. ClientType'
  BY <1>1, <1>2, <1>3, <1>4 DEF ClientType, Contexts
<1>9. TakenApart'
  BY <1>1, <1>2, <1>3, <1>4, <1>5 DEF TakenApart
<1>10. MapsFit'
  BY <1>1, <1>2, <1>5 DEF MapsFit
<1>11. NamesAgree'
  BY <1>1, <1>2, <1>6 DEF NamesAgree
<1>12. output' \in Seq(Calls \cup {Close})
  BY <1>1, <1>2 DEF QueueType
<1> QED
  BY <1>1, <1>5, <1>7, <1>8, <1>9, <1>10, <1>11, <1>12, CalledOn

LEMMA WorkerStep == IInv /\ Worker => IInv'
<1> SUFFICES ASSUME IInv, Worker
             PROVE  IInv'
  OBVIOUS
<1>1. UNCHANGED workerKeeps
  BY DEF Worker, workerKeeps
<1>2. CASE WorkerTakes
  BY <1>1, <1>2, TakesStep
<1>3. CASE WorkerEnds
  BY <1>1, <1>3, EndsStep
<1>4. CASE Callback
  <2>1. inbox' = inbox
    BY <1>4 DEF Callback
  <2>2. CASE Return
    BY <1>1, <2>1, <2>2, MadeStep, PutBackStep
  <2> QED
    BY <1>1, <1>4, <2>1, <2>2, InvokeStep, ShutdownStep, MistypedStep
    DEF Callback
<1> QED
  BY <1>2, <1>3, <1>4 DEF Worker

-----------------------------------------------------------------------------
(* Theorems. *)

LEMMA InitHolds == Init => IInv
<1> SUFFICES ASSUME Init
             PROVE  IInv
  OBVIOUS
<1> USE DEF Init
<1>1. DOMAIN Empty = {} /\ Range(Empty) = {}
  BY DEF Empty, Range
<1>2. Types
  <2>1. TaskType
    BY DEF TaskType
  <2>2. /\ <<>> \in Seq(Frames \cup {SocketError, StreamEnd})
        /\ <<>> \in Seq(Frames \cup {Closed}) /\ <<>> \in Seq(Calls \cup {Close})
    OBVIOUS
  <2>3. QueueType
    BY <2>2 DEF QueueType
  <2>4. ServerType
    BY <1>1, SessionConstants DEF ServerType
  <2>5. ClientType
    BY <1>1 DEF ClientType
  <2> QED
    BY <2>1, <2>3, <2>4, <2>5 DEF Types
<1>3. Stream = <<>> /\ Reading
  BY DEF Stream, Reading
<1>4. Here = {} /\ ~ Making /\ Past = {} /\ Present = {}
  BY <1>1 DEF Here, Making, Past, Present
<1>5. TakenApart
  BY <1>4 DEF TakenApart
<1>7. StreamFits
  BY <1>3, <1>4 DEF StreamFits, Fresh, DeletesKnown, NamesFree, Known
<1>8. ServerFits
  BY <1>1, <1>3, <1>4 DEF ServerFits, LiveKnown, LiveNamed, Known
<1>9. MapsFit
  BY <1>1, <1>4 DEF MapsFit
<1>10. NamesAgree
  BY <1>1, <1>4 DEF NamesAgree
<1>11. WorkerSurvives
  BY DEF WorkerSurvives
<1> QED
  BY <1>2, <1>5, <1>7, <1>8, <1>9, <1>10, <1>11 DEF IInv

LEMMA StutterStep == IInv /\ UNCHANGED vars => IInv'
<1> SUFFICES ASSUME IInv, UNCHANGED vars
             PROVE  IInv'
  OBVIOUS
<1>1. UNCHANGED <<taskVars, inbox, output, wire, peer, asked, serverVars>>
      /\ UNCHANGED clientState
  BY DEF vars, clientState, stateVars, listVars, nameVars, history
<1>2. QueueType /\ StreamFits /\ ServerFits /\ ServerType /\ TaskType
  BY DEF IInv, Types
<1>3. TaskType' /\ ServerType' /\ QueueType'
  BY <1>1, <1>2 DEF TaskType, ServerType, QueueType,
     serverVars, taskVars, clientState
<1>4. Reading' = Reading /\ Stream' = Stream
  BY <1>1 DEF Reading, Stream, taskVars
<1>5. StreamFits' /\ ServerFits'
  BY <1>1, <1>2, <1>4, SameStream DEF serverVars
<1> QED
  BY <1>1, <1>3, <1>5, ClientStays DEF taskVars

(* The invariant: the messages on their way to a client lead from what it  *)
(* has to what the server has, whatever the tasks and callbacks do.        *)
THEOREM Invariance == Spec => []IInv
<1>1. IInv /\ [Next]_vars => IInv'
  BY ServeStep, IncomingStep, ForwardStep, WorkerStep, StutterStep DEF Next
<1> QED
  BY <1>1, InitHolds, PTL DEF Spec

(* The variables of the session keep their types. *)
THEOREM TypeCorrect == Spec => []TypeOK
<1>1. ASSUME IInv
      PROVE  TypeOK
  <2>1. TaskType /\ ServerType /\ QueueType /\ ClientType /\ TakenApart
    BY <1>1 DEF IInv, Types
  <2>2. \A i \in 1 .. Len(wire) : wire[i] \in Frames \cup {SocketError, StreamEnd}
    BY <2>1 DEF QueueType
  <2>3. \A i \in 1 .. Len(inbox) : inbox[i] \in Frames \cup {Closed}
    BY <2>1 DEF QueueType
  <2>4. \A i \in 1 .. Len(output) : output[i] \in Calls \cup {Close}
    BY <2>1 DEF QueueType
  <2>5. mistyped \subseteq Ids \ components
    BY <2>1 DEF ClientType, TakenApart
  <2> QED
    BY <2>1, <2>2, <2>3, <2>4, <2>5
    DEF TaskType, ServerType, ClientType, TypeOK
<1> QED
  BY <1>1, Invariance, PTL

(* No message of a server that keeps to the protocol brings the worker     *)
(* down while forward_task runs, unless a callback has lost a delegate: a  *)
(* delegate is in its list when its deletion is handled.  A ping or a close*)
(* frame, which is no message, does bring it down (worker is "misread").   *)
THEOREM WorkerKeepsRunning == Spec => []WorkerSurvives
<1>1. IInv => WorkerSurvives
  BY DEF IInv
<1> QED
  BY <1>1, Invariance, PTL

(* While the server gives no name twice, name_map leads from the name of a *)
(* delegate to it and to no delegate that is gone, through deletions,      *)
(* resets, callbacks and reuse of names.                                   *)
THEOREM NamesLeadToDelegates == Spec => []NamesAgree
<1>1. IInv => NamesAgree
  BY DEF IInv
<1> QED
  BY <1>1, Invariance, PTL

-----------------------------------------------------------------------------
(* Invocations on their way. *)

Reply(i) == [kind |-> "reply", call |-> i]

(* m is in s, and at one place at most. *)
Has(s, m) == \E k \in 1 .. Len(s) : s[k] = m
Once(s, m) == \A k, l \in 1 .. Len(s) : s[k] = m /\ s[l] = m => k = l

(* An invocation goes through forward_task's queue to the server, and its  *)
(* reply through the socket and the worker's queue.                        *)
Outgoing(i) == Has(output, i)
Asked(i) == i \in asked
OnWire(i) == Has(wire, Reply(i))
InInbox(i) == Has(inbox, Reply(i))

Pending(i) == Outgoing(i) \/ Asked(i) \/ OnWire(i) \/ InInbox(i)

(* It is in one of these, at one place. *)
Single(i) ==
  /\ Once(output, i) /\ Once(wire, Reply(i)) /\ Once(inbox, Reply(i))
  /\ ~ (Outgoing(i) /\ Asked(i)) /\ ~ (Outgoing(i) /\ OnWire(i))
  /\ ~ (Outgoing(i) /\ InInbox(i)) /\ ~ (Asked(i) /\ OnWire(i))
  /\ ~ (Asked(i) /\ InInbox(i)) /\ ~ (OnWire(i) /\ InInbox(i))

Tracked(i) ==
  /\ Single(i)
  /\ Pending(i) => i \in DOMAIN made
  /\ i \in DOMAIN made => (i \in DOMAIN subs <=> Pending(i) /\ made[i] = epoch)

(* The invocations are numbered in the order in which they are made. *)
Numbered ==
  /\ \E n \in 0 .. MaxCalls : DOMAIN made = 1 .. n
  /\ \A i \in DOMAIN made : made[i] \in 0 .. epoch

InService == worker = "on" /\ forward = "on" /\ peer = "open"

Tracking == Numbered /\ (InService => \A i \in Calls : Tracked(i))

(* A queue with one more, and with one less. *)
LEMMA HasAppended ==
  ASSUME NEW S, NEW s \in Seq(S), NEW x \in S, NEW m
  PROVE  /\ Has(Append(s, x), m) <=> Has(s, m) \/ x = m
         /\ Once(Append(s, x), m) <=> Once(s, m) /\ ~ (Has(s, m) /\ x = m)
<1> DEFINE n == Len(s)
           t == Append(s, x)
<1>1. /\ n \in Nat /\ Len(t) = n + 1 /\ t[n + 1] = x
      /\ \A k \in 1 .. n : t[k] = s[k]
  OBVIOUS
<1>2. \A k \in 1 .. n + 1 : k \in 1 .. n \/ k = n + 1
  BY <1>1
<1>3. n + 1 \in 1 .. n + 1 /\ \A k \in 1 .. n : k \in 1 .. n + 1 /\ k # n + 1
  BY <1>1
<1> HIDE DEF n, t
<1>4. Has(t, m) <=> Has(s, m) \/ x = m
  BY <1>1, <1>2, <1>3 DEF Has, n
<1>5. Once(t, m) => Once(s, m) /\ ~ (Has(s, m) /\ x = m)
  BY <1>1, <1>2, <1>3 DEF Has, Once, n
<1>6. Once(s, m) /\ ~ (Has(s, m) /\ x = m) => Once(t, m)
  BY <1>1, <1>2, <1>3 DEF Has, Once, n
<1> QED
  BY <1>4, <1>5, <1>6 DEF t

LEMMA HasTaken ==
  ASSUME NEW S, NEW s \in Seq(S), s # <<>>, NEW m
  PROVE  /\ Has(s, m) <=> Head(s) = m \/ Has(Tail(s), m)
         /\ Once(s, m) => /\ Once(Tail(s), m)
                          /\ ~ (Head(s) = m /\ Has(Tail(s), m))
<1> DEFINE n == Len(s) - 1
           t == Tail(s)
<1>1. /\ n \in Nat /\ Len(s) = n + 1 /\ Len(t) = n /\ Head(s) = s[1]
      /\ \A k \in 1 .. n : t[k] = s[k + 1]
  OBVIOUS
<1>2. \A k \in 1 .. n + 1 : k = 1 \/ (k - 1 \in 1 .. n /\ (k - 1) + 1 = k)
  BY <1>1
<1>3. 1 \in 1 .. n + 1 /\ \A k \in 1 .. n : k + 1 \in 1 .. n + 1 /\ k + 1 # 1
  BY <1>1
<1>4. \A k, l \in 1 .. n : k + 1 = l + 1 => k = l
  BY <1>1
<1> HIDE DEF n, t
<1>5. Has(s, m) <=> Head(s) = m \/ Has(t, m)
  <2>1. ASSUME Has(s, m) PROVE Head(s) = m \/ Has(t, m)
    <3>1. PICK k \in 1 .. n + 1 : s[k] = m
      BY <1>1, <2>1 DEF Has
    <3> QED
      BY <1>1, <1>2, <3>1 DEF Has
  <2>2. ASSUME Head(s) = m \/ Has(t, m) PROVE Has(s, m)
    BY <1>1, <1>3, <2>2 DEF Has
  <2> QED
    BY <2>1, <2>2
<1>6. Once(s, m) => Once(t, m)
  BY <1>1, <1>3, <1>4 DEF Once
<1>7. Once(s, m) => ~ (Head(s) = m /\ Has(t, m))
  BY <1>1, <1>3 DEF Once, Has
<1> QED
  BY <1>5, <1>6, <1>7 DEF t

LEMMA HasNone ==
  ASSUME NEW s, Len(s) = 0, NEW m
  PROVE  ~ Has(s, m) /\ Once(s, m)
  BY DEF Has, Once

(* Only a reply is a reply. *)
LEMMA ReplyIs ==
  /\ \A i : Reply(i).kind = "reply" /\ Reply(i).call = i
  /\ \A i, j : Reply(i) = Reply(j) => i = j
  /\ \A m \in Frames \cup {SocketError, StreamEnd, Closed} :
       m.kind = "reply" => m.call \in Calls /\ m = Reply(m.call)
<1>1. \A i : Reply(i).kind = "reply" /\ Reply(i).call = i
  BY DEF Reply
<1>2. \A m \in Frames \cup {SocketError, StreamEnd, Closed} :
        m.kind = "reply" => m.call \in Calls /\ m = Reply(m.call)
  BY DEF Frames, Messages, Ping, CloseFrame, SocketError, StreamEnd, Closed,
         Reply
<1> QED
  BY <1>1, <1>2

(* An invocation that stays where it is stays tracked. *)
Stays(i) ==
  /\ Outgoing(i) <=> Outgoing(i)'
  /\ Asked(i) <=> Asked(i)'
  /\ OnWire(i) <=> OnWire(i)'
  /\ InInbox(i) <=> InInbox(i)'
  /\ Once(output, i) => Once(output, i)'
  /\ Once(wire, Reply(i)) => Once(wire, Reply(i))'
  /\ Once(inbox, Reply(i)) => Once(inbox, Reply(i))'

LEMMA TrackedStays ==
  ASSUME NEW i, Tracked(i), Stays(i), UNCHANGED <<subs, made, epoch>>
  PROVE  Tracked(i)'
  BY DEF Tracked, Single, Pending, Stays

(* It stays where nothing moves. *)
LEMMA StaysQueues ==
  ASSUME NEW i
  PROVE  /\ output' = output =>
              /\ Outgoing(i) <=> Outgoing(i)'
              /\ Once(output, i) => Once(output, i)'
         /\ asked' = asked => (Asked(i) <=> Asked(i)')
         /\ wire' = wire =>
              /\ OnWire(i) <=> OnWire(i)'
              /\ Once(wire, Reply(i)) => Once(wire, Reply(i))'
         /\ inbox' = inbox =>
              /\ InInbox(i) <=> InInbox(i)'
              /\ Once(inbox, Reply(i)) => Once(inbox, Reply(i))'
  BY DEF Outgoing, Asked, OnWire, InInbox

LEMMA NumberedStays ==
  ASSUME Numbered, UNCHANGED <<made, epoch>>
  PROVE  Numbered'
  BY DEF Numbered

(* The server's messages, replies apart, move no invocation. *)
LEMMA TrackServed ==
  ASSUME Types, Tracking, NEW m \in Messages \cup {Ping}, Send(m),
         \/ m.kind # "reply" /\ asked' = asked
         \/ m.kind = "reply" /\ m.call \in asked /\ asked' = asked \ {m.call},
         UNCHANGED <<forward, worker, peer, inbox, output, subs, made, epoch>>
  PROVE  Tracking'
<1>1. Numbered'
  BY NumberedStays DEF Tracking
<1> SUFFICES ASSUME InService', NEW i \in Calls PROVE Tracked(i)'
  BY <1>1 DEF Tracking
<1>2. Tracked(i)
  BY DEF Tracking, InService
<1>3. m \in Frames \cup {SocketError, StreamEnd} /\ wire' = Append(wire, m)
  BY DEF Frames, Send
<1>4. /\ OnWire(i)' <=> OnWire(i) \/ m = Reply(i)
      /\ Once(wire, Reply(i))' <=>
           Once(wire, Reply(i)) /\ ~ (OnWire(i) /\ m = Reply(i))
  BY <1>3, HasAppended DEF OnWire, Types, QueueType
<1>5. /\ Outgoing(i) <=> Outgoing(i)'
      /\ Once(output, i) => Once(output, i)'
      /\ InInbox(i) <=> InInbox(i)'
      /\ Once(inbox, Reply(i)) => Once(inbox, Reply(i))'
  BY StaysQueues
<1>6. CASE m # Reply(i)
  <2>1. m.kind = "reply" => m.call # i
    BY <1>3, <1>6, ReplyIs
  <2>2. Asked(i) <=> Asked(i)'
    BY <2>1 DEF Asked
  <2> QED
    BY <1>2, <1>4, <1>5, <1>6, <2>2, TrackedStays DEF Stays
<1>7. CASE m = Reply(i)
  <2>1. Asked(i) /\ ~ Asked(i)'
    BY <1>7, ReplyIs DEF Asked
  <2> QED
    BY <1>2, <1>4, <1>5, <1>7, <2>1 DEF Tracked, Single, Pending
<1> QED
  BY <1>6, <1>7

LEMMA TrackServe == IInv /\ Tracking /\ Serve => Tracking'
<1> SUFFICES ASSUME IInv, Tracking, Serve PROVE Tracking'
  OBVIOUS
<1>1. UNCHANGED <<forward, worker, inbox, output, subs, made, epoch>>
  BY DEF Serve, taskVars, stateVars, history
<1>2. Types
  BY DEF IInv
<1>3. ASSUME NEW id \in Ids, NEW name \in Names \cup {NoName},
             ServeCreate(id, name)
      PROVE  Tracking'
  <2> PICK m \in Messages : m = [kind |-> "create", id |-> id, name |-> name]
    BY DEF Messages
  <2> QED
    BY <1>1, <1>2, <1>3, TrackServed DEF ServeCreate
<1>4. ASSUME NEW id \in Ids, ServeDelete(id) PROVE Tracking'
  <2> PICK m \in Messages : m = [kind |-> "delete", id |-> id]
    BY DEF Messages
  <2> QED
    BY <1>1, <1>2, <1>4, TrackServed DEF ServeDelete
<1>5. ASSUME NEW id \in Contexts, ServeNotice(id) PROVE Tracking'
  <2> PICK m \in Messages : m = [kind |-> "notify", id |-> id]
    BY DEF Messages
  <2> QED
    BY <1>1, <1>2, <1>5, TrackServed DEF ServeNotice
<1>6. ASSUME NEW i \in Calls, ServeReply(i) PROVE Tracking'
  <2> PICK m \in Messages : m = [kind |-> "reply", call |-> i]
    BY DEF Messages
  <2> QED
    BY <1>1, <1>2, <1>6, TrackServed DEF ServeReply
<1>7. ASSUME ServeReset PROVE Tracking'
  <2> PICK m \in Messages : m = [kind |-> "reset"]
    BY DEF Messages
  <2> QED
    BY <1>1, <1>2, <1>7, TrackServed DEF ServeReset
<1>8. ASSUME Lose \/ ServeClose PROVE Tracking'
  <2>1. peer' = "over"
    BY <1>8 DEF Lose, ServeClose
  <2> QED
    BY <1>1, <2>1, NumberedStays DEF Tracking, InService
<1>9. ASSUME ServePing PROVE Tracking'
  <2> PICK m \in Messages \cup {Ping} : m = Ping
    OBVIOUS
  <2>1. m.kind # "reply"
    BY DEF Ping
  <2> QED
    BY <1>1, <1>2, <1>9, <2>1, TrackServed DEF ServePing
<1> QED
  BY <1>3, <1>4, <1>5, <1>6, <1>7, <1>8, <1>9 DEF Serve

(* A frame that is read goes from the socket to the worker's queue. *)
LEMMA TrackIncoming == IInv /\ Tracking /\ Incoming => Tracking'
<1> SUFFICES ASSUME IInv, Tracking, Incoming PROVE Tracking'
  OBVIOUS
<1>1. UNCHANGED <<forward, worker, peer, asked, output, subs, made, epoch>>
  BY DEF Incoming, stateVars, history
<1>2. Types
  BY DEF IInv
<1>3. Numbered'
  BY <1>1, NumberedStays DEF Tracking
<1> SUFFICES ASSUME InService', NEW i \in Calls PROVE Tracked(i)'
  BY <1>3 DEF Tracking
<1>4. Tracked(i) /\ worker = "on"
  BY <1>1 DEF Tracking, InService
<1>5. /\ Outgoing(i) <=> Outgoing(i)'
      /\ Once(output, i) => Once(output, i)'
      /\ Asked(i) <=> Asked(i)'
  BY <1>1, StaysQueues
<1>6. CASE wire' = wire /\ inbox' = inbox
  BY <1>1, <1>4, <1>5, <1>6, StaysQueues, TrackedStays DEF Stays
<1>7. CASE IncomingReads
  <2> PICK m \in Frames \cup {SocketError, StreamEnd} : m = Head(wire)
    BY <1>2, <1>7 DEF IncomingReads, Types, QueueType
  <2>1. wire # <<>> /\ wire' = Tail(wire)
    BY <1>7 DEF IncomingReads
  <2>2. /\ OnWire(i) <=> m = Reply(i) \/ OnWire(i)'
        /\ Once(wire, Reply(i)) => /\ Once(wire, Reply(i))'
                                   /\ ~ (m = Reply(i) /\ OnWire(i)')
    BY <1>2, <2>1, HasTaken DEF OnWire, Types, QueueType
  <2>3. CASE m \in Frames
    <3>1. m # SocketError /\ m # StreamEnd /\ m \in Frames \cup {Closed}
      BY <2>3 DEF Frames, Messages, Ping, CloseFrame, SocketError, StreamEnd
    <3>2. inbox' = Append(inbox, m)
      BY <1>4, <1>7, <3>1 DEF IncomingReads
    <3>3. /\ InInbox(i)' <=> InInbox(i) \/ m = Reply(i)
          /\ Once(inbox, Reply(i))' <=>
               Once(inbox, Reply(i)) /\ ~ (InInbox(i) /\ m = Reply(i))
      <4>1. inbox \in Seq(Frames \cup {Closed})
        BY <1>2 DEF Types, QueueType
      <4>2. /\ Has(Append(inbox, m), Reply(i)) <=>
                 Has(inbox, Reply(i)) \/ m = Reply(i)
            /\ Once(Append(inbox, m), Reply(i)) <=>
                 /\ Once(inbox, Reply(i))
                 /\ ~ (Has(inbox, Reply(i)) /\ m = Reply(i))
        BY <3>1, <4>1, HasAppended
      <4> QED
        BY <3>2, <4>2 DEF InInbox
    <3> QED
      BY <1>1, <1>4, <1>5, <2>2, <3>3 DEF Tracked, Single, Pending
  <2>4. CASE m \in {SocketError, StreamEnd}
    <3>1. m.kind # "reply" /\ m # Reply(i)
      BY <2>4, ReplyIs DEF SocketError, StreamEnd
    <3>2. \/ inbox' = inbox
          \/ inbox' = Append(inbox, Closed)
      BY <1>7, <2>4 DEF IncomingReads, SocketError, StreamEnd
    <3>3. Closed # Reply(i) /\ Closed \in Frames \cup {Closed}
      BY ReplyIs DEF Closed
    <3>4. /\ InInbox(i)' <=> InInbox(i)
          /\ Once(inbox, Reply(i)) => Once(inbox, Reply(i))'
      <4>1. CASE inbox' = inbox
        BY <4>1, StaysQueues
      <4>2. CASE inbox' = Append(inbox, Closed)
        <5>1. inbox \in Seq(Frames \cup {Closed})
          BY <1>2 DEF Types, QueueType
        <5>2. /\ Has(Append(inbox, Closed), Reply(i)) <=>
                   Has(inbox, Reply(i)) \/ Closed = Reply(i)
              /\ Once(Append(inbox, Closed), Reply(i)) <=>
                   /\ Once(inbox, Reply(i))
                   /\ ~ (Has(inbox, Reply(i)) /\ Closed = Reply(i))
          BY <3>3, <5>1, HasAppended
        <5> QED
          BY <3>3, <4>2, <5>2 DEF InInbox
      <4> QED
        BY <3>2, <4>1, <4>2
    <3> QED
      BY <1>1, <1>4, <1>5, <2>2, <3>1, <3>4, TrackedStays DEF Stays
  <2> QED
    BY <2>3, <2>4
<1> QED
  BY <1>6, <1>7 DEF Incoming, IncomingStarts, IncomingStops

(* forward_task hands an invocation to the server. *)
LEMMA TrackForward == IInv /\ Tracking /\ Forward => Tracking'
<1> SUFFICES ASSUME IInv, Tracking, Forward PROVE Tracking'
  OBVIOUS
<1>1. UNCHANGED <<worker, wire, inbox, subs, made, epoch>>
  BY DEF Forward, stateVars, history
<1>2. Types
  BY DEF IInv
<1>3. Numbered'
  BY <1>1, NumberedStays DEF Tracking
<1> SUFFICES ASSUME InService', NEW i \in Calls PROVE Tracked(i)'
  BY <1>3 DEF Tracking
<1>4. ForwardSends
  BY DEF Forward, ForwardStops, ForwardCloses, ForwardTellsAll, InService
<1>5. Tracked(i) /\ peer # "over"
  BY <1>1, <1>4 DEF Tracking, InService, ForwardSends
<1>6. /\ output # <<>> /\ output' = Tail(output)
      /\ asked' = asked \cup {Head(output)}
  BY <1>4, <1>5 DEF ForwardSends
<1>7. /\ Outgoing(i) <=> Head(output) = i \/ Outgoing(i)'
      /\ Once(output, i) => /\ Once(output, i)'
                            /\ ~ (Head(output) = i /\ Outgoing(i)')
  BY <1>2, <1>6, HasTaken DEF Outgoing, Types, QueueType
<1>8. Asked(i)' <=> Asked(i) \/ Head(output) = i
  BY <1>6 DEF Asked
<1>9. /\ OnWire(i) <=> OnWire(i)'
      /\ Once(wire, Reply(i)) => Once(wire, Reply(i))'
      /\ InInbox(i) <=> InInbox(i)'
      /\ Once(inbox, Reply(i)) => Once(inbox, Reply(i))'
  BY <1>1, StaysQueues
<1> QED
  BY <1>1, <1>5, <1>7, <1>8, <1>9 DEF Tracked, Single, Pending

(* The worker takes a message: only a reset and a reply close invocations. *)
LEMMA TrackTakes ==
  ASSUME Types, Tracking, WorkerTakes,
         UNCHANGED <<forward, peer, asked, wire>>
  PROVE  Tracking'
<1> PICK m \in Frames \cup {Closed} : m = Head(inbox)
  BY DEF Types, QueueType, WorkerTakes
<1>1. /\ inbox # <<>> /\ inbox' = Tail(inbox) /\ worker = "on"
      /\ \/ HandleCreate(m) \/ HandleDelete(m) \/ HandleNotice(m)
         \/ HandleDocument(m) \/ HandleReply(m) \/ HandleReset(m)
         \/ HandleClosed(m) \/ HandleOtherFrame(m)
  BY DEF WorkerTakes
<1>2. /\ made' = made
      /\ m.kind # "reset" => epoch' = epoch
      /\ m.kind = "reset" => epoch' = epoch + 1 /\ subs' = Empty
      /\ worker' = "on" /\ m.kind \notin {"reset", "reply"} => subs' = subs
      /\ m.kind = "reply" =>
           subs' = IF m.call \in DOMAIN subs THEN Without(subs, m.call)
                   ELSE subs
      /\ worker' = "on" => output' = output
  BY <1>1 DEF HandleCreate, HandleDelete, HandleNotice, HandleDocument,
              HandleReply, HandleReset, HandleClosed, HandleOtherFrame,
              Enter, Ignore, Panic, Finish, Clear, TakeOut, OnDelete,
              stateVars, listVars, history, Closed, CloseFrame, Ping
<1>3. Numbered'
  <2>1. epoch \in Nat /\ epoch' \in {epoch, epoch + 1}
    BY <1>2 DEF Types, ClientType
  <2> QED
    BY <1>2, <2>1 DEF Tracking, Numbered
<1> SUFFICES ASSUME InService', NEW i \in Calls PROVE Tracked(i)'
  BY <1>3 DEF Tracking
<1>4. Tracked(i) /\ worker' = "on"
  BY <1>1 DEF Tracking, InService
<1>5. /\ Outgoing(i) <=> Outgoing(i)'
      /\ Once(output, i) => Once(output, i)'
      /\ OnWire(i) <=> OnWire(i)'
      /\ Once(wire, Reply(i)) => Once(wire, Reply(i))'
      /\ Asked(i) <=> Asked(i)'
  BY <1>2, <1>4, StaysQueues
<1>6. /\ InInbox(i) <=> m = Reply(i) \/ InInbox(i)'
      /\ Once(inbox, Reply(i)) => /\ Once(inbox, Reply(i))'
                                  /\ ~ (m = Reply(i) /\ InInbox(i)')
  <2>1. inbox \in Seq(Frames \cup {Closed})
    BY DEF Types, QueueType
  <2>2. /\ Has(inbox, Reply(i)) <=> m = Reply(i) \/ Has(Tail(inbox), Reply(i))
        /\ Once(inbox, Reply(i)) =>
             /\ Once(Tail(inbox), Reply(i))
             /\ ~ (m = Reply(i) /\ Has(Tail(inbox), Reply(i)))
    BY <1>1, <2>1, HasTaken
  <2> QED
    BY <1>1, <2>2 DEF InInbox
<1>7. i \in DOMAIN made => made[i] \in 0 .. epoch /\ epoch \in Nat
  BY DEF Tracking, Numbered, Types, ClientType
<1>8. CASE m.kind = "reset"
  <2>1. DOMAIN subs' = {} /\ epoch' = epoch + 1
    BY <1>2, <1>8 DEF Empty
  <2>2. i \in DOMAIN made => made[i] # epoch'
    BY <1>7, <2>1
  <2>3. m # Reply(i)
    BY <1>8, ReplyIs
  <2> QED
    BY <1>2, <1>4, <1>5, <1>6, <2>1, <2>2, <2>3 DEF Tracked, Single, Pending
<1>9. CASE m.kind = "reply" /\ m.call = i
  <2>1. m = Reply(i)
    BY <1>9, ReplyIs
  <2>2. i \notin DOMAIN subs' /\ epoch' = epoch
    BY <1>2, <1>9 DEF Without
  <2> QED
    BY <1>2, <1>4, <1>5, <1>6, <2>1, <2>2 DEF Tracked, Single, Pending
<1>10. CASE m.kind # "reset" /\ ~ (m.kind = "reply" /\ m.call = i)
  <2>1. m # Reply(i)
    BY <1>10, ReplyIs
  <2>2. (i \in DOMAIN subs' <=> i \in DOMAIN subs) /\ epoch' = epoch
    BY <1>2, <1>4, <1>10 DEF Without
  <2> QED
    BY <1>2, <1>4, <1>5, <1>6, <2>1, <2>2 DEF Tracked, Single, Pending
<1> QED
  BY <1>8, <1>9, <1>10

(* A new invocation has a number of its own.                               *)
LEMMA TrackInvoke ==
  ASSUME Types, Tracking, NEW context, InvokeMethod(context),
         UNCHANGED <<forward, peer, asked, wire, inbox>>
  PROVE  Tracking'
<1> PICK n \in 0 .. MaxCalls : DOMAIN made = 1 .. n
  BY DEF Tracking, Numbered
<1>0. n \in Nat /\ MaxCalls \in Nat
  BY SessionConstants
<1>1. Cardinality(DOMAIN made) = n
  BY <1>0, FS_Interval
<1> PICK x \in Nat : x = n + 1
  BY <1>0
<1>2. x \in Calls
  BY <1>1 DEF InvokeMethod
<1>3. CASE ~ ForwardListens
  <2>1. worker' # "on" /\ UNCHANGED <<made, epoch>>
    BY <1>3 DEF InvokeMethod, Panic, stateVars, history
  <2> QED
    BY <2>1, NumberedStays DEF Tracking, InService
<1>4. CASE ForwardListens
  <2>1. /\ subs' = Put(subs, x, context) /\ made' = Put(made, x, epoch)
        /\ output' = Append(output, x)
        /\ UNCHANGED <<worker, epoch>>
    BY <1>1, <1>4 DEF InvokeMethod
  <2>2. /\ DOMAIN made' = DOMAIN made \cup {x} /\ made'[x] = epoch
        /\ \A i \in DOMAIN made \ {x} : made'[i] = made[i]
        /\ DOMAIN subs' = DOMAIN subs \cup {x}
    BY <2>1 DEF Put
  <2>3. x \notin DOMAIN made /\ DOMAIN made' = 1 .. x /\ x \in 0 .. MaxCalls
    BY <1>0, <1>2, <2>2 DEF Calls
  <2>4. Numbered'
    <3>1. epoch \in Nat
      BY DEF Types, ClientType
    <3> QED
      BY <2>1, <2>2, <2>3, <3>1 DEF Tracking, Numbered
  <2> SUFFICES ASSUME InService', NEW i \in Calls PROVE Tracked(i)'
    BY <2>4 DEF Tracking
  <2>5. Tracked(i)
    BY <2>1 DEF Tracking, InService
  <2>6. /\ OnWire(i) <=> OnWire(i)'
        /\ Once(wire, Reply(i)) => Once(wire, Reply(i))'
        /\ InInbox(i) <=> InInbox(i)'
        /\ Once(inbox, Reply(i)) => Once(inbox, Reply(i))'
        /\ Asked(i) <=> Asked(i)'
    BY StaysQueues
  <2>7. /\ Outgoing(i)' <=> Outgoing(i) \/ x = i
        /\ Once(output, i)' <=> Once(output, i) /\ ~ (Outgoing(i) /\ x = i)
    <3>1. output \in Seq(Calls \cup {Close}) /\ x \in Calls \cup {Close}
      BY <1>2 DEF Types, QueueType
    <3>2. /\ Has(Append(output, x), i) <=> Has(output, i) \/ x = i
          /\ Once(Append(output, x), i) <=>
               Once(output, i) /\ ~ (Has(output, i) /\ x = i)
      BY <3>1, HasAppended
    <3> QED
      BY <2>1, <3>2 DEF Outgoing
  <2>8. CASE i = x
    BY <2>1, <2>2, <2>3, <2>5, <2>6, <2>7, <2>8 DEF Tracked, Single, Pending
  <2>9. CASE i # x
    BY <2>1, <2>2, <2>5, <2>6, <2>7, <2>9 DEF Tracked, Single, Pending
  <2> QED
    BY <2>8, <2>9
<1> QED
  BY <1>3, <1>4

LEMMA TrackWorker == IInv /\ Tracking /\ Worker => Tracking'
<1> SUFFICES ASSUME IInv, Tracking, Worker PROVE Tracking'
  OBVIOUS
<1>1. Types /\ UNCHANGED <<forward, peer, asked, wire>>
  BY DEF IInv, Worker
<1>2. CASE WorkerTakes
  BY <1>1, <1>2, TrackTakes
<1>3. CASE WorkerEnds
  <2>1. worker' = "ended" /\ UNCHANGED <<made, epoch>>
    BY <1>3 DEF WorkerEnds, Finish, history
  <2> QED
    BY <2>1, NumberedStays DEF Tracking, InService
<1>4. ASSUME NEW context \in Contexts, InvokeMethod(context), inbox' = inbox
      PROVE  Tracking'
  BY <1>1, <1>4, TrackInvoke
<1>5. CASE Shutdown /\ inbox' = inbox
  <2>1. UNCHANGED <<subs, made, epoch>>
    BY <1>5 DEF Shutdown, Panic, stateVars, history
  <2>2. Numbered'
    BY <2>1, NumberedStays DEF Tracking
  <2> SUFFICES ASSUME InService', NEW i \in Calls PROVE Tracked(i)'
    BY <2>2 DEF Tracking
  <2>3. output' = Append(output, Close) /\ worker = "on"
    BY <1>5 DEF Shutdown, InService, Panic, InCallback, OfDocument
  <2>4. Tracked(i)
    BY <1>1, <2>3 DEF Tracking, InService
  <2>5. Outgoing(i)' <=> Outgoing(i)
    <3>1. output \in Seq(Calls \cup {Close}) /\ Close \in Calls \cup {Close}
      BY <1>1 DEF Types, QueueType
    <3>2. Close # i
      BY DEF Close, Calls
    <3>3. Has(Append(output, Close), i) <=> Has(output, i) \/ Close = i
      BY <3>1, HasAppended
    <3> QED
      BY <2>3, <3>2, <3>3 DEF Outgoing
  <2>6. Once(output, i) => Once(output, i)'
    <3>1. output \in Seq(Calls \cup {Close}) /\ Close \in Calls \cup {Close}
      BY <1>1 DEF Types, QueueType
    <3>2. Close # i
      BY DEF Close, Calls
    <3>3. Once(Append(output, Close), i) <=>
            Once(output, i) /\ ~ (Has(output, i) /\ Close = i)
      BY <3>1, HasAppended
    <3> QED
      BY <2>3, <3>2, <3>3
  <2> QED
    BY <1>1, <1>5, <2>1, <2>4, <2>5, <2>6, StaysQueues, TrackedStays DEF Stays
<1>6. ASSUME UNCHANGED <<worker, inbox, output, subs, made, epoch>>
      PROVE  Tracking'
  <2>1. Numbered'
    BY <1>6, NumberedStays DEF Tracking
  <2> SUFFICES ASSUME InService', NEW i \in Calls PROVE Tracked(i)'
    BY <2>1 DEF Tracking
  <2>2. Tracked(i)
    BY <1>1, <1>6 DEF Tracking, InService
  <2> QED
    BY <1>1, <1>6, <2>2, StaysQueues, TrackedStays DEF Stays
<1>7. ASSUME NEW id \in Ids, MutateMistyped(id), inbox' = inbox
      PROVE  Tracking'
  BY <1>6, <1>7 DEF MutateMistyped, history
<1>8. CASE Return /\ inbox' = inbox
  BY <1>6, <1>8 DEF Return, history
<1> QED
  BY <1>2, <1>3, <1>4, <1>5, <1>7, <1>8 DEF Worker, Callback

LEMMA TrackStep == IInv /\ Tracking /\ [Next]_vars => Tracking'
<1> SUFFICES ASSUME IInv, Tracking, UNCHANGED vars PROVE Tracking'
  BY TrackServe, TrackIncoming, TrackForward, TrackWorker DEF Next
<1>1. UNCHANGED <<worker, forward, peer, asked, wire, inbox, output, subs,
                  made, epoch>>
  BY DEF vars, taskVars, stateVars, history
<1>2. Numbered'
  BY <1>1, NumberedStays DEF Tracking
<1> SUFFICES ASSUME InService', NEW i \in Calls PROVE Tracked(i)'
  BY <1>2 DEF Tracking
<1>3. Tracked(i)
  BY <1>1 DEF Tracking, InService
<1> QED
  BY <1>1, <1>3, StaysQueues, TrackedStays DEF Stays

LEMMA TrackInit == Init => Tracking
<1> SUFFICES ASSUME Init PROVE Tracking
  OBVIOUS
<1>1. /\ Len(wire) = 0 /\ Len(inbox) = 0 /\ Len(output) = 0
      /\ asked = {} /\ DOMAIN made = {} /\ DOMAIN subs = {}
  BY DEF Init, Empty
<1>2. Numbered
  BY <1>1, SessionConstants DEF Numbered
<1>3. ASSUME NEW i PROVE Tracked(i)
  BY <1>1, HasNone
  DEF Tracked, Single, Pending, Outgoing, Asked, OnWire, InInbox
<1> QED
  BY <1>2, <1>3 DEF Tracking

(* How often m is in s, if it is so once at most. *)
LEMMA CountedOnce ==
  ASSUME NEW s, NEW m, Once(s, m)
  PROVE  Cardinality({k \in 1 .. Len(s) : s[k] = m}) = IF Has(s, m) THEN 1 ELSE 0
<1> DEFINE P == {k \in 1 .. Len(s) : s[k] = m}
<1>1. CASE ~ Has(s, m)
  <2>1. P = {}
    BY <1>1 DEF Has
  <2> QED
    BY <1>1, <2>1, FS_EmptySet
<1>2. CASE Has(s, m)
  <2> PICK k : P = {k}
    BY <1>2 DEF Has, Once
  <2> QED
    BY <1>2, FS_Singleton
<1> QED
  BY <1>1, <1>2

LEMMA UnderWayIs ==
  ASSUME NEW i, Single(i)
  PROVE  UnderWay(i) = IF Pending(i) THEN 1 ELSE 0
<1>1. Cardinality({k \in 1 .. Len(output) : output[k] = i})
        = IF Outgoing(i) THEN 1 ELSE 0
  BY CountedOnce DEF Single, Outgoing
<1>2. Cardinality({k \in 1 .. Len(wire) :
                     wire[k] = [kind |-> "reply", call |-> i]})
        = IF OnWire(i) THEN 1 ELSE 0
  <2>1. Cardinality({k \in 1 .. Len(wire) : wire[k] = Reply(i)})
          = IF OnWire(i) THEN 1 ELSE 0
    BY CountedOnce DEF Single, OnWire
  <2> QED
    BY <2>1 DEF Reply
<1>3. Cardinality({k \in 1 .. Len(inbox) :
                     inbox[k] = [kind |-> "reply", call |-> i]})
        = IF InInbox(i) THEN 1 ELSE 0
  <2>1. Cardinality({k \in 1 .. Len(inbox) : inbox[k] = Reply(i)})
          = IF InInbox(i) THEN 1 ELSE 0
    BY CountedOnce DEF Single, InInbox
  <2> QED
    BY <2>1 DEF Reply
<1>4. Cardinality({i} \cap asked) = IF Asked(i) THEN 1 ELSE 0
  <2>1. CASE Asked(i)
    <3>1. {i} \cap asked = {i}
      BY <2>1 DEF Asked
    <3> QED
      BY <2>1, <3>1, FS_Singleton
  <2>2. CASE ~ Asked(i)
    <3>1. {i} \cap asked = {}
      BY <2>2 DEF Asked
    <3> QED
      BY <2>2, <3>1, FS_EmptySet
  <2> QED
    BY <2>1, <2>2
<1> QED
  BY <1>1, <1>2, <1>3, <1>4 DEF UnderWay, Single, Pending

(* While the session is in service, the invocations a ClientState has open *)
(* are those it made since the last reset and whose answer is under way,   *)
(* and every invocation is in one place: none is lost or answered twice,   *)
(* and the delegates of a new document get no reply the old ones asked for.*)
THEOREM InvocationsKept == Spec => []InvocationsTracked
<1>1. IInv /\ Tracking => InvocationsTracked
  <2> SUFFICES ASSUME IInv, Tracking, InService, NEW i \in DOMAIN made
               PROVE  /\ UnderWay(i) <= 1
                      /\ i \in DOMAIN subs <=> UnderWay(i) = 1 /\ made[i] = epoch
    BY DEF InvocationsTracked, InService
  <2>1. Tracked(i)
    BY DEF IInv, Types, ClientType, Tracking
  <2>2. UnderWay(i) = IF Pending(i) THEN 1 ELSE 0
    BY <2>1, UnderWayIs DEF Tracked
  <2> QED
    BY <2>1, <2>2 DEF Tracked
<1> QED
  BY <1>1, Invariance, TrackInit, TrackStep, PTL DEF Spec
=============================================================================
