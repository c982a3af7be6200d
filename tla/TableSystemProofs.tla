------------------------- MODULE TableSystemProofs -------------------------
(***************************************************************************)
(* Proofs about TableSystem, for every set of clients and rows and every   *)
(* bound: its types, that a table never fails by itself, and that the      *)
(* storages of its subscribers converge to it.                             *)
(***************************************************************************)
EXTENDS TableSystem, TLAPS, WellFoundedInduction, SequenceTheorems

-----------------------------------------------------------------------------
(* The inductive invariant. *)

Asks == Changes \cup {SubscribeOp}

TableType ==
  /\ table \in [rows : Maps, selection : {"none", "rows", "empty"},
                next : 0 .. MaxKeys]
  /\ \A k \in DOMAIN table.rows : k < table.next

ServerType ==
  /\ subscribers \subseteq Clients /\ dead \subseteq Methods
  /\ poisoned \in BOOLEAN
  /\ loop # Idle => loop \in Invocations
  /\ app \in Changes \cup {Idle, Gone}

QueueType ==
  /\ requests \in [Clients -> Seq(Asks)]
  /\ inbox \in [Clients -> Seq(Signals)]

ClientType ==
  /\ closed \in [Clients -> BOOLEAN] /\ left \in [Clients -> BOOLEAN]
  /\ raced \in [Clients -> BOOLEAN]
  /\ waiting \in [Clients -> Int]
  /\ copy \in [Clients -> Copies \cup {NoCopy}]

(* A client's receiver goes with its forwarder, which only fails when the  *)
(* client has left. *)
ClosedHaveLeft == \A c \in Clients : closed[c] => left[c]

(* Whoever found a receiver gone was holding the table's mutex, and the    *)
(* sender is kept; whoever fails later finds the mutex poisoned. *)
PoisonedByClosed == poisoned => \E c \in subscribers : closed[c]
FailuresArePoisoned == dead # {} \/ app = Gone => poisoned

Types == TableType /\ ServerType /\ QueueType /\ ClientType
Causes == ClosedHaveLeft /\ PoisonedByClosed /\ FailuresArePoisoned

IInv == Types /\ Causes

-----------------------------------------------------------------------------
(* Maps and messages. *)

(* A map of keys to rows is one on its own domain. *)
LEMMA MapDomain ==
  ASSUME NEW m
  PROVE  m \in Maps <=> DOMAIN m \subseteq Keys /\ m \in [DOMAIN m -> Rows]
  BY DEF Maps

LEMMA MapIntro ==
  ASSUME NEW K \in SUBSET Keys, NEW m \in [K -> Rows]
  PROVE  m \in Maps
  BY DEF Maps

LEMMA EmptyIsMap == EmptyMap \in Maps /\ DOMAIN EmptyMap = {}
<1>1. EmptyMap \in [{} -> Rows] /\ DOMAIN EmptyMap = {}
  BY DEF EmptyMap
<1> QED
  BY <1>1 DEF Maps

LEMMA OverlayIsMap ==
  ASSUME NEW m \in Maps, NEW n \in Maps
  PROVE  /\ Overlay(m, n) \in Maps
         /\ DOMAIN Overlay(m, n) = DOMAIN m \cup DOMAIN n
<1>1. /\ DOMAIN m \subseteq Keys /\ m \in [DOMAIN m -> Rows]
      /\ DOMAIN n \subseteq Keys /\ n \in [DOMAIN n -> Rows]
  BY MapDomain
<1>2. /\ Overlay(m, n) \in [DOMAIN m \cup DOMAIN n -> Rows]
      /\ DOMAIN Overlay(m, n) = DOMAIN m \cup DOMAIN n
  BY <1>1 DEF Overlay
<1> QED
  BY <1>1, <1>2, MapIntro

LEMMA WithoutIsMap ==
  ASSUME NEW m \in Maps, NEW ks
  PROVE  /\ [k \in DOMAIN m \ ks |-> m[k]] \in Maps
         /\ DOMAIN [k \in DOMAIN m \ ks |-> m[k]] \subseteq DOMAIN m
<1>1. DOMAIN m \subseteq Keys /\ m \in [DOMAIN m -> Rows]
  BY MapDomain
<1>2. [k \in DOMAIN m \ ks |-> m[k]] \in [DOMAIN m \ ks -> Rows]
  BY <1>1
<1> QED
  BY <1>1, <1>2, MapIntro

(* A row for some of the keys. *)
LEMMA RowsIsMap ==
  ASSUME NEW K \in SUBSET Keys, NEW r \in Rows
  PROVE  [k \in K |-> r] \in Maps /\ DOMAIN [k \in K |-> r] = K
<1>1. [k \in K |-> r] \in [K -> Rows]
  OBVIOUS
<1> QED
  BY <1>1, MapIntro

(* What the parts of a change are. *)
LEMMA ChangeParts ==
  ASSUME NEW o \in Changes
  PROVE  /\ o.op \in Methods \ {"subscribe"}
         /\ o.op \in {"insert", "update"} => o.row \in Rows
         /\ o.op \in {"update", "remove"} => o.key \in Keys
         /\ o.op = "select" => o.selection \in {"rows", "empty"}
  BY DEF Changes, Methods

LEMMA SignalParts ==
  ASSUME NEW m \in Signals
  PROVE  /\ m.kind \in {"updated", "init", "removed", "selected", "reset",
                        "failed", "replied"}
         /\ m.kind \in {"updated", "init"} => m.rows \in Maps
         /\ m.kind = "selected" => m.selection \in {"rows", "empty"}
  BY DEF Signals

LEMMA FailureIsSignal ==
  ASSUME NEW o
  PROVE  Failure(o) \in Signals
  BY DEF Failure, Signals

-----------------------------------------------------------------------------
(* Changes and their signals. *)

(* A change of a table gives a table, and what subscribers are told of it  *)
(* is a message. *)
LEMMA ChangeType ==
  ASSUME TableAssumption, TableType, NEW o \in Changes, Fits(o)
  PROVE  /\ Changed(table, o) \in [rows : Maps,
                                   selection : {"none", "rows", "empty"},
                                   next : 0 .. MaxKeys]
         /\ \A k \in DOMAIN Changed(table, o).rows : k < Changed(table, o).next
         /\ Signal(table, o) \in Signals
<1> DEFINE Tables == [rows : Maps, selection : {"none", "rows", "empty"},
                      next : 0 .. MaxKeys]
           New == Changed(table, o)
<1>0. /\ table \in Tables /\ table.rows \in Maps
      /\ table.next \in 0 .. MaxKeys /\ MaxKeys \in Nat
      /\ \A k \in DOMAIN table.rows : k < table.next
  BY DEF TableType, TableAssumption
<1>1. DOMAIN table.rows \subseteq Keys
  BY <1>0, MapDomain
<1>2. CASE o.op = "insert"
  <2>1. table.next \in Keys /\ table.next + 1 \in 0 .. MaxKeys /\ o.row \in Rows
    BY <1>0, <1>2, ChangeParts DEF Fits, Keys
  <2> DEFINE m == [k \in {table.next} |-> o.row]
  <2>2. m \in Maps /\ DOMAIN m = {table.next}
    BY <2>1, RowsIsMap
  <2>3. /\ Overlay(table.rows, m) \in Maps
        /\ DOMAIN Overlay(table.rows, m) = DOMAIN table.rows \cup {table.next}
    BY <2>2, <1>0, OverlayIsMap
  <2> HIDE DEF m
  <2>4. New = [table EXCEPT !.rows = Overlay(@, m), !.next = @ + 1]
    BY <1>2 DEF Changed, m
  <2>5. New \in Tables /\ New.rows = Overlay(table.rows, m)
          /\ New.next = table.next + 1
    BY <2>1, <2>3, <2>4, <1>0
  <2>6. \A k \in DOMAIN New.rows : k < New.next
    <3> TAKE k \in DOMAIN New.rows
    <3>1. k \in DOMAIN table.rows \/ k = table.next
      BY <2>3, <2>5
    <3>2. k \in Nat
      BY <3>1, <1>1, <1>0 DEF Keys
    <3> QED
      BY <3>1, <3>2, <2>5, <1>0
  <2>7. Signal(table, o) = [kind |-> "updated", rows |-> m]
    BY <1>2 DEF Signal, m
  <2> QED
    BY <2>2, <2>5, <2>6, <2>7 DEF Signals
<1>3. CASE o.op = "update"
  <2>1. o.key \in Keys /\ o.row \in Rows
    BY <1>3, ChangeParts
  <2> DEFINE m == [k \in DOMAIN table.rows |->
                     IF k = o.key THEN o.row ELSE table.rows[k]]
             n == [k \in {o.key} \cap DOMAIN table.rows |-> o.row]
  <2>2. m \in [DOMAIN table.rows -> Rows]
    BY <2>1, <1>0, MapDomain
  <2>3. m \in Maps /\ DOMAIN m = DOMAIN table.rows
    BY <2>2, <1>1, MapIntro
  <2>4. n \in Maps
    BY <2>1, RowsIsMap
  <2>5. New = [table EXCEPT !.rows = m]
    BY <1>3 DEF Changed
  <2>6. Signal(table, o) = [kind |-> "updated", rows |-> n]
    BY <1>3 DEF Signal
  <2> HIDE DEF m, n
  <2>7. New \in Tables /\ New.rows = m /\ New.next = table.next
    BY <2>3, <2>5, <1>0
  <2> QED
    BY <2>3, <2>4, <2>6, <2>7, <1>0 DEF Signals
<1>4. CASE o.op = "remove"
  <2> DEFINE m == [k \in DOMAIN table.rows \ {o.key} |-> table.rows[k]]
  <2>1. m \in Maps /\ DOMAIN m \subseteq DOMAIN table.rows
    BY <1>0, WithoutIsMap
  <2>2. New = [table EXCEPT !.rows = m]
    BY <1>4 DEF Changed
  <2>3. Signal(table, o) = [kind |-> "removed",
                            keys |-> {o.key} \cap DOMAIN table.rows]
    BY <1>4 DEF Signal
  <2> HIDE DEF m
  <2>4. New \in Tables /\ New.rows = m /\ New.next = table.next
    BY <2>1, <2>2, <1>0
  <2> QED
    BY <2>1, <2>3, <2>4, <1>0, <1>1 DEF Signals
<1>5. CASE o.op = "select"
  <2>1. o.selection \in {"rows", "empty"}
    BY <1>5, ChangeParts
  <2>2. New = [table EXCEPT !.selection = o.selection]
    BY <1>5 DEF Changed
  <2>3. Signal(table, o) = [kind |-> "selected", selection |-> o.selection]
    BY <1>5 DEF Signal
  <2>4. New \in Tables /\ New.rows = table.rows /\ New.next = table.next
    BY <2>1, <2>2, <1>0
  <2> QED
    BY <2>1, <2>3, <2>4, <1>0 DEF Signals
<1>6. CASE o.op = "clear"
  <2>1. New = [rows |-> EmptyMap, selection |-> "none", next |-> 0]
    BY <1>6 DEF Changed
  <2>2. Signal(table, o) = [kind |-> "reset"]
    BY <1>6 DEF Signal
  <2> QED
    BY <2>1, <2>2, <1>0, EmptyIsMap DEF Signals
<1>7. o.op \in {"insert", "update", "remove", "select", "clear"}
  BY ChangeParts DEF Methods
<1> QED
  BY <1>2, <1>3, <1>4, <1>5, <1>6, <1>7

(* A message changes a storage into a storage. *)
LEMMA ApplyType ==
  ASSUME NEW d \in Copies, NEW m \in Signals
  PROVE  Apply(d, m) \in Copies
<1>0. d.rows \in Maps
  BY DEF Copies
<1>1. CASE m.kind \in {"updated", "init"}
  <2>1. Overlay(d.rows, m.rows) \in Maps
    BY <1>0, <1>1, SignalParts, OverlayIsMap
  <2>2. Apply(d, m) = [d EXCEPT !.rows = Overlay(@, m.rows)]
    BY <1>1 DEF Apply
  <2> QED
    BY <2>1, <2>2 DEF Copies
<1>2. CASE m.kind = "removed"
  <2>1. [k \in DOMAIN d.rows \ m.keys |-> d.rows[k]] \in Maps
    BY <1>0, WithoutIsMap
  <2>2. Apply(d, m)
          = [d EXCEPT !.rows = [k \in DOMAIN d.rows \ m.keys |-> d.rows[k]]]
    BY <1>2 DEF Apply
  <2> QED
    BY <2>1, <2>2 DEF Copies
<1>3. CASE m.kind = "selected"
  <2>1. m.selection \in {"rows", "empty"}
    BY <1>3, SignalParts
  <2>2. Apply(d, m) = [d EXCEPT !.selection =
                         IF m.selection = "empty" THEN "none" ELSE m.selection]
    BY <1>3 DEF Apply
  <2> QED
    BY <2>1, <2>2 DEF Copies
<1>4. CASE m.kind = "reset"
  BY <1>4, EmptyIsMap DEF Apply, Blank, Copies
<1>5. CASE m.kind \in {"failed", "replied"}
  BY <1>5 DEF Apply
<1> QED
  BY <1>1, <1>2, <1>3, <1>4, <1>5, SignalParts

(* A change under the table's mutex, by whomever. *)
LEMMA MakeChangeType ==
  ASSUME TableAssumption, Types, NEW o \in Changes, Fits(o), MakeChange(o)
  PROVE  TableType' /\ inbox' \in [Clients -> Seq(Signals)]
           /\ poisoned' \in BOOLEAN
<1>1. /\ Changed(table, o) \in [rows : Maps,
                                selection : {"none", "rows", "empty"},
                                next : 0 .. MaxKeys]
      /\ \A k \in DOMAIN Changed(table, o).rows : k < Changed(table, o).next
      /\ Signal(table, o) \in Signals
  BY ChangeType DEF Types
<1>2. table' = Changed(table, o) /\ poisoned' = (Open # subscribers)
  BY DEF MakeChange
<1>3. TableType'
  BY <1>1, <1>2 DEF TableType, Maps, Keys
<1>4. PICK told \in Told :
        inbox' = [c \in Clients |->
          IF c \in told THEN Append(inbox[c], Signal(table, o)) ELSE inbox[c]]
  BY DEF MakeChange
<1>5. inbox' \in [Clients -> Seq(Signals)]
  BY <1>1, <1>4 DEF Types, QueueType
<1> QED
  BY <1>2, <1>3, <1>5

(* It poisons the mutex only when the receiver of a subscriber has gone. *)
LEMMA MakeChangePoisons ==
  ASSUME NEW o, MakeChange(o), poisoned', UNCHANGED <<subscribers, closed>>
  PROVE  PoisonedByClosed'
  BY DEF MakeChange, Open, PoisonedByClosed

-----------------------------------------------------------------------------
(* The first state. *)

LEMMA InitHolds ==
  ASSUME TableAssumption
  PROVE  Init => IInv
<1> SUFFICES ASSUME Init
             PROVE  IInv
  OBVIOUS
<1> USE DEF Init
<1>1. TableType
  BY EmptyIsMap, TableAssumption DEF TableType, TableAssumption
<1>2. ServerType
  BY DEF ServerType
<1>3. QueueType
  BY DEF QueueType
<1>4. ClientType
  BY DEF ClientType
<1>5. Causes
  BY TableAssumption
     DEF Causes, ClosedHaveLeft, PoisonedByClosed, FailuresArePoisoned,
         TableAssumption
<1> QED
  BY <1>1, <1>2, <1>3, <1>4, <1>5 DEF IInv, Types

-----------------------------------------------------------------------------
(* Every step preserves the types. *)

(* Queues that one message is added to or taken from. *)
LEMMA QueueAppend ==
  ASSUME NEW S, NEW q \in [Clients -> Seq(S)], NEW c \in Clients, NEW e \in S
  PROVE  [q EXCEPT ![c] = Append(@, e)] \in [Clients -> Seq(S)]
  OBVIOUS

LEMMA QueueTail ==
  ASSUME NEW S, NEW q \in [Clients -> Seq(S)], NEW c \in Clients, q[c] # <<>>
  PROVE  /\ [q EXCEPT ![c] = Tail(@)] \in [Clients -> Seq(S)]
         /\ Head(q[c]) \in S
  OBVIOUS

LEMMA QueueEmpty ==
  ASSUME NEW S, NEW q \in [Clients -> Seq(S)], NEW c \in Clients
  PROVE  [q EXCEPT ![c] = <<>>] \in [Clients -> Seq(S)]
  OBVIOUS

LEMMA ClientSteps ==
  ASSUME TableAssumption, Types, NEW c \in Clients,
         \/ Subscribe(c) \/ Leave(c) \/ \E o \in Asked : Ask(c, o)
         \/ Receive(c) \/ ForwarderFails(c)
  PROVE  Types'
<1> USE DEF Types
<1>0. UNCHANGED <<serverVars, loop, app>> => TableType' /\ ServerType'
  BY DEF TableType, ServerType, serverVars, Maps, Keys
<1>1. CASE Subscribe(c)
  <2>1. UNCHANGED <<serverVars, loop, app, inbox, closed, left, raced>>
    BY <1>1 DEF Subscribe
  <2>2. QueueType'
    <3>1. SubscribeOp \in Asks
      BY DEF Asks
    <3> QED
      BY <1>1, <2>1, <3>1, QueueAppend DEF Subscribe, QueueType
  <2>3. ClientType'
    <3>1. Blank \in Copies
      BY EmptyIsMap DEF Blank, Copies
    <3> QED
      BY <1>1, <2>1, <3>1 DEF Subscribe, ClientType
  <2> QED
    BY <1>0, <2>1, <2>2, <2>3
<1>2. CASE Leave(c)
  <2>1. UNCHANGED <<serverVars, loop, app, inbox, closed, clientVars, raced>>
    BY <1>2 DEF Leave
  <2>2. QueueType'
    <3>1. [requests EXCEPT ![c] = <<>>] \in [Clients -> Seq(Asks)]
      BY QueueEmpty DEF QueueType
    <3>2. requests' = requests \/ requests' = [requests EXCEPT ![c] = <<>>]
      BY <1>2 DEF Leave
    <3> QED
      BY <2>1, <3>1, <3>2 DEF QueueType
  <2>3. ClientType'
    BY <1>2, <2>1 DEF Leave, ClientType, clientVars
  <2> QED
    BY <1>0, <2>1, <2>2, <2>3
<1>3. CASE \E o \in Asked : Ask(c, o)
  <2>0. PICK o \in Asked : Ask(c, o)
    BY <1>3
  <2>1. UNCHANGED <<serverVars, loop, app, inbox, closed, left, waiting, copy,
                    raced>>
    BY <2>0 DEF Ask
  <2>2. QueueType'
    <3>1. o \in Asks
      BY DEF Asks, TableAssumption
    <3> QED
      BY <2>0, <2>1, <3>1, QueueAppend DEF Ask, QueueType
  <2>3. ClientType'
    BY <2>1 DEF ClientType
  <2> QED
    BY <1>0, <2>1, <2>2, <2>3
<1>4. CASE Receive(c)
  <2> DEFINE m == Head(inbox[c])
  <2>1. UNCHANGED <<serverVars, loop, app, requests, closed, left, raced>>
    BY <1>4 DEF Receive
  <2>2. QueueType' /\ m \in Signals
    BY <1>4, <2>1, QueueTail DEF Receive, QueueType
  <2>3. ClientType'
    <3>1. copy[c] # NoCopy => Apply(copy[c], m) \in Copies
      BY <2>2, ApplyType DEF ClientType
    <3>2. copy' \in [Clients -> Copies \cup {NoCopy}]
      BY <1>4, <3>1 DEF Receive, ClientType
    <3>3. waiting' \in [Clients -> Int]
      BY <1>4 DEF Receive, ClientType
    <3> QED
      BY <2>1, <3>2, <3>3 DEF ClientType
  <2> QED
    BY <1>0, <2>1, <2>2, <2>3
<1>5. CASE ForwarderFails(c)
  <2>1. UNCHANGED <<serverVars, loop, app, requests, left, clientVars, raced>>
    BY <1>5 DEF ForwarderFails
  <2>2. QueueType'
    <3>1. /\ [inbox EXCEPT ![c] = <<>>] \in [Clients -> Seq(Signals)]
          /\ [inbox EXCEPT ![c] = Tail(@)] \in [Clients -> Seq(Signals)]
      BY <1>5, QueueEmpty, QueueTail DEF ForwarderFails, QueueType
    <3>2. \/ inbox' = [inbox EXCEPT ![c] = <<>>]
          \/ inbox' = [inbox EXCEPT ![c] = Tail(@)]
      BY <1>5 DEF ForwarderFails
    <3> QED
      BY <2>1, <3>1, <3>2 DEF QueueType
  <2>3. ClientType'
    BY <1>5, <2>1 DEF ForwarderFails, ClientType, clientVars
  <2> QED
    BY <1>0, <2>1, <2>2, <2>3
<1> QED
  BY <1>1, <1>2, <1>3, <1>4, <1>5

LEMMA LoopSteps ==
  ASSUME TableAssumption, Types, Loop \/ \E c \in Clients : Begin(c)
  PROVE  Types'
<1> USE DEF Types
<1>0. UNCHANGED table => TableType'
  BY DEF TableType, Maps, Keys
<1>1. CASE FindPoisoned
  <2>1. UNCHANGED <<table, subscribers, poisoned, app, requests, inbox, closed,
                    left, clientVars, raced>>
    BY <1>1 DEF FindPoisoned
  <2>2. loop \in Invocations /\ loop.op.op \in Methods
    BY <1>1, ChangeParts
       DEF FindPoisoned, ServerType, Invocations, Asks, SubscribeOp, Methods
  <2>3. loop' \in Invocations
    BY <1>1, <2>2 DEF FindPoisoned, Invocations
  <2>4. dead' \subseteq Methods
    BY <1>1, <2>2 DEF FindPoisoned, ServerType
  <2>5. ServerType' /\ QueueType' /\ ClientType'
    BY <2>1, <2>3, <2>4 DEF ServerType, QueueType, ClientType, clientVars
  <2> QED
    BY <1>0, <2>1, <2>5
<1>2. CASE ChangeByMethod
  <2>1. UNCHANGED <<subscribers, app, requests, closed, left, clientVars,
                    raced>>
    BY <1>2 DEF ChangeByMethod
  <2>2. loop \in Invocations /\ loop.op \in Changes /\ loop.op.op \in Methods
    BY <1>2, ChangeParts DEF ChangeByMethod, ServerType, Invocations, Asks
  <2>3. TableType' /\ inbox' \in [Clients -> Seq(Signals)]
          /\ poisoned' \in BOOLEAN
    BY <1>2, <2>2, MakeChangeType DEF ChangeByMethod
  <2>4. loop' \in Invocations
    BY <1>2, <2>2 DEF ChangeByMethod, Invocations
  <2>5. dead' \subseteq Methods
    BY <1>2, <2>2 DEF ChangeByMethod, ServerType
  <2>6. ServerType'
    BY <2>1, <2>3, <2>4, <2>5 DEF ServerType
  <2>7. QueueType' /\ ClientType'
    BY <2>1, <2>3 DEF QueueType, ClientType, clientVars
  <2> QED
    BY <2>3, <2>6, <2>7
<1>3. CASE Refuse \/ SubscribeLock
  <2>1. UNCHANGED <<serverVars, app, requests, inbox, closed, left, clientVars,
                    raced>>
    BY <1>3 DEF Refuse, SubscribeLock
  <2>2. loop \in Invocations
    BY <1>3 DEF Refuse, SubscribeLock, ServerType
  <2>3. loop' \in Invocations
    BY <1>3, <2>2 DEF Refuse, SubscribeLock, Invocations
  <2>4. ServerType' /\ QueueType' /\ ClientType'
    BY <2>1, <2>3 DEF ServerType, QueueType, ClientType, clientVars, serverVars
  <2> QED
    BY <1>0, <2>1, <2>4 DEF serverVars
<1>4. CASE SubscribeRead
  <2>1. UNCHANGED <<table, poisoned, dead, app, requests, inbox, closed, left,
                    clientVars, raced>>
    BY <1>4 DEF SubscribeRead
  <2>2. loop \in Invocations /\ loop.client \in Clients
    BY <1>4 DEF SubscribeRead, TableLocked, ServerType, Invocations
  <2>3. [kind |-> "init", rows |-> table.rows] \in Signals
    BY DEF TableType, Signals
  <2>4. loop' \in Invocations
    BY <1>4, <2>2, <2>3 DEF SubscribeRead, Invocations
  <2>5. subscribers' \subseteq Clients
    BY <1>4, <2>2 DEF SubscribeRead, ServerType
  <2>6. ServerType' /\ QueueType' /\ ClientType'
    BY <2>1, <2>4, <2>5 DEF ServerType, QueueType, ClientType, clientVars
  <2> QED
    BY <1>0, <2>1, <2>6
<1>5. CASE Reply
  <2>1. UNCHANGED <<serverVars, app, requests, closed, left, clientVars, raced>>
    BY <1>5 DEF Reply
  <2>2. loop.client \in Clients /\ loop.reply \in Signals
    BY <1>5 DEF Reply, ServerType, Invocations
  <2>3. QueueType'
    BY <1>5, <2>1, <2>2, QueueAppend DEF Reply, QueueType
  <2>4. ServerType' /\ ClientType'
    BY <1>5, <2>1 DEF Reply, ServerType, ClientType, clientVars, serverVars
  <2> QED
    BY <1>0, <2>1, <2>3, <2>4 DEF serverVars
<1>6. CASE \E c \in Clients : Begin(c)
  <2>0. PICK c \in Clients : Begin(c)
    BY <1>6
  <2> DEFINE o == Head(requests[c])
  <2>1. UNCHANGED <<serverVars, app, inbox, closed, left, clientVars, raced>>
    BY <2>0 DEF Begin
  <2>2. QueueType' /\ o \in Asks
    BY <2>0, <2>1, QueueTail DEF Begin, QueueType
  <2>3. Failure(o) \in Signals
    BY FailureIsSignal
  <2>4. loop' \in Invocations
    BY <2>0, <2>2, <2>3 DEF Begin, Invocations, Asks
  <2>5. ServerType' /\ ClientType'
    BY <2>1, <2>4 DEF ServerType, ClientType, clientVars, serverVars
  <2> QED
    BY <1>0, <2>1, <2>2, <2>5 DEF serverVars
<1> QED
  BY <1>1, <1>2, <1>3, <1>4, <1>5, <1>6 DEF Loop

LEMMA AppSteps ==
  ASSUME TableAssumption, Types,
         (\E o \in Made : AppBegin(o)) \/ ChangeByApp \/ AppFails
  PROVE  Types'
<1> USE DEF Types
<1>1. CASE \E o \in Made : AppBegin(o)
  <2>0. PICK o \in Made : AppBegin(o)
    BY <1>1
  <2>1. app' \in Changes /\ UNCHANGED <<serverVars, loop, requests, inbox,
                                        closed, left, clientVars, raced>>
    BY <2>0 DEF AppBegin, TableAssumption
  <2> QED
    BY <2>1 DEF TableType, ServerType, QueueType, ClientType, serverVars,
                clientVars, Maps, Keys
<1>2. CASE ChangeByApp
  <2>1. UNCHANGED <<subscribers, dead, loop, requests, closed, left,
                    clientVars>>
    BY <1>2 DEF ChangeByApp
  <2>2. app \in Changes
    BY <1>2 DEF ChangeByApp, ServerType
  <2>3. TableType' /\ inbox' \in [Clients -> Seq(Signals)]
          /\ poisoned' \in BOOLEAN
    BY <1>2, <2>2, MakeChangeType DEF ChangeByApp
  <2>4. app' \in {Idle, Gone}
    BY <1>2 DEF ChangeByApp
  <2>5. raced' \in [Clients -> BOOLEAN]
    BY <1>2 DEF ChangeByApp, ClientType
  <2>6. ServerType' /\ QueueType' /\ ClientType'
    BY <2>1, <2>3, <2>4, <2>5 DEF ServerType, QueueType, ClientType, clientVars
  <2> QED
    BY <2>3, <2>6
<1>3. CASE AppFails
  <2>1. app' \in {Idle, Gone} /\ UNCHANGED <<serverVars, loop, requests, inbox,
                                             closed, left, clientVars, raced>>
    BY <1>3 DEF AppFails
  <2> QED
    BY <2>1 DEF TableType, ServerType, QueueType, ClientType, serverVars,
                clientVars, Maps, Keys
<1> QED
  BY <1>1, <1>2, <1>3

-----------------------------------------------------------------------------
(* Every step preserves the causes of failures. *)

(* Receivers go with the forwarder of a client that has left; nobody comes *)
(* back. *)
LEMMA ClosedStep ==
  ASSUME ClientType, ClosedHaveLeft, Next
  PROVE  ClosedHaveLeft'
<1>1. CASE UNCHANGED <<closed, left>>
  BY <1>1 DEF ClosedHaveLeft
<1>2. ASSUME NEW c \in Clients, Leave(c)
      PROVE  ClosedHaveLeft'
  BY <1>2 DEF Leave, ClientType, ClosedHaveLeft
<1>3. ASSUME NEW c \in Clients, ForwarderFails(c)
      PROVE  ClosedHaveLeft'
  BY <1>3 DEF ForwarderFails, ClientType, ClosedHaveLeft
<1> QED
  BY <1>1, <1>2, <1>3
     DEF Next, Loop, Subscribe, Ask, Receive, Begin, FindPoisoned,
         ChangeByMethod, Refuse, SubscribeLock, SubscribeRead, Reply,
         AppBegin, ChangeByApp, AppFails

(* Subscribers are kept, and so is a receiver that has gone. *)
LEMMA PoisonStep ==
  ASSUME ServerType, ClientType, PoisonedByClosed, Next
  PROVE  PoisonedByClosed'
<1>1. CASE ChangeByMethod \/ ChangeByApp
  <2>1. (\E o : MakeChange(o)) /\ UNCHANGED <<subscribers, closed>>
    BY <1>1 DEF ChangeByMethod, ChangeByApp
  <2> QED
    BY <2>1, MakeChangePoisons DEF PoisonedByClosed
<1>2. CASE /\ poisoned' = poisoned /\ subscribers \subseteq subscribers'
           /\ \A c \in subscribers : closed[c] => closed'[c]
  BY <1>2 DEF PoisonedByClosed
<1>3. ASSUME NEW c \in Clients, ForwarderFails(c)
      PROVE  PoisonedByClosed'
  <2>1. UNCHANGED <<poisoned, subscribers>>
    BY <1>3 DEF ForwarderFails, serverVars
  <2>2. \A d \in subscribers : closed[d] => closed'[d]
    BY <1>3 DEF ForwarderFails, ServerType, ClientType
  <2> QED
    BY <1>2, <2>1, <2>2
<1> QED
  BY <1>1, <1>2, <1>3
     DEF Next, Loop, Subscribe, Leave, Ask, Receive, Begin, FindPoisoned,
         Refuse, SubscribeLock, SubscribeRead, Reply, AppBegin, AppFails,
         serverVars

(* A task or thread panics only with a mutex that it has or has found       *)
(* poisoned, and a poisoned mutex stays so. *)
LEMMA FailureStep ==
  ASSUME TableAssumption, FailuresArePoisoned, Next
  PROVE  FailuresArePoisoned'
<1>1. CASE UNCHANGED <<dead, app, poisoned>>
  BY <1>1 DEF FailuresArePoisoned
<1>2. CASE FindPoisoned
  BY <1>2 DEF FindPoisoned, FailuresArePoisoned
<1>3. CASE ChangeByMethod
  BY <1>3 DEF ChangeByMethod, MakeChange, FailuresArePoisoned
<1>4. CASE ChangeByApp
  BY <1>4, TableAssumption
     DEF ChangeByApp, MakeChange, FailuresArePoisoned, TableAssumption
<1>5. CASE AppFails
  BY <1>5, TableAssumption
     DEF AppFails, FailuresArePoisoned, TableAssumption, serverVars
<1>6. ASSUME NEW o \in Made, AppBegin(o)
      PROVE  FailuresArePoisoned'
  BY <1>6, TableAssumption
     DEF AppBegin, FailuresArePoisoned, TableAssumption, serverVars
<1> QED
  BY <1>1, <1>2, <1>3, <1>4, <1>5, <1>6
     DEF Next, Loop, Subscribe, Leave, Ask, Receive, ForwarderFails, Begin,
         Refuse, SubscribeLock, SubscribeRead, Reply, serverVars

-----------------------------------------------------------------------------
(* Folding messages into a storage. *)

Fold(d, q) == FoldLeft(Apply, d, q)

(* A set of numbers with 0 and every successor of its members has them all.*)
LEMMA NatSets ==
  ASSUME NEW T \in SUBSET Nat, 0 \in T, \A n \in T : n + 1 \in T
  PROVE  T = Nat
<1> DEFINE N == Nat \ T
<1>1. SUFFICES ASSUME N # {} PROVE FALSE
  OBVIOUS
<1>2. PICK m \in N : \A k \in N : <<k, m>> \notin OpToRel(<, Nat)
  BY <1>1, WFMin, NatLessThanWellFounded, Zenon
<1>3. \A k \in N : ~ (k < m)
  BY <1>2, Zenon DEF OpToRel
<1>4. m - 1 \in Nat /\ m - 1 < m /\ (m - 1) + 1 = m
  OBVIOUS
<1>5. (m - 1) + 1 \in T
  BY <1>3, <1>4
<1> QED
  BY <1>4, <1>5

LEMMA MaxLast ==
  ASSUME NEW k \in Nat, NEW s \in SUBSET (1 .. k)
  PROVE  Max(s \cup {k + 1}) = k + 1
<1> DEFINE T == s \cup {k + 1}
<1>1. k + 1 \in T /\ \A y \in T : k + 1 >= y
  OBVIOUS
<1>2. \A x \in T : (\A y \in T : x >= y) => x = k + 1
  OBVIOUS
<1>3. Max(T) = CHOOSE x \in T : \A y \in T : x >= y
  BY Zenon DEF Max
<1> HIDE DEF T
<1>4. Max(T) \in T /\ \A y \in T : Max(T) >= y
  BY <1>1, <1>3
<1> QED
  BY <1>2, <1>4 DEF T

(* f goes through the storages that the first n messages of q make.        *)
Steps(f, q, n) == \A i \in 1 .. n : f[i] = Apply(f[i - 1], q[i])

(* The storages that d goes through with the messages of q. *)
Run(f, d, q) == f[0] = d /\ Steps(f, q, Len(q))

(* A fold is the last of them.  FoldLeft is a recursive function on the    *)
(* sets of places, so there is one to be shown for longer and longer       *)
(* prefixes.                                                               *)
LEMMA FoldRun ==
  ASSUME NEW V, NEW d, NEW q \in Seq(V)
  PROVE  \E f : Run(f, d, q) /\ Fold(d, q) = f[Len(q)]
<1> DEFINE Body(g, s) ==
             IF s = {} THEN d ELSE Apply(g[s \ {Max(s)}], q[Max(s)])
           Iter(g, k) == g = [s \in SUBSET (1 .. k) |-> Body(g, s)]
           T == {k \in Nat : \E g : Iter(g, k)}
<1>1. 0 \in T
  <2> DEFINE g == [s \in SUBSET (1 .. 0) |-> d]
  <2>1. Iter(g, 0)
    OBVIOUS
  <2> QED
    BY <2>1
<1>2. ASSUME NEW k \in T
      PROVE  k + 1 \in T
  <2>1. PICK g : Iter(g, k)
    OBVIOUS
  <2> DEFINE h == [s \in SUBSET (1 .. k + 1) |->
                     IF k + 1 \in s THEN Apply(g[s \ {k + 1}], q[k + 1])
                     ELSE g[s]]
  <2>2. \A s \in SUBSET (1 .. k + 1) : s \ {k + 1} \in SUBSET (1 .. k)
    OBVIOUS
  <2>3. ASSUME NEW s \in SUBSET (1 .. k + 1)
        PROVE  h[s] = Body(h, s)
    <3>1. CASE k + 1 \in s
      <4>1. s = (s \ {k + 1}) \cup {k + 1}
        BY <3>1
      <4>2. Max(s) = k + 1
        BY <2>2, <4>1, MaxLast
      <4>3. h[s \ {k + 1}] = g[s \ {k + 1}]
        BY <2>2
      <4> QED
        BY <3>1, <4>2, <4>3
    <3>2. CASE k + 1 \notin s
      <4>1. s \in SUBSET (1 .. k)
        BY <3>2
      <4>2. /\ s \ {Max(s)} \in SUBSET (1 .. k)
            /\ s \ {Max(s)} \in SUBSET (1 .. k + 1)
        BY <4>1
      <4>3. h[s \ {Max(s)}] = g[s \ {Max(s)}]
        BY <4>2
      <4>4. g[s] = Body(g, s)
        BY <2>1, <4>1
      <4> QED
        BY <3>2, <4>3, <4>4
    <3> QED
      BY <3>1, <3>2
  <2>4. Iter(h, k + 1)
    BY <2>3
  <2>5. k + 1 \in Nat
    OBVIOUS
  <2> HIDE DEF h, Iter
  <2> QED
    BY <2>4, <2>5
<1> HIDE DEF T
<1>3. T = Nat
  BY <1>1, <1>2, NatSets DEF T
<1> DEFINE n == Len(q)
           iter == CHOOSE g : g = [s \in SUBSET DOMAIN q |-> Body(g, s)]
<1>4. n \in Nat /\ DOMAIN q = 1 .. n
  OBVIOUS
<1>5. Iter(iter, n)
  <2>1. \E g : Iter(g, n)
    BY <1>3, <1>4 DEF T
  <2> QED
    BY <1>4, <2>1
<1>6. Fold(d, q) = iter[1 .. n]
  BY <1>4 DEF Fold, FoldLeft, MapThenFoldSet
<1> HIDE DEF iter, n
<1> DEFINE f == [i \in 0 .. n |-> iter[1 .. i]]
<1>7. f[0] = d
  <2>1. 1 .. 0 = {} /\ {} \in SUBSET (1 .. n) /\ 0 \in 0 .. n
    BY <1>4
  <2>2. iter[{}] = Body(iter, {})
    BY <1>5, <2>1
  <2> QED
    BY <2>1, <2>2
<1>8. ASSUME NEW i \in 1 .. n
      PROVE  f[i] = Apply(f[i - 1], q[i])
  <2>1. /\ i \in 0 .. n /\ i - 1 \in 0 .. n
        /\ i - 1 \in Nat /\ (i - 1) + 1 = i /\ i \in Nat
    BY <1>4
  <2>2. /\ 1 .. i \in SUBSET (1 .. n) /\ 1 .. i # {}
        /\ (1 .. i) \ {i} = 1 .. (i - 1)
        /\ (1 .. (i - 1)) \cup {i} = 1 .. i
    <3>1. \A k \in 1 .. i : k \in 1 .. n
      BY <1>4
    <3>2. i \in 1 .. i
      BY <2>1
    <3>3. (1 .. i) \ {i} = 1 .. (i - 1)
      BY <2>1
    <3>4. (1 .. (i - 1)) \cup {i} = 1 .. i
      BY <2>1
    <3> QED
      BY <3>1, <3>2, <3>3, <3>4
  <2> DEFINE s == 1 .. (i - 1)
  <2>3. s \in SUBSET (1 .. (i - 1))
    OBVIOUS
  <2>4. Max(1 .. i) = i
    <3> HIDE DEF s
    <3>1. Max(s \cup {(i - 1) + 1}) = (i - 1) + 1
      BY <2>1, <2>3, MaxLast
    <3> QED
      BY <3>1, <2>1, <2>2 DEF s
  <2>5. iter[1 .. i] = Body(iter, 1 .. i)
    BY <1>5, <2>2
  <2> QED
    BY <2>1, <2>2, <2>4, <2>5
<1>9. f[n] = iter[1 .. n]
  BY <1>4
<1> HIDE DEF f
<1>10. Run(f, d, q) /\ Fold(d, q) = f[Len(q)]
  BY <1>6, <1>7, <1>8, <1>9 DEF n, Run, Steps
<1> QED
  BY <1>10

(* The same messages take equal storages to equal storages. *)
LEMMA RunUnique ==
  ASSUME NEW n \in Nat, NEW f, NEW g, NEW q, f[0] = g[0],
         Steps(f, q, n), Steps(g, q, n)
  PROVE  f[n] = g[n]
<1> DEFINE T == {k \in Nat : k <= n => f[k] = g[k]}
<1>1. 0 \in T
  OBVIOUS
<1>2. ASSUME NEW k \in T
      PROVE  k + 1 \in T
  <2>1. CASE k + 1 <= n
    <3>1. k + 1 \in 1 .. n /\ (k + 1) - 1 = k /\ k <= n
      BY <2>1
    <3>2. f[k] = g[k]
      BY <3>1
    <3>3. /\ f[k + 1] = Apply(f[(k + 1) - 1], q[k + 1])
          /\ g[k + 1] = Apply(g[(k + 1) - 1], q[k + 1])
      BY <3>1 DEF Steps
    <3>4. f[k + 1] = g[k + 1]
      BY <3>1, <3>2, <3>3
    <3> QED
      BY <3>4
  <2> QED
    BY <2>1
<1> HIDE DEF T
<1>3. T = Nat
  BY <1>1, <1>2, NatSets DEF T
<1> QED
  BY <1>3 DEF T

LEMMA FoldNone ==
  ASSUME NEW d
  PROVE  Fold(d, <<>>) = d
<1>1. <<>> \in Seq(Nat) /\ Len(<<>>) = 0
  OBVIOUS
<1>2. \E f : Run(f, d, <<>>) /\ Fold(d, <<>>) = f[0]
  BY <1>1, FoldRun
<1> QED
  BY <1>2 DEF Run

(* The last message is applied last, ... *)
LEMMA FoldLast ==
  ASSUME NEW V, NEW d, NEW q \in Seq(V), NEW m \in V
  PROVE  Fold(d, Append(q, m)) = Apply(Fold(d, q), m)
<1> DEFINE r == Append(q, m)
           n == Len(q)
<1>1. /\ r \in Seq(V) /\ Len(r) = n + 1 /\ n \in Nat /\ r[n + 1] = m
      /\ \A i \in 1 .. n : r[i] = q[i]
  OBVIOUS
<1>2. PICK f : Run(f, d, q) /\ Fold(d, q) = f[n]
  BY FoldRun
<1> HIDE DEF r
<1>3. PICK g : Run(g, d, r) /\ Fold(d, r) = g[Len(r)]
  BY <1>1, FoldRun
<1> HIDE DEF n
<1>4. f[0] = g[0]
  BY <1>2, <1>3 DEF Run
<1>5. Steps(f, q, n) /\ Steps(g, q, n)
  BY <1>1, <1>2, <1>3 DEF Run, Steps, n
<1>6. f[n] = g[n]
  <2>1. n \in Nat
    BY <1>1
  <2> QED
    BY <1>4, <1>5, <2>1, RunUnique
<1>7. g[n + 1] = Apply(g[(n + 1) - 1], r[n + 1]) /\ (n + 1) - 1 = n
  BY <1>1, <1>3 DEF Run, Steps
<1>8. Fold(d, r) = Apply(Fold(d, q), m)
  BY <1>1, <1>2, <1>3, <1>6, <1>7
<1> QED
  BY <1>8 DEF r

(* ... the first one first. *)
LEMMA FoldFirst ==
  ASSUME NEW V, NEW d, NEW q \in Seq(V), q # <<>>
  PROVE  Fold(d, q) = Fold(Apply(d, Head(q)), Tail(q))
<1> DEFINE r == Tail(q)
           e == Apply(d, Head(q))
           n == Len(r)
<1>1. /\ r \in Seq(V) /\ n \in Nat /\ Len(q) = n + 1 /\ Head(q) = q[1]
      /\ \A i \in 1 .. n : r[i] = q[i + 1]
  OBVIOUS
<1>2. PICK f : Run(f, d, q) /\ Fold(d, q) = f[Len(q)]
  BY FoldRun
<1> HIDE DEF r, e
<1>3. PICK g : Run(g, e, r) /\ Fold(e, r) = g[Len(r)]
  BY <1>1, FoldRun
<1> HIDE DEF n
<1> DEFINE h == [i \in 0 .. n |-> f[i + 1]]
<1>4. h[0] = g[0]
  <2>1. f[0] = d /\ f[1] = Apply(f[0], q[1])
    <3>1. 1 \in 1 .. Len(q) /\ 1 - 1 = 0
      BY <1>1
    <3>2. f[1] = Apply(f[1 - 1], q[1])
      BY <1>2, <3>1 DEF Run, Steps
    <3> QED
      BY <1>2, <3>1, <3>2 DEF Run
  <2>2. h[0] = f[1]
    BY <1>1
  <2> QED
    BY <1>1, <1>3, <2>1, <2>2 DEF Run, e
<1>5. ASSUME NEW i \in 1 .. n
      PROVE  /\ h[i] = Apply(h[i - 1], r[i])
             /\ g[i] = Apply(g[i - 1], r[i])
  <2>1. /\ i + 1 \in 1 .. Len(q) /\ (i + 1) - 1 = i /\ (i - 1) + 1 = i
        /\ i \in 0 .. n /\ i - 1 \in 0 .. n
    BY <1>1
  <2>2. f[i + 1] = Apply(f[(i + 1) - 1], q[i + 1])
    BY <1>2, <2>1 DEF Run, Steps
  <2>3. h[i] = f[i + 1] /\ h[i - 1] = f[i]
    BY <2>1
  <2>4. g[i] = Apply(g[i - 1], r[i])
    BY <1>3 DEF Run, Steps, n
  <2> QED
    BY <1>1, <2>1, <2>2, <2>3, <2>4
<1>6. h[n] = f[n + 1]
  BY <1>1
<1> HIDE DEF h
<1>7. h[n] = g[n]
  <2>1. Steps(h, r, n) /\ Steps(g, r, n) /\ n \in Nat
    BY <1>1, <1>5 DEF Steps
  <2> QED
    BY <1>4, <2>1, RunUnique
<1>8. Fold(d, q) = Fold(e, r)
  BY <1>1, <1>2, <1>3, <1>6, <1>7 DEF n
<1> QED
  BY <1>8 DEF e, r

-----------------------------------------------------------------------------
(* Storages and the messages on their way to them. *)

(* d has no row and no selection that e does not have. *)
Within(d, e) ==
  /\ DOMAIN d.rows \subseteq DOMAIN e.rows
  /\ d.selection \in {"none", e.selection}

(* Replies that carry no rows. *)
Idles == {"failed", "replied"}

(* A storage stays a storage, ... *)
LEMMA FoldType ==
  ASSUME NEW d \in Copies, NEW q \in Seq(Signals)
  PROVE  Fold(d, q) \in Copies
<1>1. PICK f : Run(f, d, q) /\ Fold(d, q) = f[Len(q)]
  BY FoldRun
<1> DEFINE T == {k \in Nat : k <= Len(q) => f[k] \in Copies}
<1>2. 0 \in T
  BY <1>1 DEF Run
<1>3. ASSUME NEW k \in T
      PROVE  k + 1 \in T
  <2>1. CASE k + 1 <= Len(q)
    <3>1. k + 1 \in 1 .. Len(q) /\ (k + 1) - 1 = k /\ k <= Len(q)
      BY <2>1
    <3>2. f[k] \in Copies /\ q[k + 1] \in Signals
      BY <3>1
    <3>3. f[k + 1] = Apply(f[(k + 1) - 1], q[k + 1])
      BY <1>1, <3>1 DEF Run, Steps
    <3>4. f[k + 1] \in Copies
      BY <3>1, <3>2, <3>3, ApplyType
    <3> QED
      BY <3>4
  <2> QED
    BY <2>1
<1> HIDE DEF T
<1>4. T = Nat
  BY <1>2, <1>3, NatSets DEF T
<1> QED
  BY <1>1, <1>4 DEF T

(* ... a message keeps one storage within another, ... *)
LEMMA ApplyWithin ==
  ASSUME NEW d \in Copies, NEW e \in Copies, Within(d, e), NEW m \in Signals
  PROVE  Within(Apply(d, m), Apply(e, m))
<1>0. d.rows \in Maps /\ e.rows \in Maps
  BY DEF Copies
<1>1. CASE m.kind \in {"updated", "init"}
  <2>1. /\ Apply(d, m) = [d EXCEPT !.rows = Overlay(@, m.rows)]
        /\ Apply(e, m) = [e EXCEPT !.rows = Overlay(@, m.rows)]
    BY <1>1 DEF Apply
  <2>2. /\ DOMAIN Overlay(d.rows, m.rows) = DOMAIN d.rows \cup DOMAIN m.rows
        /\ DOMAIN Overlay(e.rows, m.rows) = DOMAIN e.rows \cup DOMAIN m.rows
    BY <1>0, <1>1, SignalParts, OverlayIsMap
  <2>3. /\ Apply(d, m).rows = Overlay(d.rows, m.rows)
        /\ Apply(e, m).rows = Overlay(e.rows, m.rows)
        /\ Apply(d, m).selection = d.selection
        /\ Apply(e, m).selection = e.selection
    BY <2>1 DEF Copies
  <2> QED
    BY <2>2, <2>3 DEF Within
<1>2. CASE m.kind = "removed"
  <2>1. /\ Apply(d, m) = [d EXCEPT !.rows = [k \in DOMAIN @ \ m.keys |-> @[k]]]
        /\ Apply(e, m) = [e EXCEPT !.rows = [k \in DOMAIN @ \ m.keys |-> @[k]]]
    BY <1>2 DEF Apply
  <2>2. /\ DOMAIN Apply(d, m).rows = DOMAIN d.rows \ m.keys
        /\ DOMAIN Apply(e, m).rows = DOMAIN e.rows \ m.keys
        /\ Apply(d, m).selection = d.selection
        /\ Apply(e, m).selection = e.selection
    BY <2>1 DEF Copies
  <2> QED
    BY <2>2 DEF Within
<1>3. CASE m.kind = "selected"
  <2> DEFINE s == IF m.selection = "empty" THEN "none" ELSE m.selection
  <2>1. /\ Apply(d, m) = [d EXCEPT !.selection = s]
        /\ Apply(e, m) = [e EXCEPT !.selection = s]
    BY <1>3 DEF Apply
  <2> HIDE DEF s
  <2>2. /\ Apply(d, m).rows = d.rows /\ Apply(d, m).selection = s
        /\ Apply(e, m).rows = e.rows /\ Apply(e, m).selection = s
    BY <2>1 DEF Copies
  <2> QED
    BY <2>2 DEF Within
<1>4. CASE m.kind = "reset"
  BY <1>4 DEF Apply, Within, Blank
<1>5. CASE m.kind \in Idles
  BY <1>5 DEF Apply, Idles
<1> QED
  BY <1>1, <1>2, <1>3, <1>4, <1>5, SignalParts DEF Idles

(* ... so any number of messages do, ... *)
LEMMA FoldWithin ==
  ASSUME NEW d \in Copies, NEW e \in Copies, Within(d, e),
         NEW q \in Seq(Signals)
  PROVE  Within(Fold(d, q), Fold(e, q))
<1>1. PICK f : Run(f, d, q) /\ Fold(d, q) = f[Len(q)]
  BY FoldRun
<1>2. PICK g : Run(g, e, q) /\ Fold(e, q) = g[Len(q)]
  BY FoldRun
<1> DEFINE T == {k \in Nat : k <= Len(q) =>
                   f[k] \in Copies /\ g[k] \in Copies /\ Within(f[k], g[k])}
<1>3. 0 \in T
  BY <1>1, <1>2 DEF Run
<1>4. ASSUME NEW k \in T
      PROVE  k + 1 \in T
  <2>1. CASE k + 1 <= Len(q)
    <3>1. k + 1 \in 1 .. Len(q) /\ (k + 1) - 1 = k /\ k <= Len(q)
      BY <2>1
    <3>2. /\ f[k] \in Copies /\ g[k] \in Copies /\ Within(f[k], g[k])
          /\ q[k + 1] \in Signals
      BY <3>1
    <3>3. /\ f[k + 1] = Apply(f[(k + 1) - 1], q[k + 1])
          /\ g[k + 1] = Apply(g[(k + 1) - 1], q[k + 1])
      BY <1>1, <1>2, <3>1 DEF Run, Steps
    <3>4. /\ f[k + 1] = Apply(f[k], q[k + 1])
          /\ g[k + 1] = Apply(g[k], q[k + 1])
      BY <3>1, <3>3
    <3>5. /\ f[k + 1] \in Copies /\ g[k + 1] \in Copies
          /\ Within(f[k + 1], g[k + 1])
      BY <3>2, <3>4, ApplyType, ApplyWithin
    <3> QED
      BY <3>5
  <2> QED
    BY <2>1
<1> HIDE DEF T
<1>5. T = Nat
  BY <1>3, <1>4, NatSets DEF T
<1> QED
  BY <1>1, <1>2, <1>5 DEF T

(* ... and replies without rows leave a storage alone. *)
LEMMA FoldIdle ==
  ASSUME NEW d, NEW q \in Seq(Signals),
         \A i \in 1 .. Len(q) : q[i].kind \in Idles
  PROVE  Fold(d, q) = d
<1>1. PICK f : Run(f, d, q) /\ Fold(d, q) = f[Len(q)]
  BY FoldRun
<1> DEFINE T == {k \in Nat : k <= Len(q) => f[k] = d}
<1>2. 0 \in T
  BY <1>1 DEF Run
<1>3. ASSUME NEW k \in T
      PROVE  k + 1 \in T
  <2>1. CASE k + 1 <= Len(q)
    <3>1. k + 1 \in 1 .. Len(q) /\ (k + 1) - 1 = k /\ k <= Len(q)
      BY <2>1
    <3>2. f[k] = d /\ q[k + 1].kind \in Idles
      BY <3>1
    <3>3. f[k + 1] = Apply(f[(k + 1) - 1], q[k + 1])
      BY <1>1, <3>1 DEF Run, Steps
    <3>4. f[k + 1] = d
      BY <3>1, <3>2, <3>3 DEF Apply, Idles
    <3> QED
      BY <3>4
  <2> QED
    BY <2>1
<1> HIDE DEF T
<1>4. T = Nat
  BY <1>2, <1>3, NatSets DEF T
<1> QED
  BY <1>1, <1>4 DEF T

(* A storage that is within the table, or has its rows, is so again once   *)
(* the table has changed and the storage has handled the signal of that.   *)
LEMMA SignalFollows ==
  ASSUME NEW d \in Copies,
         NEW t \in [rows : Maps, selection : {"none", "rows", "empty"},
                    next : Nat],
         NEW o \in Changes, Within(d, t)
  PROVE  /\ Within(Apply(d, Signal(t, o)), Changed(t, o))
         /\ d.rows = t.rows => Apply(d, Signal(t, o)).rows = Changed(t, o).rows
<1> DEFINE s == Signal(t, o)
<1>1. CASE o.op = "insert"
  <2> DEFINE m == [k \in {t.next} |-> o.row]
  <2>1. s = [kind |-> "updated", rows |-> m]
    BY <1>1 DEF Signal
  <2>2. Changed(t, o) = [t EXCEPT !.rows = Overlay(@, m), !.next = @ + 1]
    BY <1>1 DEF Changed
  <2> HIDE DEF m
  <2>3. Apply(d, s) = [d EXCEPT !.rows = Overlay(@, m)]
    BY <2>1 DEF Apply
  <2>4. /\ Apply(d, s).rows = Overlay(d.rows, m)
        /\ Apply(d, s).selection = d.selection
        /\ Changed(t, o).rows = Overlay(t.rows, m)
        /\ Changed(t, o).selection = t.selection
    BY <2>2, <2>3 DEF Copies
  <2>5. /\ DOMAIN Overlay(d.rows, m) = DOMAIN d.rows \cup DOMAIN m
        /\ DOMAIN Overlay(t.rows, m) = DOMAIN t.rows \cup DOMAIN m
    BY DEF Overlay
  <2> HIDE DEF s
  <2>6. Within(Apply(d, s), Changed(t, o))
    BY <2>4, <2>5 DEF Within
  <2> QED
    BY <2>4, <2>6 DEF s
<1>2. CASE o.op = "update"
  <2> DEFINE m == [k \in {o.key} \cap DOMAIN t.rows |-> o.row]
             n == [k \in DOMAIN t.rows |->
                     IF k = o.key THEN o.row ELSE t.rows[k]]
  <2>1. s = [kind |-> "updated", rows |-> m]
    BY <1>2 DEF Signal
  <2>2. Changed(t, o) = [t EXCEPT !.rows = n]
    BY <1>2 DEF Changed
  <2>3. /\ DOMAIN Overlay(d.rows, m)
             = DOMAIN d.rows \cup ({o.key} \cap DOMAIN t.rows)
        /\ DOMAIN n = DOMAIN t.rows
    BY DEF Overlay
  <2>4. Overlay(t.rows, m) = n
    BY DEF Overlay
  <2> HIDE DEF m, n
  <2>5. Apply(d, s) = [d EXCEPT !.rows = Overlay(@, m)]
    BY <2>1 DEF Apply
  <2>6. /\ Apply(d, s).rows = Overlay(d.rows, m)
        /\ Apply(d, s).selection = d.selection
        /\ Changed(t, o).rows = n
        /\ Changed(t, o).selection = t.selection
    BY <2>2, <2>5 DEF Copies
  <2> HIDE DEF s
  <2>7. Within(Apply(d, s), Changed(t, o))
    BY <2>3, <2>6 DEF Within
  <2> QED
    BY <2>4, <2>6, <2>7 DEF s
<1>3. CASE o.op = "remove"
  <2> DEFINE ks == {o.key} \cap DOMAIN t.rows
  <2>1. s = [kind |-> "removed", keys |-> ks]
    BY <1>3 DEF Signal
  <2>2. Changed(t, o)
          = [t EXCEPT !.rows = [k \in DOMAIN t.rows \ {o.key} |-> t.rows[k]]]
    BY <1>3 DEF Changed
  <2>3. DOMAIN t.rows \ ks = DOMAIN t.rows \ {o.key}
    OBVIOUS
  <2>4. DOMAIN d.rows \ ks \subseteq DOMAIN t.rows \ {o.key}
    BY DEF Within
  <2> HIDE DEF ks
  <2>5. Apply(d, s)
          = [d EXCEPT !.rows = [k \in DOMAIN d.rows \ ks |-> d.rows[k]]]
    BY <2>1 DEF Apply
  <2>6. /\ Apply(d, s).rows = [k \in DOMAIN d.rows \ ks |-> d.rows[k]]
        /\ Apply(d, s).selection = d.selection
        /\ Changed(t, o).rows = [k \in DOMAIN t.rows \ {o.key} |-> t.rows[k]]
        /\ Changed(t, o).selection = t.selection
    BY <2>2, <2>5 DEF Copies
  <2> HIDE DEF s
  <2>7. Within(Apply(d, s), Changed(t, o))
    BY <2>4, <2>6 DEF Within
  <2>8. d.rows = t.rows => Apply(d, s).rows = Changed(t, o).rows
    BY <2>3, <2>6
  <2> QED
    BY <2>7, <2>8 DEF s
<1>4. CASE o.op = "select"
  <2>1. s = [kind |-> "selected", selection |-> o.selection]
    BY <1>4 DEF Signal
  <2>2. Changed(t, o) = [t EXCEPT !.selection = o.selection]
    BY <1>4 DEF Changed
  <2>3. Apply(d, s) = [d EXCEPT !.selection =
          IF o.selection = "empty" THEN "none" ELSE o.selection]
    BY <2>1 DEF Apply
  <2> HIDE DEF s
  <2>4. /\ Apply(d, s).rows = d.rows
        /\ Apply(d, s).selection \in {"none", o.selection}
        /\ Changed(t, o).rows = t.rows
        /\ Changed(t, o).selection = o.selection
    BY <2>2, <2>3 DEF Copies
  <2> QED
    BY <2>4 DEF Within, s
<1>5. CASE o.op = "clear"
  <2>1. s = [kind |-> "reset"]
    BY <1>5 DEF Signal
  <2>2. Changed(t, o) = [rows |-> EmptyMap, selection |-> "none", next |-> 0]
    BY <1>5 DEF Changed
  <2>3. Apply(d, s) = Blank
    BY <2>1 DEF Apply
  <2> HIDE DEF s
  <2> QED
    BY <2>2, <2>3 DEF Within, Blank, s
<1>6. o.op \in {"insert", "update", "remove", "select", "clear"}
  BY ChangeParts DEF Methods
<1> HIDE DEF s
<1> QED
  BY <1>1, <1>2, <1>3, <1>4, <1>5, <1>6 DEF s

-----------------------------------------------------------------------------
(* Every step keeps the subscribers' storages in step with the table. *)

(* Only the reply to a subscription carries rows, and its client is a      *)
(* subscriber by then.                                                     *)
RepliesKnown ==
  loop # Idle =>
    /\ loop.reply.kind \in Idles \cup {"init"}
    /\ loop.reply.kind = "init" =>
         loop.at = "replying" /\ loop.client \in subscribers
    /\ loop.at = "subscribing" => loop.op = SubscribeOp

(* Whoever has subscribed has a storage; whoever the table does not know   *)
(* yet has an empty one, and nothing under way that changes it.            *)
HasCopy(c) == c \in subscribers \/ SubscriptionAhead(c) => copy[c] # NoCopy
NotTold(c) ==
  c \notin subscribers =>
    /\ copy[c] \in {NoCopy, Blank}
    /\ \A i \in 1 .. Len(inbox[c]) : inbox[c][i].kind \in Idles

Following(c) == c \in subscribers /\ ~ left[c] /\ ~ raced[c] /\ ~ poisoned

(* The storage of a subscriber will never have more than the table, and    *)
(* will have its rows when no further subscription is under way.           *)
Follows(c) ==
  Following(c) =>
    /\ Within(Eventual(c), table)
    /\ ~ SubscriptionAhead(c) => Eventual(c).rows = table.rows

Synced(c) == HasCopy(c) /\ NotTold(c) /\ Follows(c)

Synchrony == RepliesKnown /\ \A c \in Clients : Synced(c)

(* The messages on their way to c. *)
Coming(c) == IF Replying(c) THEN Append(inbox[c], loop.reply) ELSE inbox[c]

LEMMA EventualIsFold ==
  ASSUME NEW c
  PROVE  Eventual(c) = Fold(copy[c], Coming(c))
  BY DEF Eventual, Fold, Coming

(* What is in a queue that one element is added to or taken from. *)
LEMMA InAppended ==
  ASSUME NEW S, NEW q \in Seq(S), NEW e \in S
  PROVE  ToSet(Append(q, e)) = ToSet(q) \cup {e}
<1>1. /\ DOMAIN q = 1 .. Len(q) /\ Len(q) \in Nat
      /\ DOMAIN Append(q, e) = 1 .. Len(q) + 1
      /\ Append(q, e)[Len(q) + 1] = e
      /\ \A i \in 1 .. Len(q) : Append(q, e)[i] = q[i]
  OBVIOUS
<1>2. ASSUME NEW x \in ToSet(Append(q, e))
      PROVE  x \in ToSet(q) \cup {e}
  <2>1. PICK i \in 1 .. Len(q) + 1 : x = Append(q, e)[i]
    BY <1>1 DEF ToSet
  <2>2. i \in 1 .. Len(q) \/ i = Len(q) + 1
    BY <1>1
  <2> QED
    BY <1>1, <2>1, <2>2 DEF ToSet
<1>3. ASSUME NEW x \in ToSet(q) \cup {e}
      PROVE  x \in ToSet(Append(q, e))
  <2>1. CASE x = e
    <3>1. Len(q) + 1 \in DOMAIN Append(q, e)
      BY <1>1
    <3> QED
      BY <1>1, <2>1, <3>1 DEF ToSet
  <2>2. CASE x \in ToSet(q)
    <3>1. PICK i \in 1 .. Len(q) : x = q[i]
      BY <1>1, <2>2 DEF ToSet
    <3>2. i \in DOMAIN Append(q, e)
      BY <1>1
    <3> QED
      BY <1>1, <3>1, <3>2 DEF ToSet
  <2> QED
    BY <2>1, <2>2
<1> QED
  BY <1>2, <1>3

LEMMA InTail ==
  ASSUME NEW S, NEW q \in Seq(S), q # <<>>
  PROVE  ToSet(q) = {Head(q)} \cup ToSet(Tail(q))
<1>1. /\ DOMAIN q = 1 .. Len(q) /\ Len(q) \in Nat \ {0} /\ Head(q) = q[1]
      /\ DOMAIN Tail(q) = 1 .. Len(q) - 1
      /\ \A i \in 1 .. Len(q) - 1 : Tail(q)[i] = q[i + 1]
  OBVIOUS
<1>2. ASSUME NEW x \in ToSet(q)
      PROVE  x \in {Head(q)} \cup ToSet(Tail(q))
  <2>1. PICK i \in 1 .. Len(q) : x = q[i]
    BY <1>1 DEF ToSet
  <2>2. CASE i = 1
    BY <1>1, <2>1, <2>2
  <2>3. CASE i # 1
    <3>1. i - 1 \in 1 .. Len(q) - 1 /\ (i - 1) + 1 = i
      BY <1>1, <2>3
    <3> QED
      BY <1>1, <2>1, <3>1 DEF ToSet
  <2> QED
    BY <2>2, <2>3
<1>3. ASSUME NEW x \in {Head(q)} \cup ToSet(Tail(q))
      PROVE  x \in ToSet(q)
  <2>1. CASE x = Head(q)
    <3>1. 1 \in DOMAIN q
      BY <1>1
    <3> QED
      BY <1>1, <2>1, <3>1 DEF ToSet
  <2>2. CASE x \in ToSet(Tail(q))
    <3>1. PICK i \in 1 .. Len(q) - 1 : x = Tail(q)[i]
      BY <1>1, <2>2 DEF ToSet
    <3>2. i + 1 \in DOMAIN q
      BY <1>1
    <3> QED
      BY <1>1, <3>1, <3>2 DEF ToSet
  <2> QED
    BY <2>1, <2>2
<1> QED
  BY <1>2, <1>3

(* A client that a step leaves alone. *)
LEMMA Untouched ==
  ASSUME NEW c \in Clients, Synced(c),
         c \in subscribers' <=> c \in subscribers,
         copy'[c] = copy[c], inbox'[c] = inbox[c], table' = table,
         left[c] => left'[c], raced[c] => raced'[c], poisoned => poisoned',
         Coming(c)' = Coming(c),
         SubscriptionAhead(c)' => SubscriptionAhead(c),
         Following(c)' /\ SubscriptionAhead(c) => SubscriptionAhead(c)'
  PROVE  Synced(c)'
<1>1. Eventual(c)' = Eventual(c)
  BY EventualIsFold DEF Eventual, Coming
<1>2. HasCopy(c)'
  BY DEF Synced, HasCopy
<1>3. NotTold(c)'
  BY DEF Synced, NotTold
<1>4. Following(c)' => Following(c)
  BY DEF Following
<1>5. Follows(c)'
  BY <1>1, <1>4 DEF Synced, Follows
<1> QED
  BY <1>2, <1>3, <1>5 DEF Synced


(* A client that keeps its storage, its requests and what is under way to  *)
(* it, while the loop stays where it is. *)
LEMMA LeftAlone ==
  ASSUME NEW c \in Clients, Synced(c),
         UNCHANGED <<subscribers, table, poisoned, loop>>,
         copy'[c] = copy[c], inbox'[c] = inbox[c], requests'[c] = requests[c],
         left[c] => left'[c], raced[c] => raced'[c]
  PROVE  Synced(c)'
<1>1. Coming(c)' = Coming(c) /\ SubscriptionAhead(c)' = SubscriptionAhead(c)
  BY DEF Coming, Replying, SubscriptionAhead
<1> QED
  BY <1>1, Untouched

LEMMA RepliesKept ==
  ASSUME RepliesKnown, UNCHANGED <<loop, subscribers>>
  PROVE  RepliesKnown'
  BY DEF RepliesKnown

(* A client subscribes (again): its storage is emptied, and what is on its *)
(* way to it fills it with no more than it did before.                     *)
LEMMA SubscribeSyncs ==
  ASSUME TableAssumption, IInv, Synchrony, NEW c \in Clients, Subscribe(c)
  PROVE  Synchrony'
<1>1. /\ copy' = [copy EXCEPT ![c] = Blank]
      /\ requests' = [requests EXCEPT ![c] = Append(@, SubscribeOp)]
      /\ UNCHANGED <<table, subscribers, poisoned, loop, inbox, left, raced>>
  BY DEF Subscribe, serverVars
<1>2. /\ requests[c] \in Seq(Asks) /\ inbox[c] \in Seq(Signals)
      /\ copy \in [Clients -> Copies \cup {NoCopy}]
      /\ requests \in [Clients -> Seq(Asks)]
  BY DEF IInv, Types, QueueType, ClientType
<1>3. Blank \in Copies /\ Blank # NoCopy
  BY EmptyIsMap, TableAssumption DEF Blank, Copies, TableAssumption
<1>4. copy'[c] = Blank /\ requests'[c] = Append(requests[c], SubscribeOp)
  BY <1>1, <1>2
<1>5. Synced(c)'
  <2>1. SubscriptionAhead(c)'
    <3>1. SubscribeOp \in Asks
      BY DEF Asks
    <3>2. SubscribeOp \in ToSet(requests'[c])
      BY <1>2, <1>4, <3>1, InAppended
    <3> QED
      BY <3>2 DEF SubscriptionAhead
  <2>2. HasCopy(c)' /\ NotTold(c)'
    BY <1>1, <1>3, <1>4 DEF HasCopy, NotTold, Synchrony, Synced
  <2>3. Follows(c)'
    <3>1. SUFFICES ASSUME Following(c)'
                   PROVE  Within(Eventual(c), table)'
      BY <2>1 DEF Follows
    <3>2. Following(c) /\ copy[c] \in Copies
      BY <1>1, <1>2, <3>1 DEF Following, Synchrony, Synced, HasCopy
    <3>3. Within(Eventual(c), table)
      BY <3>2 DEF Synchrony, Synced, Follows
    <3>4. Coming(c)' = Coming(c)
      BY <1>1 DEF Coming, Replying
    <3>5. Coming(c) \in Seq(Signals)
      BY <1>2 DEF Coming, Replying, IInv, Types, ServerType, Invocations
    <3>6. Within(Blank, copy[c])
      BY DEF Within, Blank, EmptyMap
    <3>7. Within(Fold(Blank, Coming(c)), Fold(copy[c], Coming(c)))
      BY <1>3, <3>2, <3>5, <3>6, FoldWithin
    <3>8. Eventual(c)' = Fold(Blank, Coming(c))
      BY <1>4, <3>4 DEF Eventual, Coming, Fold
    <3>9. Eventual(c) = Fold(copy[c], Coming(c))
      BY EventualIsFold
    <3>10. \A d, e, f : Within(d, e) /\ Within(e, f) => Within(d, f)
      BY DEF Within
    <3>11. Within(Fold(Blank, Coming(c)), table)
      BY <3>3, <3>7, <3>9, <3>10
    <3> QED
      BY <1>1, <3>8, <3>11 DEF Within
  <2> QED
    BY <2>2, <2>3 DEF Synced
<1>6. ASSUME NEW d \in Clients, d # c
      PROVE  Synced(d)'
  <2>1. copy'[d] = copy[d] /\ requests'[d] = requests[d]
    BY <1>1, <1>2, <1>6
  <2>2. Synced(d)
    BY DEF Synchrony
  <2> QED
    BY <1>1, <2>1, <2>2, LeftAlone
<1> QED
  BY <1>1, <1>5, <1>6, RepliesKept DEF Synchrony

(* A client asks for a change. *)
LEMMA AskSyncs ==
  ASSUME TableAssumption, IInv, Synchrony, NEW c \in Clients, NEW o \in Asked,
         Ask(c, o)
  PROVE  Synchrony'
<1>1. /\ requests' = [requests EXCEPT ![c] = Append(@, o)]
      /\ UNCHANGED <<table, subscribers, poisoned, loop, inbox, left, copy,
                     raced>>
  BY DEF Ask, serverVars
<1>2. requests \in [Clients -> Seq(Asks)] /\ requests[c] \in Seq(Asks)
  BY DEF IInv, Types, QueueType
<1>3. o \in Asks /\ o # SubscribeOp
  BY TableAssumption, ChangeParts DEF TableAssumption, Asks, SubscribeOp
<1>4. ASSUME NEW d \in Clients
      PROVE  Synced(d)'
  <2>1. CASE d # c
    <3>1. requests'[d] = requests[d]
      BY <1>1, <1>2, <2>1
    <3>2. Synced(d)
      BY DEF Synchrony
    <3> QED
      BY <1>1, <3>1, <3>2, LeftAlone
  <2>2. CASE d = c
    <3>1. requests'[d] = Append(requests[d], o)
      BY <1>1, <1>2, <2>2
    <3>2. ToSet(requests'[d]) = ToSet(requests[d]) \cup {o}
      BY <1>2, <1>3, <2>2, <3>1, InAppended
    <3>3. SubscriptionAhead(d)' = SubscriptionAhead(d)
      BY <1>1, <1>3, <3>2 DEF SubscriptionAhead
    <3>4. Coming(d)' = Coming(d)
      BY <1>1 DEF Coming, Replying
    <3>5. Synced(d)
      BY DEF Synchrony
    <3> QED
      BY <1>1, <3>3, <3>4, <3>5, Untouched
  <2> QED
    BY <2>1, <2>2
<1> QED
  BY <1>1, <1>4, RepliesKept DEF Synchrony

(* What is added to a queue that is not empty does not change its head.    *)
LEMMA AppendedKeepsHead ==
  ASSUME NEW S, NEW q \in Seq(S), q # <<>>, NEW e \in S
  PROVE  /\ Append(q, e) \in Seq(S) /\ Append(q, e) # <<>>
         /\ Head(Append(q, e)) = Head(q)
         /\ Tail(Append(q, e)) = Append(Tail(q), e)
<1> DEFINE r == Append(q, e)
<1>1. /\ r \in Seq(S) /\ Len(r) = Len(q) + 1 /\ Len(q) \in Nat \ {0}
      /\ \A i \in 1 .. Len(q) : r[i] = q[i]
      /\ r[Len(q) + 1] = e
  OBVIOUS
<1>2. r # <<>> /\ Head(r) = Head(q)
  BY <1>1
<1> HIDE DEF r
<1>3. Tail(r) \in Seq(S) /\ Append(Tail(q), e) \in Seq(S)
  BY <1>1, <1>2
<1>4. Len(Tail(r)) = Len(q) /\ Len(Append(Tail(q), e)) = Len(q)
  BY <1>1, <1>2
<1>5. ASSUME NEW i \in 1 .. Len(q)
      PROVE  Tail(r)[i] = Append(Tail(q), e)[i]
  <2>1. Tail(r)[i] = r[i + 1]
    BY <1>1, <1>2
  <2>2. CASE i = Len(q)
    BY <1>1, <2>1, <2>2
  <2>3. CASE i # Len(q)
    <3>1. i + 1 \in 1 .. Len(q) /\ i \in 1 .. Len(q) - 1
      BY <1>1, <2>3
    <3> QED
      BY <1>1, <2>1, <3>1
  <2> QED
    BY <2>2, <2>3
<1>6. Tail(r) = Append(Tail(q), e)
  BY <1>3, <1>4, <1>5, SeqEqual
<1> QED
  BY <1>1, <1>2, <1>6 DEF r

(* A message that the delegate handles was the first of those to come.     *)
LEMMA ReceiveSyncs ==
  ASSUME TableAssumption, IInv, Synchrony, NEW c \in Clients, Receive(c)
  PROVE  Synchrony'
<1> DEFINE m == Head(inbox[c])
<1>1. /\ inbox[c] # <<>>
      /\ copy' = IF copy[c] = NoCopy THEN copy
                 ELSE [copy EXCEPT ![c] = Apply(@, m)]
      /\ inbox' = [inbox EXCEPT ![c] = Tail(@)]
      /\ UNCHANGED <<table, subscribers, poisoned, loop, requests, left, raced>>
  BY DEF Receive, serverVars
<1>2. /\ inbox \in [Clients -> Seq(Signals)] /\ inbox[c] \in Seq(Signals)
      /\ copy \in [Clients -> Copies \cup {NoCopy}]
  BY DEF IInv, Types, QueueType, ClientType
<1>3. /\ inbox'[c] = Tail(inbox[c]) /\ m \in Signals /\ m = inbox[c][1]
      /\ 1 \in 1 .. Len(inbox[c])
      /\ \A i \in 1 .. Len(Tail(inbox[c])) :
           i + 1 \in 1 .. Len(inbox[c]) /\ Tail(inbox[c])[i] = inbox[c][i + 1]
  BY <1>1, <1>2
<1> HIDE DEF m
<1>4. Synced(c)
  BY DEF Synchrony
<1>5. copy[c] # NoCopy => copy[c] \in Copies /\ copy'[c] = Apply(copy[c], m)
                            /\ copy'[c] # NoCopy
  <2>1. SUFFICES ASSUME copy[c] # NoCopy
                 PROVE  copy[c] \in Copies /\ copy'[c] = Apply(copy[c], m)
                          /\ copy'[c] # NoCopy
    OBVIOUS
  <2>2. copy[c] \in Copies /\ copy'[c] = Apply(copy[c], m)
    BY <1>1, <1>2, <2>1
  <2>3. Apply(copy[c], m) \in Copies
    BY <1>3, <2>2, ApplyType
  <2> QED
    BY <2>2, <2>3, TableAssumption DEF TableAssumption
<1>6. SubscriptionAhead(c)' = SubscriptionAhead(c)
  BY <1>1 DEF SubscriptionAhead
<1>7. HasCopy(c)'
  BY <1>1, <1>4, <1>5, <1>6 DEF Synced, HasCopy
<1>8. NotTold(c)'
  <2>1. SUFFICES ASSUME c \notin subscribers
                 PROVE  /\ copy'[c] \in {NoCopy, Blank}
                        /\ \A i \in 1 .. Len(inbox'[c]) :
                             inbox'[c][i].kind \in Idles
    BY <1>1 DEF NotTold
  <2>2. /\ copy[c] \in {NoCopy, Blank}
        /\ \A i \in 1 .. Len(inbox[c]) : inbox[c][i].kind \in Idles
    BY <1>4, <2>1 DEF Synced, NotTold
  <2>3. copy'[c] = copy[c]
    <3>1. m.kind \in Idles
      BY <1>3, <2>2
    <3>2. Apply(copy[c], m) = copy[c]
      BY <3>1 DEF Apply, Idles
    <3> QED
      BY <1>1, <1>2, <1>5, <3>2
  <2> QED
    BY <1>3, <2>2, <2>3
<1>9. Follows(c)'
  <2>1. SUFFICES ASSUME Following(c)'
                 PROVE  Eventual(c)' = Eventual(c) /\ Following(c)
    BY <1>1, <1>4, <1>6 DEF Synced, Follows, Within
  <2>2. Following(c) /\ copy[c] # NoCopy
    BY <1>1, <1>4, <2>1 DEF Following, Synced, HasCopy
  <2>3. Coming(c) \in Seq(Signals) /\ Coming(c) # <<>>
          /\ Head(Coming(c)) = m /\ Tail(Coming(c)) = Coming(c)'
    <3>1. CASE Replying(c)
      <4>1. Replying(c)' /\ loop' = loop /\ loop.reply \in Signals
        BY <1>1, <3>1 DEF Replying, IInv, Types, ServerType, Invocations
      <4>2. /\ Append(inbox[c], loop.reply) \in Seq(Signals)
            /\ Append(inbox[c], loop.reply) # <<>>
            /\ Head(Append(inbox[c], loop.reply)) = m
            /\ Tail(Append(inbox[c], loop.reply))
                 = Append(Tail(inbox[c]), loop.reply)
        BY <1>1, <1>2, <4>1, AppendedKeepsHead DEF m
      <4> QED
        BY <1>3, <3>1, <4>1, <4>2 DEF Coming
    <3>2. CASE ~ Replying(c)
      <4>1. ~ Replying(c)'
        BY <1>1, <3>2 DEF Replying
      <4> QED
        BY <1>1, <1>2, <1>3, <3>2, <4>1 DEF Coming, m
    <3> QED
      BY <3>1, <3>2
  <2>4. Fold(copy[c], Coming(c)) = Fold(Apply(copy[c], m), Tail(Coming(c)))
    BY <2>3, FoldFirst
  <2>5. Eventual(c)' = Fold(copy'[c], Coming(c)')
    BY DEF Eventual, Fold, Coming
  <2> QED
    BY <1>5, <2>2, <2>3, <2>4, <2>5, EventualIsFold
<1>10. Synced(c)'
  BY <1>7, <1>8, <1>9 DEF Synced
<1>11. ASSUME NEW d \in Clients, d # c
       PROVE  Synced(d)'
  <2>1. copy'[d] = copy[d] /\ inbox'[d] = inbox[d]
    BY <1>1, <1>2, <1>11
  <2>2. Synced(d)
    BY DEF Synchrony
  <2> QED
    BY <1>1, <2>1, <2>2, LeftAlone
<1> QED
  BY <1>1, <1>10, <1>11, RepliesKept DEF Synchrony

(* Nothing is said of the storage of a client that has left. *)
LEMMA LeaveSyncs ==
  ASSUME IInv, Synchrony, NEW c \in Clients, Leave(c) \/ ForwarderFails(c)
  PROVE  Synchrony'
<1>1. /\ UNCHANGED <<table, subscribers, poisoned, loop, copy, raced>>
      /\ left'[c]
      /\ \A d \in Clients : left[d] => left'[d]
      /\ \A d \in Clients \ {c} : inbox'[d] = inbox[d]
                                    /\ requests'[d] = requests[d]
      /\ requests'[c] \in {requests[c], <<>>}
      /\ inbox'[c] \in {inbox[c], Tail(inbox[c]), <<>>}
      /\ inbox'[c] = Tail(inbox[c]) => inbox[c] # <<>> \/ inbox'[c] = inbox[c]
  <2>1. /\ inbox \in [Clients -> Seq(Signals)]
        /\ requests \in [Clients -> Seq(Asks)]
        /\ left \in [Clients -> BOOLEAN]
    BY DEF IInv, Types, QueueType, ClientType
  <2>2. CASE Leave(c)
    BY <2>1, <2>2 DEF Leave, serverVars, clientVars
  <2>3. CASE ForwarderFails(c)
    BY <2>1, <2>3 DEF ForwarderFails, serverVars, clientVars
  <2> QED
    BY <2>2, <2>3
<1>2. Synced(c)
  BY DEF Synchrony
<1>3. Synced(c)'
  <2>1. ToSet(<<>>) = {}
    BY DEF ToSet
  <2>2. SubscriptionAhead(c)' => SubscriptionAhead(c)
    BY <1>1, <2>1 DEF SubscriptionAhead
  <2>3. HasCopy(c)'
    BY <1>1, <1>2, <2>2 DEF Synced, HasCopy
  <2>4. inbox[c] \in Seq(Signals)
    BY DEF IInv, Types, QueueType
  <2>5. NotTold(c)'
    <3>1. SUFFICES ASSUME c \notin subscribers,
                          \A i \in 1 .. Len(inbox[c]) : inbox[c][i].kind \in Idles
                   PROVE  \A i \in 1 .. Len(inbox'[c]) : inbox'[c][i].kind \in Idles
      BY <1>1, <1>2 DEF Synced, NotTold
    <3>2. CASE inbox'[c] = <<>> \/ inbox'[c] = inbox[c]
      BY <3>1, <3>2
    <3>3. CASE inbox[c] # <<>> /\ inbox'[c] = Tail(inbox[c])
      BY <2>4, <3>1, <3>3
    <3> QED
      BY <1>1, <3>2, <3>3
  <2>6. Follows(c)'
    BY <1>1 DEF Follows, Following
  <2> QED
    BY <2>3, <2>5, <2>6 DEF Synced
<1>4. ASSUME NEW d \in Clients, d # c
      PROVE  Synced(d)'
  <2>1. Synced(d)
    BY DEF Synchrony
  <2> QED
    BY <1>1, <1>4, <2>1, LeftAlone
<1> QED
  BY <1>1, <1>3, <1>4, RepliesKept DEF Synchrony


(* The loop takes the next invocation; one to subscribe is still to be     *)
(* answered from the table, unless the method has failed.                  *)
LEMMA BeginSyncs ==
  ASSUME TableAssumption, IInv, IInv', Synchrony, NEW c \in Clients, Begin(c)
  PROVE  Synchrony'
<1> DEFINE o == Head(requests[c])
<1>1. /\ loop = Idle /\ requests[c] # <<>>
      /\ requests' = [requests EXCEPT ![c] = Tail(@)]
      /\ UNCHANGED <<table, subscribers, poisoned, dead, inbox, left, copy,
                     raced>>
      /\ loop' \in [client : {c}, op : {o}, at : {"resolved", "replying"},
                    reply : {Failure(o)}]
      /\ loop'.at = "replying" => o.op \in dead
  BY DEF Begin, serverVars, clientVars
<1>2. requests \in [Clients -> Seq(Asks)] /\ requests[c] \in Seq(Asks)
  BY DEF IInv, Types, QueueType
<1>8. loop' # Idle
  <2>1. o \in Asks
    BY <1>1, <1>2
  <2>2. Failure(o) \in Signals
    BY FailureIsSignal
  <2>3. loop' \in Invocations
    BY <1>1, <2>1, <2>2 DEF Invocations, Asks
  <2> QED
    BY <2>3 DEF TableAssumption
<1>3. /\ requests'[c] = Tail(requests[c])
      /\ ToSet(requests[c]) = {o} \cup ToSet(requests'[c])
  BY <1>1, <1>2, InTail
<1>4. dead # {} => poisoned
  BY DEF IInv, Causes, FailuresArePoisoned
<1> HIDE DEF o
<1>5. Failure(o).kind \in Idles
  BY DEF Failure, Idles
<1>6. RepliesKnown'
  BY <1>1, <1>5 DEF RepliesKnown, Idles
<1>7. ASSUME NEW d \in Clients
      PROVE  Synced(d)'
  <2>1. Synced(d)
    BY DEF Synchrony
  <2>2. Coming(d)' = Coming(d)
    <3>1. ~ Replying(d) /\ ~ Replying(d)'
      BY <1>1, <1>5 DEF Replying, Idles
    <3> QED
      BY <1>1, <3>1 DEF Coming
  <2>3. SubscriptionAhead(d) <=> SubscribeOp \in ToSet(requests[d])
    BY <1>1 DEF SubscriptionAhead
  <2>4. SubscriptionAhead(d)' => SubscriptionAhead(d)
    <3>1. CASE d = c
      BY <1>1, <1>3, <2>3, <3>1 DEF SubscriptionAhead
    <3>2. CASE d # c
      BY <1>1, <1>2, <2>3, <3>2 DEF SubscriptionAhead
    <3> QED
      BY <3>1, <3>2
  <2>5. Following(d)' /\ SubscriptionAhead(d) => SubscriptionAhead(d)'
    <3>1. CASE d # c
      <4>1. requests'[d] = requests[d]
        BY <1>1, <1>2, <3>1
      <4> QED
        BY <2>3, <4>1 DEF SubscriptionAhead
    <3>2. CASE d = c
      <4>1. SUFFICES ASSUME Following(d)', SubscriptionAhead(d)
                     PROVE  SubscriptionAhead(d)'
        OBVIOUS
      <4>2. loop'.at = "resolved"
        BY <1>1, <1>4, <4>1 DEF Following
      <4>3. loop' # Idle
        BY <1>8
      <4>4. loop'.client = d /\ loop'.op = o
        BY <1>1, <3>2
      <4> QED
        BY <1>3, <2>3, <3>2, <4>1, <4>2, <4>3, <4>4 DEF SubscriptionAhead
    <3> QED
      BY <3>1, <3>2
  <2> QED
    BY <1>1, <2>1, <2>2, <2>4, <2>5, Untouched
<1> QED
  BY <1>6, <1>7 DEF Synchrony

(* An invocation that changes nothing: one that finds the mutex poisoned,  *)
(* is refused, or is to read the table next.                               *)
LEMMA LoopSyncs ==
  ASSUME TableAssumption, IInv, Synchrony, FindPoisoned \/ Refuse \/ SubscribeLock
  PROVE  Synchrony'
<1>1. /\ loop # Idle /\ loop.at = "resolved" /\ loop \in Invocations
      /\ UNCHANGED <<table, subscribers, poisoned, inbox, requests, left, copy,
                     raced>>
      /\ loop.op = SubscribeOp /\ loop'.at = "replying" => poisoned
      /\ \/ loop' = [loop EXCEPT !.at = "replying"]
         \/ /\ loop' = [loop EXCEPT !.at = "subscribing"]
            /\ loop.op = SubscribeOp
  <2>1. loop # Idle /\ loop.at = "resolved" /\ loop \in Invocations
    BY DEF FindPoisoned, Refuse, SubscribeLock, IInv, Types, ServerType
  <2>2. CASE FindPoisoned
    BY <2>1, <2>2 DEF FindPoisoned, clientVars
  <2>3. CASE Refuse
    <3>1. loop.op # SubscribeOp
      BY <2>3 DEF Refuse, SubscribeOp
    <3> QED
      BY <2>1, <2>3, <3>1 DEF Refuse, serverVars, clientVars
  <2>4. CASE SubscribeLock
    <3>1. loop'.at = "subscribing"
      BY <2>1, <2>4 DEF SubscribeLock, Invocations
    <3> QED
      BY <2>1, <2>4, <3>1 DEF SubscribeLock, serverVars, clientVars
  <2> QED
    BY <2>2, <2>3, <2>4
<1>2. /\ loop'.client = loop.client /\ loop'.op = loop.op
      /\ loop'.reply = loop.reply /\ loop'.at \in {"replying", "subscribing"}
      /\ loop'.at = "subscribing" => loop.op = SubscribeOp
  BY <1>1 DEF Invocations
<1>3. loop.reply.kind \in Idles
  BY <1>1 DEF Synchrony, RepliesKnown
<1>4. RepliesKnown'
  BY <1>2, <1>3 DEF RepliesKnown, Idles
<1>5. ASSUME NEW d \in Clients
      PROVE  Synced(d)'
  <2>1. Synced(d)
    BY DEF Synchrony
  <2>2. Coming(d)' = Coming(d)
    <3>1. ~ Replying(d) /\ ~ Replying(d)'
      BY <1>1, <1>2, <1>3 DEF Replying, Idles
    <3> QED
      BY <1>1, <3>1 DEF Coming
  <2>3. SubscriptionAhead(d)' => SubscriptionAhead(d)
    BY <1>1, <1>2 DEF SubscriptionAhead
  <2>4. Following(d)' /\ SubscriptionAhead(d) => SubscriptionAhead(d)'
    <3>1. SUFFICES ASSUME Following(d)', SubscriptionAhead(d),
                          SubscribeOp \notin ToSet(requests[d])
                   PROVE  SubscriptionAhead(d)'
      BY <1>1 DEF SubscriptionAhead
    <3>2. loop.client = d /\ loop.op = SubscribeOp
      BY <3>1 DEF SubscriptionAhead
    <3>3. loop'.at = "subscribing"
      BY <1>1, <1>2, <3>1, <3>2 DEF Following
    <3>4. loop' # Idle
      BY <1>1, TableAssumption DEF TableAssumption, Invocations
    <3> QED
      BY <1>2, <3>2, <3>3, <3>4 DEF SubscriptionAhead
  <2> QED
    BY <1>1, <2>1, <2>2, <2>3, <2>4, Untouched
<1> QED
  BY <1>4, <1>5 DEF Synchrony


(* The rows of the table complete a storage that has no others. *)
LEMMA RowsComplete ==
  ASSUME NEW d \in Copies, NEW t, t.rows \in Maps, Within(d, t),
         NEW m, m = [kind |-> "init", rows |-> t.rows]
  PROVE  Within(Apply(d, m), t) /\ Apply(d, m).rows = t.rows
<1>1. Apply(d, m) = [d EXCEPT !.rows = Overlay(@, t.rows)]
  BY DEF Apply
<1>2. /\ Apply(d, m).rows = Overlay(d.rows, t.rows)
      /\ Apply(d, m).selection = d.selection
  BY <1>1 DEF Copies
<1>3. Overlay(d.rows, t.rows) = t.rows
  <2>1. DOMAIN d.rows \cup DOMAIN t.rows = DOMAIN t.rows
    BY DEF Within
  <2>2. Overlay(d.rows, t.rows) = [k \in DOMAIN t.rows |-> t.rows[k]]
    BY <2>1 DEF Overlay
  <2>3. t.rows \in [DOMAIN t.rows -> Rows]
    BY MapDomain
  <2> QED
    BY <2>2, <2>3
<1> QED
  BY <1>2, <1>3 DEF Within

(* The loop copies the table for a subscription: its reply will complete   *)
(* the client's storage.                                                   *)
LEMMA SubscribeReadSyncs ==
  ASSUME TableAssumption, IInv, Synchrony, SubscribeRead
  PROVE  Synchrony'
<1>0. loop # Idle /\ loop.at = "subscribing" /\ loop \in Invocations
  BY DEF SubscribeRead, TableLocked, IInv, Types, ServerType
<1> PICK c \in Clients : c = loop.client
  BY <1>0 DEF Invocations
<1>m. PICK m : m = [kind |-> "init", rows |-> table.rows]
  OBVIOUS
<1>1. /\ loop # Idle /\ loop.at = "subscribing" /\ loop \in Invocations
      /\ subscribers' = subscribers \cup {c}
      /\ loop' = [loop EXCEPT !.at = "replying", !.reply = m]
      /\ UNCHANGED <<table, poisoned, inbox, requests, left, copy, raced>>
  BY <1>0, <1>m DEF SubscribeRead, TableLocked, clientVars
<1>2. c \in Clients /\ m \in Signals /\ loop.op = SubscribeOp
  BY <1>1, <1>m
     DEF Invocations, IInv, Types, TableType, Signals, Synchrony, RepliesKnown
<1>3. /\ loop'.client = c /\ loop'.op = SubscribeOp /\ loop'.at = "replying"
      /\ loop'.reply = m /\ loop' \in Invocations
  BY <1>1, <1>2 DEF Invocations
<1>4. loop' # Idle
  BY <1>3 DEF TableAssumption
<1>5. m.kind = "init"
  BY <1>m
<1>6. RepliesKnown'
  BY <1>1, <1>3, <1>5 DEF RepliesKnown
<1>7. ASSUME NEW d \in Clients, d # c
      PROVE  Synced(d)'
  <2>1. Synced(d)
    BY DEF Synchrony
  <2>2. ~ Replying(d) /\ ~ Replying(d)'
    BY <1>1, <1>3, <1>7 DEF Replying
  <2>3. Coming(d)' = Coming(d)
    BY <1>1, <2>2 DEF Coming
  <2>4. SubscriptionAhead(d)' = SubscriptionAhead(d)
    BY <1>1, <1>3, <1>7 DEF SubscriptionAhead
  <2> QED
    BY <1>1, <1>7, <2>1, <2>3, <2>4, Untouched
<1>8. Synced(c)'
  <2>1. Synced(c) /\ SubscriptionAhead(c)
    BY <1>1, <1>2 DEF Synchrony, SubscriptionAhead
  <2>2. copy[c] \in Copies /\ inbox[c] \in Seq(Signals)
    BY <1>2, <2>1
       DEF IInv, Types, ClientType, QueueType, Synced, HasCopy
  <2>3. HasCopy(c)' /\ NotTold(c)'
    BY <1>1, <2>1 DEF Synced, HasCopy, NotTold
  <2>4. ~ Replying(c) /\ Replying(c)'
    BY <1>1, <1>3, <1>4, <1>5 DEF Replying
  <2>5. Eventual(c) = Fold(copy[c], inbox[c])
    BY <2>4, EventualIsFold DEF Coming
  <2>6. Eventual(c)' = Fold(copy[c], Append(inbox[c], m))
    BY <1>1, <1>3, <2>4 DEF Eventual, Fold
  <2>7. Eventual(c)' = Apply(Eventual(c), m)
    BY <1>2, <2>2, <2>5, <2>6, FoldLast
  <2>8. Eventual(c) \in Copies
    BY <2>2, <2>5, FoldType
  <2>9. Follows(c)'
    <3>1. SUFFICES ASSUME Following(c)'
                   PROVE  Within(Eventual(c), table)
      <4>1. table.rows \in Maps
        BY DEF IInv, Types, TableType
      <4>2. Within(Eventual(c), table) =>
              /\ Within(Apply(Eventual(c), m), table)
              /\ Apply(Eventual(c), m).rows = table.rows
        BY <1>m, <2>8, <4>1, RowsComplete
      <4> QED
        BY <1>1, <2>7, <4>2 DEF Follows, Within
    <3>2. CASE c \in subscribers
      BY <1>1, <2>1, <3>1, <3>2 DEF Following, Synced, Follows
    <3>3. CASE c \notin subscribers
      <4>1. copy[c] = Blank
              /\ \A i \in 1 .. Len(inbox[c]) : inbox[c][i].kind \in Idles
        BY <2>1, <3>3 DEF Synced, NotTold, HasCopy
      <4>2. Eventual(c) = Blank
        BY <2>2, <2>5, <4>1, FoldIdle
      <4> QED
        BY <4>2 DEF Within, Blank, EmptyMap
    <3> QED
      BY <3>2, <3>3
  <2> QED
    BY <2>3, <2>9 DEF Synced
<1> QED
  BY <1>2, <1>6, <1>7, <1>8 DEF Synchrony

(* The reply joins the messages on their way to the client. *)
LEMMA ReplySyncs ==
  ASSUME TableAssumption, IInv, Synchrony, Reply
  PROVE  Synchrony'
<1>0. loop # Idle /\ loop.at = "replying" /\ loop \in Invocations
  BY DEF Reply, IInv, Types, ServerType
<1> PICK c \in Clients : c = loop.client
  BY <1>0 DEF Invocations
<1> PICK m \in Signals : m = loop.reply
  BY <1>0 DEF Invocations
<1>1. /\ loop # Idle /\ loop.at = "replying" /\ loop \in Invocations
      /\ loop' = Idle
      /\ inbox' = IF closed[c] THEN inbox
                  ELSE [inbox EXCEPT ![c] = Append(@, m)]
      /\ UNCHANGED <<table, subscribers, poisoned, requests, left, copy, raced>>
  BY <1>0 DEF Reply, serverVars, clientVars
<1>2. c \in Clients /\ m \in Signals /\ m.kind \in Idles \cup {"init"}
        /\ inbox \in [Clients -> Seq(Signals)]
  BY <1>1
     DEF Invocations, IInv, Types, QueueType, Synchrony, RepliesKnown
<1>3. RepliesKnown'
  BY <1>1 DEF RepliesKnown
<1>4. \A d \in Clients : /\ ~ Replying(d)'
                         /\ SubscriptionAhead(d)' = SubscriptionAhead(d)
  BY <1>1 DEF Replying, SubscriptionAhead
<1>5. ASSUME NEW d \in Clients, d # c
      PROVE  Synced(d)'
  <2>1. Synced(d)
    BY DEF Synchrony
  <2>2. inbox'[d] = inbox[d] /\ ~ Replying(d)
    BY <1>1, <1>2, <1>5 DEF Replying
  <2>3. Coming(d)' = Coming(d)
    BY <1>4, <2>2 DEF Coming
  <2> QED
    BY <1>1, <1>4, <2>1, <2>2, <2>3, Untouched
<1>6. Synced(c)'
  <2>1. Synced(c)
    BY <1>2 DEF Synchrony
  <2>2. HasCopy(c)'
    BY <1>1, <1>2, <1>4, <2>1 DEF Synced, HasCopy
  <2>3. NotTold(c)'
    <3>1. SUFFICES ASSUME c \notin subscribers
                   PROVE  \A i \in 1 .. Len(inbox'[c]) : inbox'[c][i].kind \in Idles
      BY <1>1, <2>1 DEF Synced, NotTold
    <3>2. /\ m.kind \in Idles
          /\ \A i \in 1 .. Len(inbox[c]) : inbox[c][i].kind \in Idles
      BY <1>1, <1>2, <2>1, <3>1
         DEF Synced, NotTold, Synchrony, RepliesKnown
    <3>3. CASE closed[c]
      BY <1>1, <3>2, <3>3
    <3>4. CASE ~ closed[c]
      <4>1. inbox'[c] = Append(inbox[c], m) /\ inbox[c] \in Seq(Signals)
        BY <1>1, <1>2, <3>4
      <4>2. \A i \in 1 .. Len(Append(inbox[c], m)) :
              \/ i \in 1 .. Len(inbox[c]) /\ Append(inbox[c], m)[i] = inbox[c][i]
              \/ Append(inbox[c], m)[i] = m
        BY <1>2, <4>1
      <4> QED
        BY <3>2, <4>1, <4>2
    <3> QED
      BY <3>3, <3>4
  <2>4. Follows(c)'
    <3>1. SUFFICES ASSUME Following(c)'
                   PROVE  Eventual(c)' = Eventual(c) /\ Following(c)
      BY <1>1, <1>2, <1>4, <2>1 DEF Synced, Follows, Within
    <3>2. Following(c) /\ ~ closed[c]
      BY <1>1, <1>2, <3>1 DEF Following, IInv, Causes, ClosedHaveLeft
    <3>3. inbox'[c] = Append(inbox[c], m)
      BY <1>1, <1>2, <3>2
    <3>4. Eventual(c)' = Fold(copy[c], Append(inbox[c], m))
      BY <1>1, <1>2, <1>4, <3>3 DEF Eventual, Fold
    <3>5. CASE m.kind = "init"
      <4>1. Replying(c)
        BY <1>1, <3>5 DEF Replying
      <4> QED
        BY <3>2, <3>4, <4>1, EventualIsFold DEF Coming
    <3>6. CASE m.kind # "init"
      <4>1. Eventual(c) = Fold(copy[c], inbox[c])
        BY <3>6, EventualIsFold DEF Coming, Replying
      <4>2. m.kind \in Idles /\ inbox[c] \in Seq(Signals)
        BY <1>2, <3>6
      <4>3. Eventual(c)' = Apply(Fold(copy[c], inbox[c]), m)
        BY <1>2, <3>4, <4>2, FoldLast
      <4> QED
        BY <3>2, <4>1, <4>2, <4>3 DEF Apply, Idles
    <3> QED
      BY <3>5, <3>6
  <2> QED
    BY <2>2, <2>3, <2>4 DEF Synced
<1> QED
  BY <1>1, <1>3, <1>5, <1>6 DEF Synchrony


(* A new row, or a selection, reaches a storage before the reply to a      *)
(* subscription as well as after it.                                       *)
LEMMA ReplyCommutes ==
  ASSUME NEW d \in Copies, NEW s \in Signals, NEW r \in Signals,
         r.kind = "init",
         \/ s.kind = "updated" /\ DOMAIN s.rows \cap DOMAIN r.rows = {}
         \/ s.kind = "selected"
  PROVE  Apply(Apply(d, s), r) = Apply(Apply(d, r), s)
<1>1. /\ Apply(d, s) \in Copies /\ Apply(d, r) \in Copies
      /\ Apply(Apply(d, s), r)
           = [Apply(d, s) EXCEPT !.rows = Overlay(@, r.rows)]
      /\ Apply(d, r) = [d EXCEPT !.rows = Overlay(@, r.rows)]
  BY ApplyType DEF Apply
<1>2. CASE s.kind = "updated" /\ DOMAIN s.rows \cap DOMAIN r.rows = {}
  <2>1. /\ Apply(d, s) = [d EXCEPT !.rows = Overlay(@, s.rows)]
        /\ Apply(Apply(d, r), s)
             = [Apply(d, r) EXCEPT !.rows = Overlay(@, s.rows)]
    BY <1>2 DEF Apply
  <2>2. Overlay(Overlay(d.rows, s.rows), r.rows)
          = Overlay(Overlay(d.rows, r.rows), s.rows)
    <3> DEFINE K == DOMAIN d.rows \cup DOMAIN s.rows \cup DOMAIN r.rows
    <3>1. /\ Overlay(Overlay(d.rows, s.rows), r.rows)
               = [k \in K |-> IF k \in DOMAIN r.rows THEN r.rows[k]
                              ELSE IF k \in DOMAIN s.rows THEN s.rows[k]
                              ELSE d.rows[k]]
          /\ Overlay(Overlay(d.rows, r.rows), s.rows)
               = [k \in K |-> IF k \in DOMAIN s.rows THEN s.rows[k]
                              ELSE IF k \in DOMAIN r.rows THEN r.rows[k]
                              ELSE d.rows[k]]
      BY DEF Overlay
    <3> QED
      BY <1>2, <3>1
  <2> DEFINE A == Overlay(d.rows, s.rows)
             B == Overlay(d.rows, r.rows)
             E == Overlay(A, r.rows)
             F == Overlay(B, s.rows)
  <2>3. /\ Apply(d, s) = [d EXCEPT !.rows = A]
        /\ Apply(d, r) = [d EXCEPT !.rows = B]
        /\ Apply(d, s).rows = A /\ Apply(d, r).rows = B
    BY <1>1, <2>1 DEF Copies
  <2>4. /\ Apply(Apply(d, s), r) = [Apply(d, s) EXCEPT !.rows = E]
        /\ Apply(Apply(d, r), s) = [Apply(d, r) EXCEPT !.rows = F]
    BY <1>1, <2>1, <2>3
  <2>5. E = F
    BY <2>2
  <2> HIDE DEF A, B, E, F
  <2>6. Apply(Apply(d, s), r) = [rows |-> E, selection |-> d.selection]
    BY <2>3, <2>4 DEF Copies
  <2>7. Apply(Apply(d, r), s) = [rows |-> F, selection |-> d.selection]
    BY <2>3, <2>4 DEF Copies
  <2> QED
    BY <2>5, <2>6, <2>7
<1>3. CASE s.kind = "selected"
  <2> DEFINE x == IF s.selection = "empty" THEN "none" ELSE s.selection
             B == Overlay(d.rows, r.rows)
  <2>1. /\ Apply(d, s) = [d EXCEPT !.selection = x]
        /\ Apply(Apply(d, r), s) = [Apply(d, r) EXCEPT !.selection = x]
    BY <1>3 DEF Apply
  <2> HIDE DEF x
  <2>2. /\ Apply(d, s).rows = d.rows
        /\ Apply(d, r) = [d EXCEPT !.rows = B]
    BY <1>1, <2>1 DEF Copies
  <2>3. Apply(Apply(d, s), r) = [Apply(d, s) EXCEPT !.rows = B]
    BY <1>1, <2>2
  <2> HIDE DEF B
  <2> QED
    BY <2>1, <2>2, <2>3 DEF Copies
<1> QED
  BY <1>2, <1>3

(* What subscribers are told of a new row or a selection. *)
LEMMA AddingSignal ==
  ASSUME NEW t, NEW o \in Changes, o.op \in {"insert", "select"}
  PROVE  \/ Signal(t, o).kind = "updated" /\ DOMAIN Signal(t, o).rows = {t.next}
         \/ Signal(t, o).kind = "selected"
<1>1. CASE o.op = "insert"
  <2>1. Signal(t, o) = [kind |-> "updated", rows |-> [k \in {t.next} |-> o.row]]
    BY <1>1 DEF Signal
  <2> QED
    BY <2>1
<1>2. CASE o.op = "select"
  <2>1. Signal(t, o) = [kind |-> "selected", selection |-> o.selection]
    BY <1>2 DEF Signal
  <2> QED
    BY <2>1
<1> QED
  BY <1>1, <1>2

(* The table is changed, by whomever, and its subscribers are told: the    *)
(* storage of each follows, unless the application changes rows before a   *)
(* reply that was read earlier.                                            *)
LEMMA ChangeSyncs ==
  ASSUME TableAssumption, IInv, Synchrony, NEW o \in Changes, Fits(o),
         MakeChange(o), UNCHANGED <<subscribers, copy, left>>, NEW c \in Clients,
         raced[c] => raced'[c],
         SubscriptionAhead(c)' = SubscriptionAhead(c),
         Replying(c)' = Replying(c), ~ poisoned,
         Replying(c) =>
           /\ loop' = loop
           /\ raced'[c] \/ o.op \in {"insert", "select"}
  PROVE  Synced(c)'
<1>1. PICK told \in Told :
        inbox' = [e \in Clients |->
          IF e \in told THEN Append(inbox[e], Signal(table, o)) ELSE inbox[e]]
  BY DEF MakeChange
<1>2. told \subseteq subscribers
  BY DEF Told, Open
<1> PICK s \in Signals : s = Signal(table, o)
  BY ChangeType DEF IInv, Types
<1>3. inbox'[c] = IF c \in told THEN Append(inbox[c], s) ELSE inbox[c]
  BY <1>1
<1>4. Synced(c)
  BY DEF Synchrony
<1>5. HasCopy(c)'
  BY <1>4 DEF Synced, HasCopy
<1>6. NotTold(c)'
  BY <1>2, <1>3, <1>4 DEF Synced, NotTold
<1>7. Follows(c)'
  <2>1. SUFFICES ASSUME Following(c)'
                 PROVE  /\ Within(Eventual(c)', table')
                        /\ ~ SubscriptionAhead(c) =>
                             Eventual(c)'.rows = table'.rows
    BY DEF Follows
  <2>2. Following(c) /\ c \in told
    BY <1>1, <2>1 DEF Following, MakeChange, Told
  <2>3. /\ Within(Eventual(c), table)
        /\ ~ SubscriptionAhead(c) => Eventual(c).rows = table.rows
    BY <1>4, <2>2 DEF Synced, Follows
  <2>4. copy[c] \in Copies /\ inbox[c] \in Seq(Signals)
    BY <1>4, <2>2
       DEF IInv, Types, ClientType, QueueType, Synced, HasCopy, Following
  <2>5. table' = Changed(table, o)
    BY DEF MakeChange
  <2>6. table \in [rows : Maps, selection : {"none", "rows", "empty"},
                   next : Nat]
    BY DEF IInv, Types, TableType
  <2>7. inbox'[c] = Append(inbox[c], s)
    BY <1>3, <2>2
  <2>8. Fold(copy[c], inbox[c]) \in Copies
    BY <2>4, FoldType
  <2>9. Fold(copy[c], Append(inbox[c], s)) = Apply(Fold(copy[c], inbox[c]), s)
    BY <2>4, FoldLast
  <2>10. Eventual(c) \in Copies /\ Eventual(c)' = Apply(Eventual(c), s)
    <3>1. CASE ~ Replying(c)
      <4>1. Eventual(c) = Fold(copy[c], inbox[c])
        BY <3>1, EventualIsFold DEF Coming
      <4>2. Eventual(c)' = Fold(copy[c], Append(inbox[c], s))
        BY <2>7, <3>1 DEF Eventual, Fold
      <4> QED
        BY <2>8, <2>9, <4>1, <4>2
    <3>2. CASE Replying(c)
      <4> PICK r \in Signals : r = loop.reply
        BY <3>2 DEF Replying, IInv, Types, ServerType, Invocations
      <4> DEFINE F == Fold(copy[c], inbox[c])
      <4>1. Eventual(c) = Fold(copy[c], Append(inbox[c], r))
        BY <3>2, EventualIsFold DEF Coming
      <4>2. Eventual(c)' = Fold(copy[c], Append(Append(inbox[c], s), r))
        BY <2>7, <3>2 DEF Eventual, Fold
      <4>0. Append(inbox[c], s) \in Seq(Signals)
        BY <2>4
      <4>3. PICK q \in Seq(Signals) : q = Append(inbox[c], s)
        BY <4>0, Zenon
      <4>4. Eventual(c) = Apply(F, r) /\ Eventual(c)' = Apply(Apply(F, s), r)
        <5>1. Fold(copy[c], Append(inbox[c], r)) = Apply(F, r)
          BY <2>4, FoldLast
        <5>2. Fold(copy[c], Append(q, r)) = Apply(Fold(copy[c], q), r)
          BY FoldLast
        <5> QED
          BY <2>9, <4>1, <4>2, <4>3, <5>1, <5>2
      <4>5. r.kind = "init" /\ o.op \in {"insert", "select"}
        BY <2>1, <3>2 DEF Replying, Following
      <4>6. DOMAIN r.rows \subseteq DOMAIN table.rows
        <5>1. Apply(F, r) = [F EXCEPT !.rows = Overlay(@, r.rows)]
          BY <4>5 DEF Apply
        <5>2. Apply(F, r).rows = Overlay(F.rows, r.rows)
          BY <2>8, <5>1 DEF Copies
        <5>3. DOMAIN r.rows \subseteq DOMAIN Overlay(F.rows, r.rows)
          BY DEF Overlay
        <5> QED
          BY <2>3, <4>4, <5>2, <5>3 DEF Within
      <4>7. table.next \notin DOMAIN table.rows
        <5>1. \A k \in DOMAIN table.rows : k < table.next
          BY DEF IInv, Types, TableType
        <5>2. ~ (table.next < table.next)
          BY <2>6
        <5> QED
          BY <5>1, <5>2
      <4>8. \/ s.kind = "updated" /\ DOMAIN s.rows \cap DOMAIN r.rows = {}
            \/ s.kind = "selected"
        BY <4>5, <4>6, <4>7, AddingSignal
      <4> HIDE DEF F
      <4>9. F \in Copies
        BY <2>8 DEF F
      <4>10. Apply(Apply(F, s), r) = Apply(Apply(F, r), s)
        BY <4>5, <4>8, <4>9, ReplyCommutes
      <4>11. Apply(F, r) \in Copies
        BY <4>9, ApplyType
      <4> QED
        BY <4>4, <4>10, <4>11
    <3> QED
      BY <3>1, <3>2
  <2> QED
    BY <2>3, <2>5, <2>6, <2>10, SignalFollows
<1> QED
  BY <1>5, <1>6, <1>7 DEF Synced

(* A method of the table changes it ... *)
LEMMA MethodSyncs ==
  ASSUME TableAssumption, IInv, Synchrony, ChangeByMethod
  PROVE  Synchrony'
<1>1. /\ loop # Idle /\ loop.at = "resolved" /\ loop.op # SubscribeOp
      /\ loop \in Invocations /\ ~ poisoned /\ Fits(loop.op)
      /\ MakeChange(loop.op)
      /\ loop' = [loop EXCEPT !.at = "replying"]
      /\ UNCHANGED <<subscribers, requests, left, copy, raced>>
  BY DEF ChangeByMethod, clientVars, IInv, Types, ServerType
<1>2. /\ loop'.client = loop.client /\ loop'.op = loop.op
      /\ loop'.reply = loop.reply /\ loop'.at = "replying"
  BY <1>1 DEF Invocations
<1>3. loop.reply.kind \in Idles
  BY <1>1 DEF Synchrony, RepliesKnown
<1>4. RepliesKnown'
  BY <1>2, <1>3 DEF RepliesKnown, Idles
<1>5. PICK o \in Changes : o = loop.op /\ Fits(o) /\ MakeChange(o)
  BY <1>1 DEF Invocations
<1>6. ASSUME NEW c \in Clients
      PROVE  Synced(c)'
  <2>1. ~ Replying(c) /\ ~ Replying(c)'
    BY <1>1, <1>2, <1>3 DEF Replying, Idles
  <2>2. SubscriptionAhead(c)' = SubscriptionAhead(c)
    BY <1>1, <1>2 DEF SubscriptionAhead
  <2>3. raced[c] => raced'[c]
    BY <1>1
  <2>4. Replying(c)' = Replying(c)
    BY <1>1, <1>2, <1>3 DEF Replying, Idles
  <2> QED
    BY <1>1, <1>5, <2>1, <2>2, <2>3, <2>4, ChangeSyncs
<1> QED
  BY <1>4, <1>6 DEF Synchrony

(* ... and so does the application. *)
LEMMA ApplicationSyncs ==
  ASSUME TableAssumption, IInv, Synchrony, ChangeByApp
  PROVE  Synchrony'
<1>1. /\ app \in Changes /\ ~ poisoned /\ Fits(app) /\ MakeChange(app)
      /\ raced' = [c \in Clients |->
           \/ raced[c]
           \/ Replying(c) /\ app.op \in {"update", "remove", "clear"}]
      /\ UNCHANGED <<subscribers, loop, requests, left, copy>>
  BY DEF ChangeByApp, clientVars, IInv, Types, ServerType
<1>2. PICK o \in Changes : o = app
  BY <1>1
<1>3. o.op \in {"update", "remove", "clear", "insert", "select"}
  BY ChangeParts DEF Methods
<1>4. ASSUME NEW c \in Clients
      PROVE  Synced(c)'
  <2>1. raced'[c] <=>
          \/ raced[c]
          \/ Replying(c) /\ app.op \in {"update", "remove", "clear"}
    BY <1>1, Zenon
  <2>2. /\ Replying(c)' = Replying(c)
        /\ SubscriptionAhead(c)' = SubscriptionAhead(c)
    BY <1>1 DEF Replying, SubscriptionAhead
  <2>3. raced[c] => raced'[c]
    BY <2>1, Zenon
  <2>4. Replying(c) => /\ loop' = loop
                       /\ raced'[c] \/ o.op \in {"insert", "select"}
    BY <1>1, <1>2, <1>3, <2>1
  <2> QED
    BY <1>1, <1>2, <2>2, <2>3, <2>4, ChangeSyncs
<1> QED
  BY <1>1, <1>4, RepliesKept DEF Synchrony

LEMMA InitSyncs ==
  ASSUME TableAssumption
  PROVE  Init => Synchrony
<1> SUFFICES ASSUME Init, NEW c \in Clients
             PROVE  Synced(c)
  BY DEF Init, Synchrony, RepliesKnown
<1>1. /\ subscribers = {} /\ loop = Idle /\ requests[c] = <<>>
      /\ inbox[c] = <<>> /\ copy[c] = NoCopy
  BY DEF Init
<1>2. ~ SubscriptionAhead(c)
  BY <1>1 DEF SubscriptionAhead, ToSet
<1> QED
  BY <1>1, <1>2 DEF Synced, HasCopy, NotTold, Follows, Following

(* Every step. *)
LEMMA StepSyncs ==
  ASSUME TableAssumption, IInv, IInv', Synchrony, [Next]_vars
  PROVE  Synchrony'
<1>1. ASSUME NEW c \in Clients,
             \/ Subscribe(c) \/ Leave(c) \/ \E o \in Asked : Ask(c, o)
             \/ Receive(c) \/ ForwarderFails(c) \/ Begin(c)
      PROVE  Synchrony'
  BY <1>1, SubscribeSyncs, LeaveSyncs, AskSyncs, ReceiveSyncs, BeginSyncs
<1>2. CASE Loop
  BY <1>2, LoopSyncs, MethodSyncs, SubscribeReadSyncs, ReplySyncs DEF Loop
<1>3. CASE ChangeByApp
  BY <1>3, ApplicationSyncs
<1>4. CASE (\E o \in Made : AppBegin(o)) \/ AppFails \/ UNCHANGED vars
  <2>1. UNCHANGED <<subscribers, table, poisoned, loop, copy, inbox, requests,
                    left, raced>>
    BY <1>4 DEF AppBegin, AppFails, vars, serverVars, clientVars
  <2>2. \A c \in Clients : Synced(c)'
    BY <2>1, LeftAlone DEF Synchrony
  <2> QED
    BY <2>1, <2>2, RepliesKept DEF Synchrony
<1> QED
  BY <1>1, <1>2, <1>3, <1>4 DEF Next

-----------------------------------------------------------------------------
(* The theorems. *)

LEMMA StepHolds ==
  ASSUME TableAssumption
  PROVE  IInv /\ [Next]_vars => IInv'
<1> SUFFICES ASSUME IInv, [Next]_vars
             PROVE  IInv'
  OBVIOUS
<1>1. CASE Next
  <2>1. Types'
    BY <1>1, TableAssumption, ClientSteps, LoopSteps, AppSteps DEF IInv, Next
  <2>2. Causes'
    BY <1>1, TableAssumption, ClosedStep, PoisonStep, FailureStep
       DEF IInv, Types, Causes
  <2> QED
    BY <2>1, <2>2 DEF IInv
<1>2. CASE UNCHANGED vars
  BY <1>2 DEF IInv, Types, TableType, ServerType, QueueType, ClientType, Causes,
              ClosedHaveLeft, PoisonedByClosed, FailuresArePoisoned, vars,
              serverVars, clientVars, Maps, Keys
<1> QED
  BY <1>1, <1>2

(* IInv holds in every state the system can reach. *)
THEOREM Invariance == Spec => []IInv
  BY TableAssumption, InitHolds, StepHolds, PTL DEF Spec

(* The variables have the types of the table, its copies and the queues,   *)
(* and insert_data() never takes a key that is in use, for any number of   *)
(* clients, rows and changes.                                              *)
THEOREM TypeCorrect == Spec => []TypeOK
<1>1. IInv => TypeOK
  <2> SUFFICES ASSUME IInv
               PROVE  TypeOK
    OBVIOUS
  <2>1. /\ table.rows \in Maps /\ table.selection \in {"none", "rows", "empty"}
        /\ table.next \in 0 .. MaxKeys
        /\ \A k \in DOMAIN table.rows : k < table.next
    BY DEF IInv, Types, TableType
  <2>2. /\ subscribers \subseteq Clients /\ dead \subseteq Methods
        /\ poisoned \in BOOLEAN /\ app \in Changes \cup {Idle, Gone}
    BY DEF IInv, Types, ServerType
  <2>3. loop \in Invocations \cup {Idle}
    BY DEF IInv, Types, ServerType
  <2>4. \A c \in Clients : /\ requests[c] \in Seq(Changes \cup {SubscribeOp})
                           /\ inbox[c] \in Seq(Signals)
    BY DEF IInv, Types, QueueType, Asks
  <2>5. \A c \in Clients : /\ {closed[c], left[c], raced[c]} \subseteq BOOLEAN
                           /\ waiting[c] \in Int
                           /\ copy[c] # NoCopy => copy[c].rows \in Maps
    BY DEF IInv, Types, ClientType, Copies
  <2> QED
    BY <2>1, <2>2, <2>3, <2>4, <2>5 DEF TypeOK
<1> QED
  BY <1>1, Invariance, PTL

(* However subscriptions, changes and replies come, a method of a table or *)
(* the application's thread fails only after a subscriber has left.        *)
THEOREM FailuresNeedALeaver == Spec => []FailureNeedsLeaver
<1>1. IInv => FailureNeedsLeaver
  BY DEF IInv, Types, ServerType, Causes, ClosedHaveLeft, PoisonedByClosed,
         FailuresArePoisoned, FailureNeedsLeaver
<1> QED
  BY <1>1, Invariance, PTL
(* Whoever changes the table and however often clients subscribe, the      *)
(* storage of a connected subscriber and the messages on their way to it   *)
(* make up the rows of the table, and no selection the table does not have *)
(* (AdvTableDelegate::on_message, BasicTable): unless a send to another    *)
(* subscriber failed, or the application changed rows between a            *)
(* subscription and its reply.                                             *)
THEOREM Convergence == Spec => []SubscribersConverge
<1>1. Init => Synchrony
  BY TableAssumption, InitSyncs
<1>2. IInv /\ IInv' /\ Synchrony /\ [Next]_vars => Synchrony'
  BY TableAssumption, StepSyncs
<1>3. IInv /\ Synchrony => SubscribersConverge
  <2> SUFFICES ASSUME IInv, Synchrony, NEW c \in subscribers,
                      ~ left[c], ~ raced[c], ~ poisoned,
                      ~ SubscriptionAhead(c)
               PROVE  /\ Eventual(c).rows = table.rows
                      /\ Eventual(c).selection \in {"none", table.selection}
    BY DEF SubscribersConverge
  <2>1. Synced(c)
    BY DEF Synchrony, IInv, Types, ServerType
  <2> QED
    BY <2>1 DEF Synced, Follows, Following, Within
<1> QED
  BY <1>1, <1>2, <1>3, Invariance, PTL DEF Spec
=============================================================================
