------------------------- MODULE ServerTasksProofs --------------------------
(***************************************************************************)
(* Proofs about ServerTasks, for every set of clients, every capacity of   *)
(* the loop's queue and every number of invocations.                       *)
(***************************************************************************)
EXTENDS ServerTasks, TLAPS, WellFoundedInduction, SequenceTheorems

-----------------------------------------------------------------------------
(* The inductive invariant *)

(* What a handler is sending is its client's registration or an invocation.*)
HeldMessages ==
  \A c \in Clients : handler[c] = "sending" =>
    /\ held[c] \in Message
    /\ held[c].client = c
    /\ \/ held[c].kind = "connected" /\ held[c].call = 0
       \/ held[c].kind = "client" /\ held[c].call # 0

(* Invocations are numbered from 1, in the queue and in the loop too. *)
NumberedCalls ==
  /\ \A i \in 1 .. Len(toServer) :
       toServer[i].kind = "client" => toServer[i].call # 0
  /\ loop = "invoking" => call # NoCall

(* The loop has not heard of c yet, and nothing of c is in its queue. *)
Fresh(c) ==
  \/ handler[c] = "none"
  \/ handler[c] = "sending" /\ held[c].kind = "connected"

(* The handler of c has registered it and has not sent its closing. *)
Registered(c) ==
  \/ handler[c] \in {"reading", "leaving"}
  \/ handler[c] = "sending" /\ held[c].kind = "client"

(* c is in active_client_info, or will be before what follows place n of   *)
(* the queue is taken.                                                     *)
KnownBefore(c, n) ==
  \/ c \in active
  \/ \E j \in 1 .. n - 1 :
       toServer[j] = [kind |-> "connected", call |-> 0, client |-> c]

(* Where the handler of c stands agrees with what the loop knows of c. *)
Registration(c) ==
  /\ conn[c] = "none" => handler[c] = "none"
  /\ Fresh(c) =>
       /\ c \notin active
       /\ \A i \in 1 .. Len(toServer) : toServer[i].client # c
  /\ Registered(c) /\ ~ LoopGone =>
       /\ KnownBefore(c, Len(toServer) + 1)
       /\ \A i \in 1 .. Len(toServer) :
            toServer[i].client = c => toServer[i].kind # "closed"

Registrations == \A c \in Clients : Registration(c)

Rest == HeldMessages /\ NumberedCalls /\ Registrations /\ KnownSenders

IInv == TypeOK /\ Rest

-----------------------------------------------------------------------------
(* Queues *)

(* A queue gives up its first element and keeps the others in order. *)
LEMMA TakenFromQueue ==
  ASSUME NEW S, NEW q \in Seq(S), q # <<>>
  PROVE  /\ Len(q) \in Nat \ {0}
         /\ Head(q) = q[1] /\ Head(q) \in S
         /\ Tail(q) \in Seq(S) /\ Len(Tail(q)) = Len(q) - 1
         /\ \A i \in 1 .. Len(q) - 1 : Tail(q)[i] = q[i + 1]
  OBVIOUS

(* A queue takes a new element as its last. *)
LEMMA AddedToQueue ==
  ASSUME NEW S, NEW q \in Seq(S), NEW e \in S
  PROVE  /\ Append(q, e) \in Seq(S) /\ Len(Append(q, e)) = Len(q) + 1
         /\ Append(q, e)[Len(q) + 1] = e
         /\ \A i \in 1 .. Len(q) : Append(q, e)[i] = q[i]
  OBVIOUS

(* One queue of a family of queues gives up an element, takes one, or is   *)
(* emptied.                                                                *)
LEMMA TakenFromOne ==
  ASSUME NEW S, NEW q \in [Clients -> Seq(S)], NEW c \in Clients, q[c] # <<>>
  PROVE  /\ Head(q[c]) \in S
         /\ [q EXCEPT ![c] = Tail(@)] \in [Clients -> Seq(S)]
  OBVIOUS

LEMMA AddedToOne ==
  ASSUME NEW S, NEW q \in [Clients -> Seq(S)], NEW c \in Clients, NEW e \in S
  PROVE  [q EXCEPT ![c] = Append(@, e)] \in [Clients -> Seq(S)]
  OBVIOUS

LEMMA EmptiedOne ==
  ASSUME NEW S, NEW q \in [Clients -> Seq(S)], NEW c \in Clients
  PROVE  [q EXCEPT ![c] = <<>>] \in [Clients -> Seq(S)]
  OBVIOUS

-----------------------------------------------------------------------------
(* Types *)

(* The initial states are well typed. *)
LEMMA TypeInit == Init => TypeOK
<1>1. SUFFICES ASSUME Init PROVE TypeOK
  OBVIOUS
<1>2. \A S : <<>> \in Seq(S) /\ Len(<<>>) = 0
  OBVIOUS
<1>3. toServer \in Seq(Message) /\ Len(toServer) <= QueueCap
  BY <1>1, <1>2, TasksAssumption DEF Init
<1>4. /\ calls \in [Clients -> 0 .. MaxCalls]
      /\ subs \in [Clients -> SUBSET (1 .. MaxCalls)]
      /\ conn \in [Clients -> {"none", "up", "down"}]
      /\ held \in [Clients -> Message \cup {NoCall}]
      /\ told \in [Clients -> BOOLEAN]
  BY <1>1, TasksAssumption DEF Init
<1>5. /\ up \in [Clients -> Seq(1 .. MaxCalls)]
      /\ down \in [Clients -> Seq(1 .. MaxCalls)]
      /\ raw \in [Clients -> Seq(1 .. MaxCalls)]
      /\ out \in [Clients -> Seq(1 .. MaxCalls)]
  BY <1>1, <1>2 DEF Init
<1>6. /\ handler \in [Clients -> {"none", "sending", "reading", "leaving",
                                  "stopping", "joining", "closed", "panicked",
                                  "abandoned"}]
      /\ writer \in [Clients -> TaskState]
      /\ bcaster \in [Clients -> TaskState]
      /\ forwarder \in [Clients -> TaskState]
  BY <1>1 DEF Init, TaskState
<1>7. /\ loop = "idle" /\ call = NoCall /\ active = {}
      /\ halt = FALSE /\ stop = FALSE
      /\ acceptor = "on" /\ main = "running"
  BY <1>1 DEF Init
<1>8. QED
  BY <1>3, <1>4, <1>5, <1>6, <1>7 DEF TypeOK

(* Every step keeps the types; the numbers of queued calls are needed where*)
(* the loop takes one.                                                     *)
LEMMA TypeStep ==
  ASSUME TypeOK, HeldMessages, NumberedCalls, [Next]_vars
  PROVE  TypeOK'
<1> USE TasksAssumption
<1>1. ASSUME NEW c \in Clients, Connect(c)
      PROVE  TypeOK'
  BY <1>1 DEF TypeOK, TaskState, Connect, clientVars, taskVars, loopVars, mainVars, Message
<1>2. ASSUME NEW c \in Clients, Invoke(c)
      PROVE  TypeOK'
  BY <1>2 DEF TypeOK, TaskState, Invoke, clientVars, taskVars, loopVars, mainVars
<1>3. ASSUME NEW c \in Clients, TakeReply(c)
      PROVE  TypeOK'
  <2>1. down' \in [Clients -> Seq(1 .. MaxCalls)]
    BY <1>3, TakenFromOne DEF TypeOK, TakeReply
  <2>2. QED
    BY <1>3, <2>1 DEF TypeOK, TakeReply, taskVars, loopVars, mainVars
<1>4. ASSUME NEW c \in Clients, Disconnect(c)
      PROVE  TypeOK'
  <2>1. down' \in [Clients -> Seq(1 .. MaxCalls)]
    BY <1>4, EmptiedOne DEF TypeOK, Disconnect
  <2>2. [up EXCEPT ![c] = <<>>] \in [Clients -> Seq(1 .. MaxCalls)]
    BY EmptiedOne DEF TypeOK
  <2>3. up' \in [Clients -> Seq(1 .. MaxCalls)]
    BY <1>4, <2>2 DEF TypeOK, Disconnect
  <2>4. QED
    BY <1>4, <2>1, <2>3 DEF TypeOK, Disconnect, taskVars, loopVars, mainVars
<1>5. ASSUME NEW c \in Clients, Submit(c)
      PROVE  TypeOK'
  <2>1. held[c] \in Message /\ Len(toServer) \in Nat
    BY <1>5 DEF HeldMessages, Submit, TypeOK
  <2>2. toServer' \in Seq(Message) /\ Len(toServer') <= QueueCap
    <3>1. CASE LoopGone
      BY <1>5, <3>1 DEF TypeOK, Submit
    <3>2. CASE ~ LoopGone
      <4>1. toServer' = Append(toServer, held[c]) /\ Len(toServer) < QueueCap
        BY <1>5, <3>2 DEF Submit
      <4>2. /\ Append(toServer, held[c]) \in Seq(Message)
            /\ Len(Append(toServer, held[c])) = Len(toServer) + 1
        BY <2>1, AddedToQueue DEF TypeOK
      <4>3. QED
        BY <2>1, <4>1, <4>2
    <3>3. QED
      BY <3>1, <3>2
  <2>3. /\ handler' \in [Clients -> {"none", "sending", "reading", "leaving",
                                    "stopping", "joining", "closed", "panicked",
                                  "abandoned"}]
        /\ held' \in [Clients -> Message \cup {NoCall}]
    BY <1>5 DEF TypeOK, Submit
  <2>4. QED
    BY <1>5, <2>2, <2>3
    DEF TypeOK, Submit, clientVars, taskVars, loopVars, mainVars
<1>6. ASSUME NEW c \in Clients, Read(c)
      PROVE  TypeOK'
  <2>1. /\ Head(up[c]) \in 1 .. MaxCalls
        /\ up' \in [Clients -> Seq(1 .. MaxCalls)]
    BY <1>6, TakenFromOne DEF TypeOK, Read
  <2>2. held' \in [Clients -> Message \cup {NoCall}]
    BY <1>6, <2>1 DEF TypeOK, Read, Message
  <2>3. QED
    BY <1>6, <2>1, <2>2
    DEF TypeOK, Read, clientVars, taskVars, loopVars, mainVars
<1>7. ASSUME NEW c \in Clients, ReadEnd(c)
      PROVE  TypeOK'
  BY <1>7 DEF TypeOK, TaskState, ReadEnd, clientVars, taskVars, loopVars, mainVars
<1>25. ASSUME NEW c \in Clients, ReadPing(c)
      PROVE  TypeOK'
  BY <1>25 DEF TypeOK, TaskState, ReadPing, clientVars, taskVars, loopVars, mainVars
<1>26. ASSUME NEW c \in Clients, FailWriter(c)
      PROVE  TypeOK'
  BY <1>26 DEF TypeOK, TaskState, FailWriter, clientVars, taskVars, loopVars, mainVars
<1>8. ASSUME NEW c \in Clients, Leave(c)
      PROVE  TypeOK'
  <2>1. /\ [kind |-> "closed", client |-> c, call |-> 0] \in Message
        /\ Len(toServer) \in Nat
    BY DEF Message, TypeOK
  <2>2. toServer' \in Seq(Message) /\ Len(toServer') <= QueueCap
    <3> DEFINE m == [kind |-> "closed", client |-> c, call |-> 0]
    <3>1. CASE LoopGone
      BY <1>8, <3>1 DEF TypeOK, Leave
    <3>2. CASE ~ LoopGone
      <4>1. toServer' = Append(toServer, m) /\ Len(toServer) < QueueCap
        BY <1>8, <3>2 DEF Leave
      <4>2. m \in Message
        BY <2>1
      <4> HIDE DEF m
      <4>3. /\ Append(toServer, m) \in Seq(Message)
            /\ Len(Append(toServer, m)) = Len(toServer) + 1
        BY <4>2, AddedToQueue DEF TypeOK
      <4>4. QED
        BY <2>1, <4>1, <4>3
    <3>3. QED
      BY <3>1, <3>2
  <2>3. QED
    BY <1>8, <2>2 DEF TypeOK, Leave, clientVars, taskVars, loopVars, mainVars
<1>9. ASSUME NEW c \in Clients, StopTasks(c)
      PROVE  TypeOK'
  BY <1>9 DEF TypeOK, TaskState, StopTasks, clientVars, taskVars, loopVars, mainVars
<1>10. ASSUME NEW c \in Clients, Join(c)
      PROVE  TypeOK'
  BY <1>10 DEF TypeOK, TaskState, Join, clientVars, taskVars, loopVars, mainVars
<1>11. ASSUME NEW c \in Clients, Write(c)
      PROVE  TypeOK'
  <2>1. /\ Head(out[c]) \in 1 .. MaxCalls
        /\ out' \in [Clients -> Seq(1 .. MaxCalls)]
    BY <1>11, TakenFromOne DEF TypeOK, Write
  <2>2. down' \in [Clients -> Seq(1 .. MaxCalls)]
    <3>1. [down EXCEPT ![c] = Append(@, Head(out[c]))]
            \in [Clients -> Seq(1 .. MaxCalls)]
      BY <2>1, AddedToOne DEF TypeOK
    <3>2. QED
      BY <1>11, <3>1 DEF TypeOK, Write
  <2>3. writer' \in [Clients -> TaskState]
    <3>1. writer' \in {writer, [writer EXCEPT ![c] = "panicked"]}
      BY <1>11 DEF Write
    <3>2. writer \in [Clients -> TaskState] /\ "panicked" \in TaskState
      BY DEF TypeOK, TaskState
    <3>3. QED
      BY <3>1, <3>2
  <2>4. QED
    BY <1>11, <2>1, <2>2, <2>3
    DEF TypeOK, Write, clientVars, loopVars, mainVars
<1>12. ASSUME NEW c \in Clients, StopWriter(c)
      PROVE  TypeOK'
  BY <1>12 DEF TypeOK, TaskState, StopWriter, clientVars, taskVars, loopVars, mainVars
<1>13. ASSUME NEW c \in Clients, StopBcaster(c)
      PROVE  TypeOK'
  BY <1>13 DEF TypeOK, TaskState, StopBcaster, clientVars, taskVars, loopVars, mainVars
<1>14. ASSUME NEW c \in Clients, Forward(c)
      PROVE  TypeOK'
  <2>1. /\ Head(raw[c]) \in 1 .. MaxCalls
        /\ raw' \in [Clients -> Seq(1 .. MaxCalls)]
    BY <1>14, TakenFromOne DEF TypeOK, Forward
  <2>2. out' \in [Clients -> Seq(1 .. MaxCalls)]
    <3>1. [out EXCEPT ![c] = Append(@, Head(raw[c]))]
            \in [Clients -> Seq(1 .. MaxCalls)]
      BY <2>1, AddedToOne DEF TypeOK
    <3>2. QED
      BY <1>14, <3>1 DEF TypeOK, Forward
  <2>3. forwarder' \in [Clients -> TaskState]
    <3>1. forwarder' \in {forwarder, [forwarder EXCEPT ![c] = "panicked"]}
      BY <1>14 DEF Forward
    <3>2. QED
      BY <3>1 DEF TypeOK, TaskState
  <2>4. QED
    BY <1>14, <2>1, <2>2, <2>3
    DEF TypeOK, Forward, clientVars, loopVars, mainVars
<1>15. ASSUME NEW c \in Clients, StopForwarder(c)
      PROVE  TypeOK'
  BY <1>15 DEF TypeOK, TaskState, StopForwarder, clientVars, taskVars, loopVars, mainVars
<1>16. CASE Take
  <2>1. /\ toServer[1] \in Message /\ Head(toServer) = toServer[1]
        /\ Len(toServer) \in Nat \ {0}
        /\ toServer' \in Seq(Message) /\ Len(toServer') = Len(toServer) - 1
    BY <1>16, TakenFromQueue DEF TypeOK, Take
  <2>2. toServer[1].kind = "client" => toServer[1].call \in 1 .. MaxCalls
    BY <2>1 DEF NumberedCalls, Message
  <2>3. /\ loop' \in {"idle", "invoking", "stopped", "panicked"}
        /\ call' \in [client : Clients, call : 1 .. MaxCalls] \cup {NoCall}
        /\ active' \in SUBSET Clients
    <3>1. toServer[1].client \in Clients
      BY <2>1 DEF Message
    <3>2. \/ /\ active' \in {active \cup {toServer[1].client},
                             active \ {toServer[1].client}}
             /\ loop' = loop /\ call' = call
          \/ /\ toServer[1].kind = "client"
             /\ loop' = "invoking" /\ active' = active
             /\ call' = [client |-> toServer[1].client,
                         call |-> toServer[1].call]
          \/ loop' = "panicked" /\ call' = call /\ active' = active
      BY <1>16, <2>1 DEF Take
    <3>3. toServer[1].kind = "client" =>
            [client |-> toServer[1].client, call |-> toServer[1].call]
              \in [client : Clients, call : 1 .. MaxCalls]
      BY <2>2, <3>1
    <3>4. /\ loop \in {"idle", "invoking", "stopped", "panicked"}
          /\ call \in [client : Clients, call : 1 .. MaxCalls] \cup {NoCall}
          /\ active \in SUBSET Clients
      BY DEF TypeOK
    <3>5. QED
      BY <3>1, <3>2, <3>3, <3>4
  <2>4. Len(toServer') <= QueueCap
    <3>1. Len(toServer) <= QueueCap /\ QueueCap \in Nat
      BY DEF TypeOK
    <3>2. QED
      BY <2>1, <3>1
  <2>5. UNCHANGED <<clientVars, up, down, handler, held, told, taskVars, raw,
                    out, mainVars>>
    BY <1>16 DEF Take
  <2>6. QED
    BY <2>1, <2>3, <2>4, <2>5 DEF TypeOK, clientVars, taskVars, mainVars
<1>17. CASE Answer
  <2>1. call.client \in Clients /\ call.call \in 1 .. MaxCalls
    BY <1>17 DEF TypeOK, Answer, NumberedCalls
  <2>2. raw' \in [Clients -> Seq(1 .. MaxCalls)]
    BY <1>17, <2>1, AddedToOne DEF TypeOK, Answer
  <2>3. QED
    BY <1>17, <2>2 DEF TypeOK, Answer, clientVars, taskVars, mainVars
<1>18. CASE StopLoop
  BY <1>18 DEF TypeOK, TaskState, StopLoop, clientVars, taskVars, loopVars, mainVars
<1>19. CASE Shutdown
  BY <1>19 DEF TypeOK, TaskState, Shutdown, clientVars, taskVars, loopVars, mainVars
<1>20. CASE Watch
  BY <1>20 DEF TypeOK, TaskState, Watch, clientVars, taskVars, loopVars, mainVars
<1>21. CASE StopAcceptor
  BY <1>21 DEF TypeOK, TaskState, StopAcceptor, clientVars, taskVars, loopVars, mainVars
<1>22. CASE Return
  BY <1>22 DEF TypeOK, TaskState, Return, clientVars, taskVars, loopVars, mainVars
<1>23. CASE UNCHANGED vars
  BY <1>23 DEF TypeOK, vars, clientVars, taskVars, loopVars, mainVars
<1>24. QED
  BY <1>1, <1>2, <1>3, <1>4, <1>5, <1>6, <1>7, <1>8, <1>9, <1>10, <1>11, <1>12, <1>13, <1>14, <1>15, <1>16, <1>17, <1>18, <1>19, <1>20, <1>21, <1>22, <1>23,
     <1>25, <1>26
  DEF Next, ClientStep, HandlerStep, TaskStep
-----------------------------------------------------------------------------
(* What the loop knows of the clients *)

(* In the initial states nobody is registered and nothing is queued. *)
LEMMA RestInit == Init => Rest
<1>1. SUFFICES ASSUME Init PROVE Rest
  OBVIOUS
<1>2. toServer = <<>> /\ Len(toServer) = 0
  BY <1>1 DEF Init
<1>3. HeldMessages /\ NumberedCalls
  BY <1>1, <1>2 DEF Init, HeldMessages, NumberedCalls
<1>4. Registrations
  BY <1>1, <1>2 DEF Init, Registrations, Registration, Fresh, Registered
<1>5. KnownSenders
  BY <1>1, <1>2 DEF Init, KnownSenders
<1>6. QED
  BY <1>3, <1>4, <1>5 DEF Rest

(* Most steps touch neither the handlers nor the loop nor its queue. *)
LEMMA RestElsewhere ==
  ASSUME Rest,
         UNCHANGED <<handler, held, toServer, loop, call, active>>,
         \A c \in Clients : conn'[c] = "none" => conn[c] = "none"
  PROVE  Rest'
<1>1. HeldMessages'
  BY DEF Rest, HeldMessages
<1>2. NumberedCalls'
  BY DEF Rest, NumberedCalls
<1>3. ASSUME NEW c \in Clients PROVE Registration(c)'
  <2>1. Registration(c)
    BY DEF Rest, Registrations
  <2>2. QED
    BY <2>1 DEF Registration, Fresh, Registered, KnownBefore, LoopGone
<1>4. KnownSenders'
  BY DEF Rest, KnownSenders
<1>5. QED
  BY <1>1, <1>2, <1>3, <1>4 DEF Rest, Registrations

(* A handler goes from one place to another without sending anything: the  *)
(* loop need not know more of it.                                          *)
LEMMA RestHandlerMoves ==
  ASSUME TypeOK, Rest, NEW c \in Clients,
         UNCHANGED <<toServer, loop, call, active>>,
         \A d \in Clients \ {c} :
           handler'[d] = handler[d] /\ held'[d] = held[d] /\ conn'[d] = conn[d],
         conn'[c] = "none" => handler'[c] = "none",
         handler'[c] = "sending" =>
           /\ held'[c] \in Message
           /\ held'[c].client = c
           /\ \/ held'[c].kind = "connected" /\ held'[c].call = 0
              \/ held'[c].kind = "client" /\ held'[c].call # 0,
         Fresh(c)' => Fresh(c),
         Registered(c)' => Registered(c) \/ LoopGone
  PROVE  Rest'
<1>1. HeldMessages'
  BY DEF Rest, HeldMessages
<1>2. NumberedCalls'
  BY DEF Rest, NumberedCalls
<1>3. ASSUME NEW d \in Clients PROVE Registration(d)'
  <2>1. Registration(d)
    BY DEF Rest, Registrations
  <2>2. LoopGone' = LoopGone
    BY DEF LoopGone
  <2>3. CASE d = c
    BY <2>1, <2>2, <2>3 DEF Registration, KnownBefore
  <2>4. CASE d # c
    <3>1. Fresh(d)' = Fresh(d) /\ Registered(d)' = Registered(d)
      BY <2>4 DEF Fresh, Registered
    <3>2. conn'[d] = conn[d] /\ handler'[d] = handler[d]
      BY <2>4
    <3>3. QED
      BY <2>1, <2>2, <3>1, <3>2 DEF Registration, KnownBefore
  <2>5. QED
    BY <2>3, <2>4
<1>4. KnownSenders'
  BY DEF Rest, KnownSenders
<1>5. QED
  BY <1>1, <1>2, <1>3, <1>4 DEF Rest, Registrations

(* A handler sends m to the loop.                                          *)
LEMMA RestMessageQueued ==
  ASSUME TypeOK, Rest, NEW c \in Clients, NEW m \in Message, m.client = c,
         toServer' = Append(toServer, m),
         UNCHANGED <<loop, call, active, conn>>,
         ~ LoopGone,
         \A d \in Clients \ {c} : handler'[d] = handler[d] /\ held'[d] = held[d],
         handler'[c] \notin {"none", "sending"}, handler[c] # "none",
         \/ m.kind = "connected" /\ m.call = 0 /\ Fresh(c)
         \/ m.kind = "client" /\ m.call # 0 /\ Registered(c)
         \/ m.kind = "closed" /\ ~ Registered(c)'
  PROVE  Rest'
<1>0. Len(toServer) \in Nat
  BY DEF TypeOK
<1>1. PICK n \in Nat :
        /\ n = Len(toServer) /\ Len(toServer') = n + 1
        /\ toServer'[n + 1] = m
        /\ \A i \in 1 .. n : toServer'[i] = toServer[i]
  <2>1. toServer \in Seq(Message)
    BY DEF TypeOK
  <2>2. /\ Len(toServer') = Len(toServer) + 1
        /\ toServer'[Len(toServer) + 1] = m
        /\ \A i \in 1 .. Len(toServer) : toServer'[i] = toServer[i]
    BY <2>1, AddedToQueue
  <2>3. QED
    BY <1>0, <2>2
<1>2. \A i \in 1 .. n + 1 : i \in 1 .. n \/ i = n + 1
  BY <1>1
<1>3. LoopGone' = LoopGone
  BY DEF LoopGone
<1>4. HeldMessages'
  BY DEF Rest, HeldMessages
<1>5. NumberedCalls'
  BY <1>1, <1>2 DEF Rest, NumberedCalls
<1>6. ASSUME NEW d \in Clients, NEW k \in 1 .. n + 1, KnownBefore(d, k)
      PROVE  KnownBefore(d, k)' /\ KnownBefore(d, n + 2)'
  <2>1. CASE d \in active
    BY <2>1 DEF KnownBefore
  <2>2. CASE d \notin active
    <3>1. PICK j \in 1 .. k - 1 :
            toServer[j] = [kind |-> "connected", call |-> 0, client |-> d]
      BY <1>6, <2>2 DEF KnownBefore
    <3>2. j \in 1 .. n /\ j \in 1 .. n + 2 - 1
      BY <1>1, <3>1
    <3>3. toServer'[j] = [kind |-> "connected", call |-> 0, client |-> d]
      BY <1>1, <3>1, <3>2
    <3>4. KnownBefore(d, k)'
      BY <3>1, <3>3 DEF KnownBefore
    <3>5. KnownBefore(d, n + 2)'
      <4> DEFINE p == n + 2
      <4>1. j \in 1 .. p - 1
        BY <3>2
      <4> HIDE DEF p
      <4>2. KnownBefore(d, p)'
        BY <3>3, <4>1 DEF KnownBefore
      <4>3. QED
        BY <4>2 DEF p
    <3>6. QED
      BY <3>4, <3>5
  <2>3. QED
    BY <2>1, <2>2
<1>7. ASSUME NEW d \in Clients
      PROVE  Registration(d)' <=>
        /\ conn'[d] = "none" => handler'[d] = "none"
        /\ Fresh(d)' =>
             /\ d \notin active'
             /\ \A i \in 1 .. n + 1 : toServer'[i].client # d
        /\ Registered(d)' =>
             /\ KnownBefore(d, n + 2)'
             /\ \A i \in 1 .. n + 1 :
                  toServer'[i].client = d => toServer'[i].kind # "closed"
  <2>1. Len(toServer') + 1 = n + 2
    BY <1>1
  <2>2. QED
    BY <1>1, <1>3, <2>1 DEF Registration, KnownBefore
<1>8. ASSUME NEW d \in Clients PROVE Registration(d)'
  <2>1. Registration(d)
    BY DEF Rest, Registrations
  <2>2. conn'[d] = "none" => handler'[d] = "none"
    BY <2>1 DEF Registration
  <2>3. CASE d # c
    <3>1. Fresh(d)' = Fresh(d) /\ Registered(d)' = Registered(d)
      BY <2>3 DEF Fresh, Registered
    <3>2. Fresh(d)' =>
            /\ d \notin active'
            /\ \A i \in 1 .. n + 1 : toServer'[i].client # d
      BY <1>1, <1>2, <2>1, <2>3, <3>1 DEF Registration
    <3>3. Registered(d)' =>
            /\ KnownBefore(d, n + 2)'
            /\ \A i \in 1 .. n + 1 :
                 toServer'[i].client = d => toServer'[i].kind # "closed"
      <4>1. SUFFICES ASSUME Registered(d)' PROVE
              /\ KnownBefore(d, n + 2)'
              /\ \A i \in 1 .. n + 1 :
                   toServer'[i].client = d => toServer'[i].kind # "closed"
        OBVIOUS
      <4>2. /\ KnownBefore(d, n + 1)
            /\ \A i \in 1 .. n :
                 toServer[i].client = d => toServer[i].kind # "closed"
        BY <1>1, <2>1, <3>1, <4>1 DEF Registration
      <4>3. n + 1 \in 1 .. n + 1
        BY <1>1
      <4>4. KnownBefore(d, n + 2)'
        BY <1>6, <4>2, <4>3
      <4>5. QED
        BY <1>1, <1>2, <2>3, <4>2, <4>4
    <3>4. QED
      BY <1>7, <2>2, <3>2, <3>3
  <2>4. CASE d = c
    <3>1. ~ Fresh(c)'
      BY DEF Fresh
    <3>2. CASE m.kind = "connected" /\ m.call = 0 /\ Fresh(c)
      <4>1. m = [kind |-> "connected", call |-> 0, client |-> c]
        BY <3>2 DEF Message
      <4>2. n + 1 \in 1 .. (n + 2) - 1
        BY <1>1
      <4>3. KnownBefore(c, n + 2)'
        BY <1>1, <4>1, <4>2 DEF KnownBefore
      <4>4. \A i \in 1 .. n : toServer[i].client # c
        BY <1>1, <2>1, <2>4, <3>2 DEF Registration
      <4>5. \A i \in 1 .. Len(toServer') :
              toServer'[i].client = c => toServer'[i].kind # "closed"
        BY <1>1, <1>2, <3>2, <4>4
      <4>6. QED
        BY <1>1, <1>7, <2>2, <2>4, <3>1, <4>3, <4>5
    <3>3. CASE m.kind = "client" /\ m.call # 0 /\ Registered(c)
      <4>1. /\ KnownBefore(c, n + 1)
            /\ \A i \in 1 .. n :
                 toServer[i].client = c => toServer[i].kind # "closed"
        BY <1>1, <2>1, <2>4, <3>3 DEF Registration
      <4>2. n + 1 \in 1 .. n + 1
        BY <1>1
      <4>3. KnownBefore(c, n + 2)'
        BY <1>6, <4>1, <4>2
      <4>4. \A i \in 1 .. Len(toServer') :
              toServer'[i].client = c => toServer'[i].kind # "closed"
        BY <1>1, <1>2, <3>3, <4>1
      <4>5. QED
        BY <1>1, <1>7, <2>2, <2>4, <3>1, <4>3, <4>4
    <3>4. CASE m.kind = "closed" /\ ~ Registered(c)'
      BY <1>7, <2>2, <2>4, <3>1, <3>4
    <3>5. QED
      BY <3>2, <3>3, <3>4
  <2>5. QED
    BY <2>3, <2>4
<1>9. KnownSenders'
  <2>1. loop' # "panicked"
    BY DEF Rest, KnownSenders
  <2>2. ASSUME NEW i \in 1 .. n + 1, toServer'[i].kind = "client",
               NEW e \in Clients, toServer'[i].client = e
        PROVE  /\ KnownBefore(e, i)'
               /\ \A j \in 1 .. i - 1 :
                    toServer'[j].client = e => toServer'[j].kind # "closed"
    <3>1. \A j \in 1 .. i - 1 : j \in 1 .. n
      BY <1>1
    <3>2. CASE i \in 1 .. n
      <4>1. toServer[i].client = e /\ toServer[i].kind = "client"
        BY <1>1, <2>2, <3>2
      <4>2. /\ KnownBefore(e, i)
            /\ \A j \in 1 .. i - 1 :
                 toServer[j].client = e => toServer[j].kind # "closed"
        BY <1>1, <3>2, <4>1 DEF Rest, KnownSenders, KnownBefore
      <4>3. KnownBefore(e, i)'
        BY <1>6, <4>2
      <4>4. QED
        BY <1>1, <3>1, <4>2, <4>3
    <3>3. CASE i = n + 1
      <4>1. Registered(c) /\ m.kind = "client" /\ e = c
        BY <1>1, <2>2, <3>3
      <4>2. /\ KnownBefore(c, n + 1)
            /\ \A j \in 1 .. n :
                 toServer[j].client = c => toServer[j].kind # "closed"
        BY <1>1, <4>1 DEF Rest, Registrations, Registration
      <4>3. KnownBefore(e, i)'
        BY <1>6, <3>3, <4>1, <4>2
      <4>4. QED
        BY <1>1, <3>1, <4>1, <4>2, <4>3
    <3>4. QED
      BY <1>2, <3>2, <3>3
  <2>3. \A i \in 1 .. n + 1 : toServer'[i].client \in Clients
    <3>1. \A i \in 1 .. n : toServer[i] \in Message
      BY <1>1 DEF TypeOK
    <3>2. \A x \in Message : x.client \in Clients
      BY DEF Message
    <3>3. QED
      BY <1>1, <1>2, <3>1, <3>2
  <2>4. QED
    BY <1>1, <2>1, <2>2, <2>3 DEF KnownSenders, KnownBefore
<1>10. QED
  BY <1>4, <1>5, <1>8, <1>9 DEF Rest, Registrations

(* The loop takes a message: who is known before a place of the queue stays*)
(* known, one place further to the front.                                  *)
LEMMA RestTake ==
  ASSUME TypeOK, Rest, Take
  PROVE  Rest'
<1>1. PICK n \in Nat, m \in Message :
        /\ Len(toServer) = n + 1 /\ Len(toServer') = n
        /\ toServer[1] = m /\ Head(toServer) = m
        /\ \A i \in 1 .. n : toServer'[i] = toServer[i + 1]
  <2>1. toServer \in Seq(Message) /\ toServer # <<>> /\ toServer' = Tail(toServer)
    BY DEF TypeOK, Take
  <2>2. /\ Len(toServer) \in Nat \ {0}
        /\ Head(toServer) = toServer[1] /\ Head(toServer) \in Message
        /\ Len(toServer') = Len(toServer) - 1
        /\ \A i \in 1 .. Len(toServer) - 1 : toServer'[i] = toServer[i + 1]
    BY <2>1, TakenFromQueue
  <2>3. Len(toServer) - 1 \in Nat /\ Len(toServer) = (Len(toServer) - 1) + 1
    BY <2>2
  <2>4. QED
    BY <2>2, <2>3
<1>2. UNCHANGED <<handler, held, conn>> /\ loop = "idle" /\ ~ LoopGone
  BY DEF Take, LoopGone, clientVars
<1>3. \A i \in 1 .. n : i + 1 \in 1 .. n + 1
  BY <1>1
<1>4. 1 \in 1 .. n + 1 /\ \A i \in 1 .. n + 1 : i = 1 \/ i - 1 \in 1 .. n
  BY <1>1
<1>5. m.client \in Clients /\ m.kind \in {"connected", "client", "closed"}
  BY <1>1 DEF Message
<1>6. /\ m.kind = "connected" => active' = active \cup {m.client}
      /\ m.kind = "closed" => active' = active \ {m.client}
      /\ m.kind = "client" => active' = active
  BY <1>1 DEF Take
<1>7. m.kind = "client" => m.client \in active
  <2>1. SUFFICES ASSUME m.kind = "client" PROVE m.client \in active
    OBVIOUS
  <2>2. \/ m.client \in active
        \/ \E j \in 1 .. 1 - 1 :
             toServer[j] = [kind |-> "connected", call |-> 0,
                            client |-> m.client]
    BY <1>1, <1>4, <2>1 DEF Rest, KnownSenders
  <2>3. QED
    BY <2>2
<1>8. loop' # "panicked"
  BY <1>1, <1>2, <1>7 DEF Take
<1>9. ASSUME NEW d \in Clients, NEW k \in 1 .. n + 1, KnownBefore(d, k + 1),
             m.client = d => m.kind # "closed"
      PROVE  KnownBefore(d, k)'
  <2>1. CASE d \in active
    <3>1. d \in active'
      BY <1>5, <1>6, <1>9, <2>1
    <3>2. QED
      BY <3>1 DEF KnownBefore
  <2>2. CASE d \notin active
    <3>1. PICK j \in 1 .. (k + 1) - 1 :
            toServer[j] = [kind |-> "connected", call |-> 0, client |-> d]
      BY <1>9, <2>2 DEF KnownBefore
    <3>2. CASE j = 1
      <4>1. m.kind = "connected" /\ m.client = d
        BY <1>1, <3>1, <3>2
      <4>2. d \in active'
        BY <1>6, <4>1
      <4>3. QED
        BY <4>2 DEF KnownBefore
    <3>3. CASE j # 1
      <4>1. j - 1 \in 1 .. n /\ j - 1 \in 1 .. k - 1 /\ (j - 1) + 1 = j
        BY <1>1, <3>1, <3>3
      <4>2. toServer'[j - 1] = [kind |-> "connected", call |-> 0, client |-> d]
        BY <1>1, <3>1, <4>1
      <4>3. \E i \in 1 .. k - 1 :
              toServer'[i] = [kind |-> "connected", call |-> 0, client |-> d]
        BY <4>1, <4>2, Zenon
      <4>4. QED
        BY <4>3, Zenon DEF KnownBefore
    <3>4. QED
      BY <3>2, <3>3
  <2>3. QED
    BY <2>1, <2>2
<1>10. HeldMessages'
  BY <1>2 DEF Rest, HeldMessages
<1>11. NumberedCalls'
  <2>1. \A i \in 1 .. n :
          toServer'[i].kind = "client" => toServer'[i].call # 0
    BY <1>1, <1>3 DEF Rest, NumberedCalls
  <2>2. loop' = "invoking" => call' # NoCall
    <3>1. SUFFICES ASSUME loop' = "invoking" PROVE call' # NoCall
      OBVIOUS
    <3>2. call' = [client |-> m.client, call |-> m.call] /\ m.kind = "client"
      BY <1>1, <1>2, <3>1 DEF Take
    <3>3. m.call \in 1 .. MaxCalls
      BY <1>1, <1>4, <3>2, TasksAssumption DEF Rest, NumberedCalls, Message
    <3>4. QED
      BY <1>5, <3>2, <3>3, TasksAssumption
  <2>3. QED
    BY <1>1, <2>1, <2>2 DEF NumberedCalls
<1>12. ASSUME NEW d \in Clients PROVE Registration(d)'
  <2>1. Registration(d)
    BY DEF Rest, Registrations
  <2>2. Fresh(d)' = Fresh(d) /\ Registered(d)' = Registered(d)
    BY <1>2 DEF Fresh, Registered
  <2>3. Fresh(d) =>
          /\ d \notin active'
          /\ \A i \in 1 .. n : toServer'[i].client # d
    <3>1. SUFFICES ASSUME Fresh(d) PROVE
            /\ d \notin active'
            /\ \A i \in 1 .. n : toServer'[i].client # d
      OBVIOUS
    <3>2. d \notin active /\ \A i \in 1 .. n + 1 : toServer[i].client # d
      BY <1>1, <2>1, <3>1 DEF Registration
    <3>3. m.client # d
      BY <1>1, <1>4, <3>2
    <3>4. d \notin active'
      BY <1>5, <1>6, <3>2, <3>3
    <3>5. QED
      BY <1>1, <1>3, <3>2, <3>4
  <2>4. Registered(d) =>
          /\ KnownBefore(d, n + 1)'
          /\ \A i \in 1 .. n :
               toServer'[i].client = d => toServer'[i].kind # "closed"
    <3>1. SUFFICES ASSUME Registered(d) PROVE
            /\ KnownBefore(d, n + 1)'
            /\ \A i \in 1 .. n :
                 toServer'[i].client = d => toServer'[i].kind # "closed"
      OBVIOUS
    <3>2. /\ KnownBefore(d, (n + 1) + 1)
          /\ \A i \in 1 .. n + 1 :
               toServer[i].client = d => toServer[i].kind # "closed"
      BY <1>1, <1>2, <2>1, <3>1 DEF Registration
    <3>3. n + 1 \in 1 .. n + 1
      BY <1>1
    <3>4. KnownBefore(d, n + 1)'
      BY <1>1, <1>4, <1>9, <3>2, <3>3
    <3>5. QED
      BY <1>1, <1>3, <3>2, <3>4
  <2>5. QED
    BY <1>1, <1>2, <2>1, <2>2, <2>3, <2>4 DEF Registration, KnownBefore
<1>13. KnownSenders'
  <2>1. ASSUME NEW i \in 1 .. n, toServer'[i].kind = "client",
               NEW e \in Clients, toServer'[i].client = e
        PROVE  /\ KnownBefore(e, i)'
               /\ \A j \in 1 .. i - 1 :
                    toServer'[j].client = e => toServer'[j].kind # "closed"
    <3>1. /\ i + 1 \in 1 .. n + 1 /\ i \in 1 .. n + 1
          /\ toServer[i + 1].client = e /\ toServer[i + 1].kind = "client"
      BY <1>1, <1>3, <2>1
    <3>2. /\ KnownBefore(e, i + 1)
          /\ \A j \in 1 .. (i + 1) - 1 :
               toServer[j].client = e => toServer[j].kind # "closed"
      BY <1>1, <3>1 DEF Rest, KnownSenders, KnownBefore
    <3>3. 1 \in 1 .. (i + 1) - 1
      BY <2>1
    <3>4. m.client = e => m.kind # "closed"
      BY <1>1, <3>2, <3>3
    <3>5. KnownBefore(e, i)'
      BY <1>9, <3>1, <3>2, <3>4
    <3>6. \A j \in 1 .. i - 1 : j \in 1 .. n /\ j + 1 \in 1 .. (i + 1) - 1
      BY <1>1, <2>1
    <3>7. QED
      BY <1>1, <3>2, <3>5, <3>6
  <2>2. \A i \in 1 .. n : toServer'[i].client \in Clients
    <3>1. \A i \in 1 .. n + 1 : toServer[i] \in Message
      BY <1>1 DEF TypeOK
    <3>2. \A x \in Message : x.client \in Clients
      BY DEF Message
    <3>3. QED
      BY <1>1, <1>3, <3>1, <3>2
  <2>3. QED
    BY <1>1, <1>8, <2>1, <2>2 DEF KnownSenders, KnownBefore
<1>14. QED
  BY <1>10, <1>11, <1>12, <1>13 DEF Rest, Registrations

(* The loop answers: the handlers and the queue stay as they are. *)
LEMMA RestAnswer ==
  ASSUME Rest, Answer
  PROVE  Rest'
<1>1. /\ UNCHANGED <<handler, held, toServer, active, conn>>
      /\ loop = "invoking" /\ loop' = "idle"
  BY DEF Answer, clientVars
<1>2. HeldMessages'
  BY <1>1 DEF Rest, HeldMessages
<1>3. NumberedCalls'
  BY <1>1 DEF Rest, NumberedCalls
<1>4. ASSUME NEW c \in Clients PROVE Registration(c)'
  <2>1. Registration(c) /\ ~ LoopGone
    BY <1>1 DEF Rest, Registrations, LoopGone
  <2>2. QED
    BY <1>1, <2>1 DEF Registration, Fresh, Registered, KnownBefore
<1>5. KnownSenders'
  BY <1>1 DEF Rest, KnownSenders
<1>6. QED
  BY <1>2, <1>3, <1>4, <1>5 DEF Rest, Registrations

(* The loop stops and its queue goes with it. *)
LEMMA RestStopLoop ==
  ASSUME Rest, StopLoop
  PROVE  Rest'
<1>1. /\ UNCHANGED <<handler, held, call, active, conn>>
      /\ toServer' = <<>> /\ Len(<<>>) = 0 /\ loop' = "stopped"
  BY DEF StopLoop, clientVars
<1>2. HeldMessages'
  BY <1>1 DEF Rest, HeldMessages
<1>3. NumberedCalls'
  BY <1>1 DEF NumberedCalls
<1>4. ASSUME NEW c \in Clients PROVE Registration(c)'
  <2>1. Registration(c) /\ LoopGone'
    BY <1>1 DEF Rest, Registrations, LoopGone
  <2>2. QED
    BY <1>1, <2>1 DEF Registration, Fresh
<1>5. KnownSenders'
  BY <1>1 DEF KnownSenders
<1>6. QED
  BY <1>2, <1>3, <1>4, <1>5 DEF Rest, Registrations

(* Every step keeps what the loop knows of the clients. *)
LEMMA RestStep ==
  ASSUME TypeOK, Rest, [Next]_vars
  PROVE  Rest'
<1>1. ASSUME NEW c \in Clients, Connect(c) PROVE Rest'
  <2>1. Registration(c) /\ handler[c] = "none"
    BY <1>1 DEF Rest, Registrations, Registration, Connect
  <2>2. /\ handler'[c] = "sending"
        /\ held'[c] = [kind |-> "connected", client |-> c, call |-> 0]
        /\ conn'[c] = "up"
        /\ \A d \in Clients \ {c} :
             handler'[d] = handler[d] /\ held'[d] = held[d] /\ conn'[d] = conn[d]
        /\ UNCHANGED <<toServer, loop, call, active>>
    BY <1>1 DEF Connect, TypeOK, loopVars
  <2>3. held'[c] \in Message
    BY <2>2, TasksAssumption DEF Message
  <2>4. Fresh(c) /\ ~ Registered(c)'
    BY <2>1, <2>2 DEF Fresh, Registered
  <2>5. QED
    BY <2>2, <2>3, <2>4, RestHandlerMoves
<1>2. ASSUME NEW c \in Clients, Disconnect(c) PROVE Rest'
  <2>1. \A d \in Clients : conn'[d] = "none" => conn[d] = "none"
    BY <1>2 DEF Disconnect, TypeOK
  <2>2. UNCHANGED <<handler, held, toServer, loop, call, active>>
    BY <1>2 DEF Disconnect, loopVars
  <2>3. QED
    BY <2>1, <2>2, RestElsewhere
<1>3. ASSUME NEW c \in Clients, Submit(c) PROVE Rest'
  <2>1. /\ handler[c] = "sending" /\ held[c] \in Message
        /\ held[c].client = c
        /\ \/ held[c].kind = "connected" /\ held[c].call = 0
           \/ held[c].kind = "client" /\ held[c].call # 0
    BY <1>3 DEF Submit, Rest, HeldMessages
  <2>2. /\ \A d \in Clients \ {c} :
             handler'[d] = handler[d] /\ held'[d] = held[d]
        /\ UNCHANGED <<loop, call, active, conn>>
    BY <1>3 DEF Submit, TypeOK, loopVars, clientVars
  <2>3. CASE LoopGone
    <3>1. handler'[c] = "panicked" /\ toServer' = toServer
      BY <1>3, <2>3 DEF Submit, TypeOK
    <3>2. ~ Fresh(c)' /\ ~ Registered(c)'
      BY <3>1 DEF Fresh, Registered
    <3>3. Registration(c)
      BY DEF Rest, Registrations
    <3>4. conn'[c] # "none"
      BY <2>1, <2>2, <3>3 DEF Registration
    <3>5. QED
      BY <2>2, <3>1, <3>2, <3>4, RestHandlerMoves
  <2>4. CASE ~ LoopGone
    <3>1. handler'[c] = "reading" /\ toServer' = Append(toServer, held[c])
      BY <1>3, <2>4 DEF Submit, TypeOK
    <3>2. PICK m \in Message : m = held[c]
      BY <2>1
    <3>3. \/ m.kind = "connected" /\ m.call = 0 /\ Fresh(c)
          \/ m.kind = "client" /\ m.call # 0 /\ Registered(c)
      BY <2>1, <3>2 DEF Fresh, Registered
    <3>4. /\ m.client = c /\ toServer' = Append(toServer, m)
          /\ handler'[c] \notin {"none", "sending"} /\ handler[c] # "none"
      BY <2>1, <3>1, <3>2
    <3>5. QED
      BY <2>2, <2>4, <3>3, <3>4, RestMessageQueued
  <2>5. QED
    BY <2>3, <2>4
<1>4. ASSUME NEW c \in Clients, Read(c) PROVE Rest'
  <2>1. Head(up[c]) \in 1 .. MaxCalls
    BY <1>4, TakenFromOne DEF Read, TypeOK
  <2>2. /\ handler[c] = "reading" /\ handler'[c] = "sending"
        /\ held'[c] = [kind |-> "client", client |-> c, call |-> Head(up[c])]
        /\ \A d \in Clients \ {c} :
             handler'[d] = handler[d] /\ held'[d] = held[d] /\ conn'[d] = conn[d]
        /\ UNCHANGED <<toServer, loop, call, active, conn>>
    BY <1>4 DEF Read, TypeOK, loopVars, clientVars
  <2>3. held'[c] \in Message /\ held'[c].call # 0
    BY <2>1, <2>2, TasksAssumption DEF Message
  <2>4. ~ Fresh(c)' /\ Registered(c)
    BY <2>2 DEF Fresh, Registered
  <2>5. conn'[c] # "none"
    BY <2>2 DEF Rest, Registrations, Registration
  <2>6. QED
    BY <2>2, <2>3, <2>4, <2>5, RestHandlerMoves
<1>5. ASSUME NEW c \in Clients, ReadEnd(c) PROVE Rest'
  <2>1. /\ handler[c] = "reading" /\ handler'[c] \in {"leaving"}
        /\ \A d \in Clients \ {c} :
             handler'[d] = handler[d] /\ held'[d] = held[d] /\ conn'[d] = conn[d]
        /\ UNCHANGED <<toServer, loop, call, active, conn>>
    BY <1>5 DEF ReadEnd, TypeOK, loopVars, clientVars
  <2>2. ~ Fresh(c)' /\ Registered(c)
    BY <2>1 DEF Fresh, Registered
  <2>3. conn'[c] # "none"
    BY <2>1 DEF Rest, Registrations, Registration
  <2>4. QED
    BY <2>1, <2>2, <2>3, RestHandlerMoves
<1>25. ASSUME NEW c \in Clients, ReadPing(c) PROVE Rest'
  <2>1. /\ handler[c] = "reading" /\ handler'[c] = "abandoned"
        /\ \A d \in Clients \ {c} :
             handler'[d] = handler[d] /\ held'[d] = held[d] /\ conn'[d] = conn[d]
        /\ UNCHANGED <<toServer, loop, call, active, conn>>
    BY <1>25 DEF ReadPing, TypeOK, loopVars, clientVars
  <2>2. ~ Fresh(c)' /\ ~ Registered(c)'
    BY <2>1 DEF Fresh, Registered
  <2>3. conn'[c] # "none"
    BY <2>1 DEF Rest, Registrations, Registration
  <2>4. QED
    BY <2>1, <2>2, <2>3, RestHandlerMoves
<1>6. ASSUME NEW c \in Clients, Leave(c) PROVE Rest'
  <2>1. /\ handler[c] = "leaving" /\ handler'[c] = "stopping"
        /\ \A d \in Clients \ {c} :
             handler'[d] = handler[d] /\ held'[d] = held[d] /\ conn'[d] = conn[d]
        /\ UNCHANGED <<loop, call, active, conn>>
    BY <1>6 DEF Leave, TypeOK, loopVars, clientVars
  <2>2. ~ Fresh(c)' /\ ~ Registered(c)'
    BY <2>1 DEF Fresh, Registered
  <2>3. conn'[c] # "none"
    BY <2>1 DEF Rest, Registrations, Registration
  <2>4. CASE LoopGone
    <3>1. toServer' = toServer
      BY <1>6, <2>4 DEF Leave
    <3>2. QED
      BY <2>1, <2>2, <2>3, <3>1, RestHandlerMoves
  <2>5. CASE ~ LoopGone
    <3>1. toServer' = Append(toServer,
                             [kind |-> "closed", client |-> c, call |-> 0])
      BY <1>6, <2>5 DEF Leave
    <3>2. PICK m \in Message : m = [kind |-> "closed", client |-> c, call |-> 0]
      <4>1. [kind |-> "closed", client |-> c, call |-> 0] \in Message
        BY TasksAssumption DEF Message
      <4>2. QED
        BY <4>1, Zenon
    <3>3. m.kind = "closed" /\ m.client = c /\ toServer' = Append(toServer, m)
      BY <3>1, <3>2
    <3>4. QED
      BY <2>1, <2>2, <2>5, <3>3, RestMessageQueued
  <2>6. QED
    BY <2>4, <2>5
<1>7. ASSUME NEW c \in Clients, StopTasks(c) PROVE Rest'
  <2>1. /\ handler[c] = "stopping" /\ handler'[c] \in {"joining", "panicked"}
        /\ \A d \in Clients \ {c} :
             handler'[d] = handler[d] /\ held'[d] = held[d] /\ conn'[d] = conn[d]
        /\ UNCHANGED <<toServer, loop, call, active, conn>>
    BY <1>7 DEF StopTasks, TypeOK, loopVars, clientVars
  <2>2. ~ Fresh(c)' /\ ~ Registered(c)'
    BY <2>1 DEF Fresh, Registered
  <2>3. conn'[c] # "none"
    BY <2>1 DEF Rest, Registrations, Registration
  <2>4. QED
    BY <2>1, <2>2, <2>3, RestHandlerMoves
<1>8. ASSUME NEW c \in Clients, Join(c) PROVE Rest'
  <2>1. /\ handler[c] = "joining" /\ handler'[c] \in {"closed", "panicked"}
        /\ \A d \in Clients \ {c} :
             handler'[d] = handler[d] /\ held'[d] = held[d] /\ conn'[d] = conn[d]
        /\ UNCHANGED <<toServer, loop, call, active, conn>>
    BY <1>8 DEF Join, TypeOK, loopVars, clientVars
  <2>2. ~ Fresh(c)' /\ ~ Registered(c)'
    BY <2>1 DEF Fresh, Registered
  <2>3. conn'[c] # "none"
    BY <2>1 DEF Rest, Registrations, Registration
  <2>4. QED
    BY <2>1, <2>2, <2>3, RestHandlerMoves
<1>9. ASSUME NEW c \in Clients, Invoke(c) PROVE Rest'
  BY <1>9, RestElsewhere DEF Invoke, clientVars, taskVars, loopVars
<1>10. ASSUME NEW c \in Clients, TakeReply(c) PROVE Rest'
  BY <1>10, RestElsewhere DEF TakeReply, clientVars, taskVars, loopVars
<1>11. ASSUME NEW c \in Clients, Write(c) PROVE Rest'
  BY <1>11, RestElsewhere DEF Write, clientVars, taskVars, loopVars
<1>26. ASSUME NEW c \in Clients, FailWriter(c) PROVE Rest'
  BY <1>26, RestElsewhere DEF FailWriter, clientVars, taskVars, loopVars
<1>12. ASSUME NEW c \in Clients, StopWriter(c) PROVE Rest'
  BY <1>12, RestElsewhere DEF StopWriter, clientVars, taskVars, loopVars
<1>13. ASSUME NEW c \in Clients, StopBcaster(c) PROVE Rest'
  BY <1>13, RestElsewhere DEF StopBcaster, clientVars, taskVars, loopVars
<1>14. ASSUME NEW c \in Clients, Forward(c) PROVE Rest'
  BY <1>14, RestElsewhere DEF Forward, clientVars, taskVars, loopVars
<1>15. ASSUME NEW c \in Clients, StopForwarder(c) PROVE Rest'
  BY <1>15, RestElsewhere DEF StopForwarder, clientVars, taskVars, loopVars
<1>16. CASE Take
  BY <1>16, RestTake
<1>17. CASE Answer
  BY <1>17, RestAnswer
<1>18. CASE StopLoop
  BY <1>18, RestStopLoop
<1>19. CASE Shutdown
  BY <1>19, RestElsewhere DEF Shutdown, clientVars, loopVars
<1>20. CASE Watch
  BY <1>20, RestElsewhere DEF Watch, clientVars, loopVars
<1>21. CASE StopAcceptor
  BY <1>21, RestElsewhere DEF StopAcceptor, clientVars, loopVars
<1>22. CASE Return
  BY <1>22, RestElsewhere DEF Return, clientVars, loopVars
<1>23. CASE UNCHANGED vars
  BY <1>23, RestElsewhere DEF vars, clientVars, loopVars
<1>24. QED
  BY <1>1, <1>2, <1>3, <1>4, <1>5, <1>6, <1>7, <1>8, <1>9,
     <1>10, <1>11, <1>12, <1>13, <1>14, <1>15, <1>16, <1>17, <1>18,
     <1>19, <1>20, <1>21, <1>22, <1>23, <1>25, <1>26
  DEF Next, ClientStep, HandlerStep, TaskStep

-----------------------------------------------------------------------------
(* The calls in the loop's queue. *)

(* What message m adds to the calls of c.                                *)
Queue(c, q, m) ==
  IF m.kind = "client" /\ m.client = c THEN Append(q, m.call) ELSE q

(* The calls of c in the messages q, after those of d. *)
Calls(c, d, q) == FoldLeft(LAMBDA p, m : Queue(c, p, m), d, q)

(* A set of numbers with 0 and every successor of its members has them all.*)
LEMMA NatSets ==
  ASSUME NEW T \in SUBSET Nat, 0 \in T, \A n \in T : n + 1 \in T
  PROVE  T = Nat
<1> DEFINE N == Nat \ T
<1>1. SUFFICES ASSUME N # {} PROVE FALSE
  OBVIOUS
<1>2. PICK m \in N : \A k \in N : <<k, m>> \notin OpToRel(<, Nat)
  BY <1>1, WFMin, NatLessThanWellFounded, Zenon
<1>3. \A k \in N : ~ (k < m)
  BY <1>2, Zenon DEF OpToRel
<1>4. m - 1 \in Nat /\ m - 1 < m /\ (m - 1) + 1 = m
  OBVIOUS
<1>5. (m - 1) + 1 \in T
  BY <1>3, <1>4
<1> QED
  BY <1>4, <1>5

LEMMA MaxLast ==
  ASSUME NEW k \in Nat, NEW s \in SUBSET (1 .. k)
  PROVE  Max(s \cup {k + 1}) = k + 1
<1> DEFINE T == s \cup {k + 1}
<1>1. k + 1 \in T /\ \A y \in T : k + 1 >= y
  OBVIOUS
<1>2. \A x \in T : (\A y \in T : x >= y) => x = k + 1
  OBVIOUS
<1>3. Max(T) = CHOOSE x \in T : \A y \in T : x >= y
  BY Zenon DEF Max
<1> HIDE DEF T
<1>4. Max(T) \in T /\ \A y \in T : Max(T) >= y
  BY <1>1, <1>3
<1> QED
  BY <1>2, <1>4 DEF T

(* f goes through the queues that the first n messages of q make.        *)
Steps(c, f, q, n) == \A i \in 1 .. n : f[i] = Queue(c, f[i - 1], q[i])

(* The queues that d goes through with the messages of q. *)
Run(c, f, d, q) == f[0] = d /\ Steps(c, f, q, Len(q))

(* A fold is the last of them.  FoldLeft is a recursive function on the  *)
(* sets of places, so there is one to be shown for longer and longer     *)
(* prefixes.                                                             *)
LEMMA FoldRun ==
  ASSUME NEW c, NEW V, NEW d, NEW q \in Seq(V)
  PROVE  \E f : Run(c, f, d, q) /\ Calls(c, d, q) = f[Len(q)]
<1> DEFINE Body(g, s) ==
             IF s = {} THEN d ELSE Queue(c, g[s \ {Max(s)}], q[Max(s)])
           Iter(g, k) == g = [s \in SUBSET (1 .. k) |-> Body(g, s)]
           T == {k \in Nat : \E g : Iter(g, k)}
<1>1. 0 \in T
  <2> DEFINE g == [s \in SUBSET (1 .. 0) |-> d]
  <2>1. Iter(g, 0)
    OBVIOUS
  <2> QED
    BY <2>1
<1>2. ASSUME NEW k \in T
      PROVE  k + 1 \in T
  <2>1. PICK g : Iter(g, k)
    OBVIOUS
  <2> DEFINE h == [s \in SUBSET (1 .. k + 1) |->
                     IF k + 1 \in s THEN Queue(c, g[s \ {k + 1}], q[k + 1])
                     ELSE g[s]]
  <2>2. \A s \in SUBSET (1 .. k + 1) : s \ {k + 1} \in SUBSET (1 .. k)
    OBVIOUS
  <2>3. ASSUME NEW s \in SUBSET (1 .. k + 1)
        PROVE  h[s] = Body(h, s)
    <3>1. CASE k + 1 \in s
      <4>1. s = (s \ {k + 1}) \cup {k + 1}
        BY <3>1
      <4>2. Max(s) = k + 1
        BY <2>2, <4>1, MaxLast
      <4>3. h[s \ {k + 1}] = g[s \ {k + 1}]
        BY <2>2
      <4> QED
        BY <3>1, <4>2, <4>3
    <3>2. CASE k + 1 \notin s
      <4>1. s \in SUBSET (1 .. k)
        BY <3>2
      <4>2. /\ s \ {Max(s)} \in SUBSET (1 .. k)
            /\ s \ {Max(s)} \in SUBSET (1 .. k + 1)
        BY <4>1
      <4>3. h[s \ {Max(s)}] = g[s \ {Max(s)}]
        BY <4>2
      <4>4. g[s] = Body(g, s)
        BY <2>1, <4>1
      <4> QED
        BY <3>2, <4>3, <4>4
    <3> QED
      BY <3>1, <3>2
  <2>4. Iter(h, k + 1)
    BY <2>3
  <2>5. k + 1 \in Nat
    OBVIOUS
  <2> HIDE DEF h, Iter
  <2> QED
    BY <2>4, <2>5
<1> HIDE DEF T
<1>3. T = Nat
  BY <1>1, <1>2, NatSets DEF T
<1> DEFINE n == Len(q)
           iter == CHOOSE g : g = [s \in SUBSET DOMAIN q |-> Body(g, s)]
<1>4. n \in Nat /\ DOMAIN q = 1 .. n
  OBVIOUS
<1>5. Iter(iter, n)
  <2>1. \E g : Iter(g, n)
    BY <1>3, <1>4 DEF T
  <2> QED
    BY <1>4, <2>1
<1>6. Calls(c, d, q) = iter[1 .. n]
  BY <1>4 DEF Calls, FoldLeft, MapThenFoldSet
<1> HIDE DEF iter, n
<1> DEFINE f == [i \in 0 .. n |-> iter[1 .. i]]
<1>7. f[0] = d
  <2>1. 1 .. 0 = {} /\ {} \in SUBSET (1 .. n) /\ 0 \in 0 .. n
    BY <1>4
  <2>2. iter[{}] = Body(iter, {})
    BY <1>5, <2>1
  <2> QED
    BY <2>1, <2>2
<1>8. ASSUME NEW i \in 1 .. n
      PROVE  f[i] = Queue(c, f[i - 1], q[i])
  <2>1. /\ i \in 0 .. n /\ i - 1 \in 0 .. n
        /\ i - 1 \in Nat /\ (i - 1) + 1 = i /\ i \in Nat
    BY <1>4
  <2>2. /\ 1 .. i \in SUBSET (1 .. n) /\ 1 .. i # {}
        /\ (1 .. i) \ {i} = 1 .. (i - 1)
        /\ (1 .. (i - 1)) \cup {i} = 1 .. i
    <3>1. \A k \in 1 .. i : k \in 1 .. n
      BY <1>4
    <3>2. i \in 1 .. i
      BY <2>1
    <3>3. (1 .. i) \ {i} = 1 .. (i - 1)
      BY <2>1
    <3>4. (1 .. (i - 1)) \cup {i} = 1 .. i
      BY <2>1
    <3> QED
      BY <3>1, <3>2, <3>3, <3>4
  <2> DEFINE s == 1 .. (i - 1)
  <2>3. s \in SUBSET (1 .. (i - 1))
    OBVIOUS
  <2>4. Max(1 .. i) = i
    <3> HIDE DEF s
    <3>1. Max(s \cup {(i - 1) + 1}) = (i - 1) + 1
      BY <2>1, <2>3, MaxLast
    <3> QED
      BY <3>1, <2>1, <2>2 DEF s
  <2>5. iter[1 .. i] = Body(iter, 1 .. i)
    BY <1>5, <2>2
  <2> QED
    BY <2>1, <2>2, <2>4, <2>5
<1>9. f[n] = iter[1 .. n]
  BY <1>4
<1> HIDE DEF f
<1>10. Run(c, f, d, q) /\ Calls(c, d, q) = f[Len(q)]
  BY <1>6, <1>7, <1>8, <1>9 DEF n, Run, Steps
<1> QED
  BY <1>10

(* The same messages take equal queues to equal queues. *)
LEMMA RunUnique ==
  ASSUME NEW c, NEW n \in Nat, NEW f, NEW g, NEW q, f[0] = g[0],
         Steps(c, f, q, n), Steps(c, g, q, n)
  PROVE  f[n] = g[n]
<1> DEFINE T == {k \in Nat : k <= n => f[k] = g[k]}
<1>1. 0 \in T
  OBVIOUS
<1>2. ASSUME NEW k \in T
      PROVE  k + 1 \in T
  <2>1. CASE k + 1 <= n
    <3>1. k + 1 \in 1 .. n /\ (k + 1) - 1 = k /\ k <= n
      BY <2>1
    <3>2. f[k] = g[k]
      BY <3>1
    <3>3. /\ f[k + 1] = Queue(c, f[(k + 1) - 1], q[k + 1])
          /\ g[k + 1] = Queue(c, g[(k + 1) - 1], q[k + 1])
      BY <3>1 DEF Steps
    <3>4. f[k + 1] = g[k + 1]
      BY <3>1, <3>2, <3>3
    <3> QED
      BY <3>4
  <2> QED
    BY <2>1
<1> HIDE DEF T
<1>3. T = Nat
  BY <1>1, <1>2, NatSets DEF T
<1> QED
  BY <1>3 DEF T

LEMMA FoldNone ==
  ASSUME NEW c, NEW d
  PROVE  Calls(c, d, <<>>) = d
<1>1. <<>> \in Seq(Nat) /\ Len(<<>>) = 0
  OBVIOUS
<1>2. \E f : Run(c, f, d, <<>>) /\ Calls(c, d, <<>>) = f[0]
  BY <1>1, FoldRun
<1> QED
  BY <1>2 DEF Run

(* The last message is applied last, ... *)
LEMMA FoldLast ==
  ASSUME NEW c, NEW V, NEW d, NEW q \in Seq(V), NEW m \in V
  PROVE  Calls(c, d, Append(q, m)) = Queue(c, Calls(c, d, q), m)
<1> DEFINE r == Append(q, m)
           n == Len(q)
<1>1. /\ r \in Seq(V) /\ Len(r) = n + 1 /\ n \in Nat /\ r[n + 1] = m
      /\ \A i \in 1 .. n : r[i] = q[i]
  OBVIOUS
<1>2. PICK f : Run(c, f, d, q) /\ Calls(c, d, q) = f[n]
  BY FoldRun
<1> HIDE DEF r
<1>3. PICK g : Run(c, g, d, r) /\ Calls(c, d, r) = g[Len(r)]
  BY <1>1, FoldRun
<1> HIDE DEF n
<1>4. f[0] = g[0]
  BY <1>2, <1>3 DEF Run
<1>5. Steps(c, f, q, n) /\ Steps(c, g, q, n)
  BY <1>1, <1>2, <1>3 DEF Run, Steps, n
<1>6. f[n] = g[n]
  <2>1. n \in Nat
    BY <1>1
  <2> QED
    BY <1>4, <1>5, <2>1, RunUnique
<1>7. g[n + 1] = Queue(c, g[(n + 1) - 1], r[n + 1]) /\ (n + 1) - 1 = n
  BY <1>1, <1>3 DEF Run, Steps
<1>8. Calls(c, d, r) = Queue(c, Calls(c, d, q), m)
  BY <1>1, <1>2, <1>3, <1>6, <1>7
<1> QED
  BY <1>8 DEF r

(* ... the first one first. *)
LEMMA FoldFirst ==
  ASSUME NEW c, NEW V, NEW d, NEW q \in Seq(V), q # <<>>
  PROVE  Calls(c, d, q) = Calls(c, Queue(c, d, Head(q)), Tail(q))
<1> DEFINE r == Tail(q)
           e == Queue(c, d, Head(q))
           n == Len(r)
<1>1. /\ r \in Seq(V) /\ n \in Nat /\ Len(q) = n + 1 /\ Head(q) = q[1]
      /\ \A i \in 1 .. n : r[i] = q[i + 1]
  OBVIOUS
<1>2. PICK f : Run(c, f, d, q) /\ Calls(c, d, q) = f[Len(q)]
  BY FoldRun
<1> HIDE DEF r, e
<1>3. PICK g : Run(c, g, e, r) /\ Calls(c, e, r) = g[Len(r)]
  BY <1>1, FoldRun
<1> HIDE DEF n
<1> DEFINE h == [i \in 0 .. n |-> f[i + 1]]
<1>4. h[0] = g[0]
  <2>1. f[0] = d /\ f[1] = Queue(c, f[0], q[1])
    <3>1. 1 \in 1 .. Len(q) /\ 1 - 1 = 0
      BY <1>1
    <3>2. f[1] = Queue(c, f[1 - 1], q[1])
      BY <1>2, <3>1 DEF Run, Steps
    <3> QED
      BY <1>2, <3>1, <3>2 DEF Run
  <2>2. h[0] = f[1]
    BY <1>1
  <2> QED
    BY <1>1, <1>3, <2>1, <2>2 DEF Run, e
<1>5. ASSUME NEW i \in 1 .. n
      PROVE  /\ h[i] = Queue(c, h[i - 1], r[i])
             /\ g[i] = Queue(c, g[i - 1], r[i])
  <2>1. /\ i + 1 \in 1 .. Len(q) /\ (i + 1) - 1 = i /\ (i - 1) + 1 = i
        /\ i \in 0 .. n /\ i - 1 \in 0 .. n
    BY <1>1
  <2>2. f[i + 1] = Queue(c, f[(i + 1) - 1], q[i + 1])
    BY <1>2, <2>1 DEF Run, Steps
  <2>3. h[i] = f[i + 1] /\ h[i - 1] = f[i]
    BY <2>1
  <2>4. g[i] = Queue(c, g[i - 1], r[i])
    BY <1>3 DEF Run, Steps, n
  <2> QED
    BY <1>1, <2>1, <2>2, <2>3, <2>4
<1>6. h[n] = f[n + 1]
  BY <1>1
<1> HIDE DEF h
<1>7. h[n] = g[n]
  <2>1. Steps(c, h, r, n) /\ Steps(c, g, r, n) /\ n \in Nat
    BY <1>1, <1>5 DEF Steps
  <2> QED
    BY <1>4, <2>1, RunUnique
<1>8. Calls(c, d, q) = Calls(c, e, r)
  BY <1>1, <1>2, <1>3, <1>6, <1>7 DEF n
<1> QED
  BY <1>8 DEF e, r

(* Two queues, one after the other. *)
LEMMA ConcatIs ==
  ASSUME NEW s \in Seq(Nat), NEW t \in Seq(Nat)
  PROVE  /\ s \o t \in Seq(Nat) /\ Len(s \o t) = Len(s) + Len(t)
         /\ \A i \in 1 .. Len(s) + Len(t) :
              (s \o t)[i] = IF i <= Len(s) THEN s[i] ELSE t[i - Len(s)]
  BY ConcatProperties

(* What is added to the second queue is added to both. *)
LEMMA ConcatAppend ==
  ASSUME NEW d \in Seq(Nat), NEW r \in Seq(Nat), NEW x \in Nat
  PROVE  d \o Append(r, x) = Append(d \o r, x)
<1>1. /\ Append(r, x) \in Seq(Nat) /\ Len(Append(r, x)) = Len(r) + 1
      /\ Append(r, x)[Len(r) + 1] = x
      /\ \A i \in 1 .. Len(r) : Append(r, x)[i] = r[i]
  OBVIOUS
<1> PICK q \in Seq(Nat) : q = Append(r, x)
  BY <1>1, Zenon
<1>2. /\ d \o r \in Seq(Nat) /\ Len(d \o r) = Len(d) + Len(r)
      /\ \A i \in 1 .. Len(d) + Len(r) :
           (d \o r)[i] = IF i <= Len(d) THEN d[i] ELSE r[i - Len(d)]
  BY ConcatIs, Zenon
<1> PICK e \in Seq(Nat) : e = d \o r
  BY <1>2, Zenon
<1>3. /\ d \o q \in Seq(Nat) /\ Len(d \o q) = Len(d) + Len(q)
      /\ \A i \in 1 .. Len(d) + Len(q) :
           (d \o q)[i] = IF i <= Len(d) THEN d[i] ELSE q[i - Len(d)]
  BY ConcatIs, Zenon
<1> PICK f \in Seq(Nat) : f = d \o q
  BY <1>3, Zenon
<1>4. /\ Append(e, x) \in Seq(Nat) /\ Len(Append(e, x)) = Len(e) + 1
      /\ Append(e, x)[Len(e) + 1] = x
      /\ \A i \in 1 .. Len(e) : Append(e, x)[i] = e[i]
  OBVIOUS
<1> PICK g \in Seq(Nat) : g = Append(e, x)
  BY <1>4, Zenon
<1>5. Len(d) \in Nat /\ Len(r) \in Nat
  OBVIOUS
<1>6. Len(f) = Len(g)
  BY <1>1, <1>2, <1>3, <1>4, <1>5
<1>7. ASSUME NEW i \in 1 .. Len(f)
      PROVE  f[i] = g[i]
  <2>1. i \in 1 .. Len(d) + Len(r) + 1
    BY <1>1, <1>3, <1>5
  <2>2. CASE i <= Len(d)
    <3>1. i \in 1 .. Len(e)
      BY <1>2, <1>5, <2>1, <2>2
    <3> QED
      BY <1>1, <1>2, <1>3, <1>4, <1>5, <2>2, <3>1
  <2>3. CASE ~ (i <= Len(d)) /\ i <= Len(d) + Len(r)
    <3>1. i \in 1 .. Len(e) /\ i - Len(d) \in 1 .. Len(r)
      BY <1>2, <1>5, <2>1, <2>3
    <3>2. g[i] = r[i - Len(d)]
      BY <1>2, <1>4, <2>3, <3>1
    <3>3. f[i] = q[i - Len(d)]
      BY <1>3, <2>3
    <3> QED
      BY <1>1, <3>1, <3>2, <3>3
  <2>4. CASE i = Len(d) + Len(r) + 1
    <3>1. ~ (i <= Len(d)) /\ i - Len(d) = Len(r) + 1 /\ i = Len(e) + 1
      BY <1>2, <1>5, <2>4
    <3>2. g[i] = x
      BY <1>4, <3>1
    <3>3. f[i] = q[i - Len(d)]
      BY <1>3, <3>1
    <3> QED
      BY <1>1, <3>1, <3>2, <3>3
  <2> QED
    BY <1>5, <2>1, <2>2, <2>3, <2>4
<1>8. f = g
  BY <1>6, <1>7, SeqEqual
<1> QED
  BY <1>8

(* The calls of a queue are numbers, ... *)
LEMMA CallsType ==
  ASSUME NEW c, NEW d \in Seq(Nat), NEW q \in Seq(Message)
  PROVE  Calls(c, d, q) \in Seq(Nat)
<1>1. PICK f : Run(c, f, d, q) /\ Calls(c, d, q) = f[Len(q)]
  BY FoldRun
<1> DEFINE T == {k \in Nat : k <= Len(q) => f[k] \in Seq(Nat)}
<1>2. 0 \in T
  BY <1>1 DEF Run
<1>3. ASSUME NEW k \in T
      PROVE  k + 1 \in T
  <2>1. CASE k + 1 <= Len(q)
    <3>1. k + 1 \in 1 .. Len(q) /\ (k + 1) - 1 = k /\ k <= Len(q)
      BY <2>1
    <3>2. f[k] \in Seq(Nat) /\ q[k + 1].call \in Nat
      <4>1. q[k + 1] \in Message
        BY <3>1
      <4> QED
        BY <3>1, <4>1, TasksAssumption DEF Message
    <3>3. f[k + 1] = Queue(c, f[(k + 1) - 1], q[k + 1])
      BY <1>1, <3>1 DEF Run, Steps
    <3>4. f[k + 1] \in Seq(Nat)
      BY <3>1, <3>2, <3>3 DEF Queue
    <3> QED
      BY <3>4
  <2> QED
    BY <2>1
<1> HIDE DEF T
<1>4. T = Nat
  BY <1>2, <1>3, NatSets DEF T
<1> QED
  BY <1>1, <1>4 DEF T

(* ... those of its messages follow the ones before, ... *)
LEMMA CallsAfter ==
  ASSUME NEW c, NEW d \in Seq(Nat), NEW q \in Seq(Message)
  PROVE  Calls(c, d, q) = d \o Calls(c, <<>>, q)
<1> DEFINE e == <<>>
<1>0. e \in Seq(Nat) /\ d \o e = d
  BY ConcatEmptySeq
<1> HIDE DEF e
<1>1. PICK f : Run(c, f, d, q) /\ Calls(c, d, q) = f[Len(q)]
  BY FoldRun
<1>2. PICK g : Run(c, g, e, q) /\ Calls(c, e, q) = g[Len(q)]
  BY FoldRun
<1> DEFINE T == {k \in Nat : k <= Len(q) =>
                   g[k] \in Seq(Nat) /\ f[k] = d \o g[k]}
<1>3. 0 \in T
  BY <1>0, <1>1, <1>2 DEF Run
<1>4. ASSUME NEW k \in T
      PROVE  k + 1 \in T
  <2>1. CASE k + 1 <= Len(q)
    <3>1. k + 1 \in 1 .. Len(q) /\ (k + 1) - 1 = k /\ k <= Len(q)
      BY <2>1
    <3>2. g[k] \in Seq(Nat) /\ f[k] = d \o g[k]
      BY <3>1
    <3>3. PICK x \in Nat : x = q[k + 1].call
      <4>1. q[k + 1] \in Message
        BY <3>1
      <4> QED
        BY <4>1, TasksAssumption DEF Message
    <3>4. /\ f[k + 1] = Queue(c, f[(k + 1) - 1], q[k + 1])
          /\ g[k + 1] = Queue(c, g[(k + 1) - 1], q[k + 1])
      BY <1>1, <1>2, <3>1 DEF Run, Steps
    <3>5. Append(g[k], x) \in Seq(Nat)
            /\ Append(d \o g[k], x) = d \o Append(g[k], x)
      <4> PICK s \in Seq(Nat) : s = g[k]
        BY <3>2
      <4>1. d \o Append(s, x) = Append(d \o s, x)
        BY ConcatAppend
      <4>2. Append(s, x) \in Seq(Nat)
        OBVIOUS
      <4> QED
        BY <4>1, <4>2
    <3>6. g[k + 1] \in Seq(Nat) /\ f[k + 1] = d \o g[k + 1]
      BY <3>1, <3>2, <3>3, <3>4, <3>5 DEF Queue
    <3> QED
      BY <3>6
  <2> QED
    BY <2>1
<1> HIDE DEF T
<1>5. T = Nat
  BY <1>3, <1>4, NatSets DEF T
<1>6. Calls(c, d, q) = d \o Calls(c, e, q)
  BY <1>1, <1>2, <1>5 DEF T
<1> QED
  BY <1>6 DEF e

(* ... and those of others do not count. *)
LEMMA CallsNone ==
  ASSUME NEW c, NEW d, NEW q \in Seq(Message),
         \A i \in 1 .. Len(q) : q[i].client # c
  PROVE  Calls(c, d, q) = d
<1>1. PICK f : Run(c, f, d, q) /\ Calls(c, d, q) = f[Len(q)]
  BY FoldRun
<1> DEFINE T == {k \in Nat : k <= Len(q) => f[k] = d}
<1>2. 0 \in T
  BY <1>1 DEF Run
<1>3. ASSUME NEW k \in T
      PROVE  k + 1 \in T
  <2>1. CASE k + 1 <= Len(q)
    <3>1. k + 1 \in 1 .. Len(q) /\ (k + 1) - 1 = k /\ k <= Len(q)
      BY <2>1
    <3>2. f[k] = d /\ q[k + 1].client # c
      BY <3>1
    <3>3. f[k + 1] = Queue(c, f[(k + 1) - 1], q[k + 1])
      BY <1>1, <3>1 DEF Run, Steps
    <3>4. f[k + 1] = d
      BY <3>1, <3>2, <3>3 DEF Queue
    <3> QED
      BY <3>4
  <2> QED
    BY <2>1
<1> HIDE DEF T
<1>4. T = Nat
  BY <1>2, <1>3, NatSets DEF T
<1> QED
  BY <1>1, <1>4 DEF T

-----------------------------------------------------------------------------
(* Queues that follow one another. *)

(* What is moved from the head of one queue to the end of the one before *)
(* it keeps its place, whatever is before them.                          *)
LEMMA ShiftOne ==
  ASSUME NEW e \in Seq(Nat), NEW r \in Seq(Nat), r # <<>>
  PROVE  Append(e, Head(r)) \o Tail(r) = e \o r
<1>1. /\ Head(r) \in Nat /\ Head(r) = r[1] /\ Len(r) \in Nat \ {0}
      /\ Tail(r) \in Seq(Nat) /\ Len(Tail(r)) = Len(r) - 1
      /\ \A i \in 1 .. Len(r) - 1 : Tail(r)[i] = r[i + 1]
  OBVIOUS
<1> PICK x \in Nat : x = Head(r)
  BY <1>1, Zenon
<1> PICK t \in Seq(Nat) : t = Tail(r)
  BY <1>1, Zenon
<1>2. /\ Append(e, x) \in Seq(Nat) /\ Len(Append(e, x)) = Len(e) + 1
      /\ Append(e, x)[Len(e) + 1] = x /\ Len(e) \in Nat
      /\ \A i \in 1 .. Len(e) : Append(e, x)[i] = e[i]
  OBVIOUS
<1> PICK q \in Seq(Nat) : q = Append(e, x)
  BY <1>2, Zenon
<1>3. /\ q \o t \in Seq(Nat) /\ Len(q \o t) = Len(q) + Len(t)
      /\ \A i \in 1 .. Len(q) + Len(t) :
           (q \o t)[i] = IF i <= Len(q) THEN q[i] ELSE t[i - Len(q)]
  BY ConcatIs, Zenon
<1> PICK f \in Seq(Nat) : f = q \o t
  BY <1>3, Zenon
<1>4. /\ e \o r \in Seq(Nat) /\ Len(e \o r) = Len(e) + Len(r)
      /\ \A i \in 1 .. Len(e) + Len(r) :
           (e \o r)[i] = IF i <= Len(e) THEN e[i] ELSE r[i - Len(e)]
  BY ConcatIs, Zenon
<1> PICK g \in Seq(Nat) : g = e \o r
  BY <1>4, Zenon
<1>5. Len(f) = Len(g)
  BY <1>1, <1>2, <1>3, <1>4
<1>6. ASSUME NEW i \in 1 .. Len(f)
      PROVE  f[i] = g[i]
  <2>1. i \in 1 .. Len(e) + Len(r)
    BY <1>1, <1>2, <1>3
  <2>2. CASE i <= Len(e)
    <3>1. i \in 1 .. Len(e) /\ i <= Len(q)
      BY <1>2, <2>1, <2>2
    <3> QED
      BY <1>2, <1>3, <1>4, <2>1, <2>2, <3>1
  <2>3. CASE i = Len(e) + 1
    <3>1. i <= Len(q) /\ ~ (i <= Len(e)) /\ i - Len(e) = 1
      BY <1>2, <2>3
    <3>2. f[i] = x
      BY <1>2, <1>3, <2>3, <3>1
    <3>3. g[i] = r[1]
      BY <1>4, <2>1, <3>1
    <3> QED
      BY <1>1, <3>2, <3>3
  <2>4. CASE i > Len(e) + 1
    <3>1. /\ ~ (i <= Len(q)) /\ ~ (i <= Len(e))
          /\ i - Len(q) \in 1 .. Len(r) - 1
          /\ (i - Len(q)) + 1 = i - Len(e)
      BY <1>1, <1>2, <2>1, <2>4
    <3>2. f[i] = t[i - Len(q)]
      BY <1>3, <3>1
    <3>3. g[i] = r[i - Len(e)]
      BY <1>4, <2>1, <3>1
    <3> QED
      BY <1>1, <3>1, <3>2, <3>3
  <2>5. i \in Int /\ Len(e) \in Int
    BY <1>2, <2>1
  <2> QED
    BY <2>2, <2>3, <2>4, <2>5
<1>7. f = g
  BY <1>5, <1>6, SeqEqual
<1> QED
  BY <1>7

LEMMA Shift ==
  ASSUME NEW d \in Seq(Nat), NEW o \in Seq(Nat), NEW r \in Seq(Nat), r # <<>>
  PROVE  (d \o Append(o, Head(r))) \o Tail(r) = (d \o o) \o r
<1> PICK x \in Nat : x = Head(r)
  OBVIOUS
<1>1. d \o Append(o, x) = Append(d \o o, x)
  BY ConcatAppend
<1>2. d \o o \in Seq(Nat)
  BY ConcatIs
<1>3. Append(d \o o, Head(r)) \o Tail(r) = (d \o o) \o r
  BY <1>2, ShiftOne
<1> QED
  BY <1>1, <1>3

LEMMA ConcatTail ==
  ASSUME NEW d \in Seq(Nat), NEW r \in Seq(Nat), d # <<>>
  PROVE  /\ d \o r \in Seq(Nat) /\ d \o r # <<>>
         /\ Head(d \o r) = Head(d) /\ Tail(d \o r) = Tail(d) \o r
<1>1. /\ d \o r \in Seq(Nat) /\ Len(d \o r) = Len(d) + Len(r)
      /\ \A i \in 1 .. Len(d) + Len(r) :
           (d \o r)[i] = IF i <= Len(d) THEN d[i] ELSE r[i - Len(d)]
  BY ConcatIs, Zenon
<1> PICK e \in Seq(Nat) : e = d \o r
  BY <1>1
<1>2. Len(d) \in Nat \ {0} /\ Len(r) \in Nat
  OBVIOUS
<1>3. e # <<>> /\ Head(e) = Head(d)
  BY <1>1, <1>2
<1>0. Tail(d) \in Seq(Nat)
  OBVIOUS
<1> PICK t \in Seq(Nat) : t = Tail(d)
  BY <1>0, Zenon
<1>4. Len(t) = Len(d) - 1 /\ \A i \in 1 .. Len(d) - 1 : t[i] = d[i + 1]
  OBVIOUS
<1>5. /\ t \o r \in Seq(Nat) /\ Len(t \o r) = Len(t) + Len(r)
      /\ \A i \in 1 .. Len(t) + Len(r) :
           (t \o r)[i] = IF i <= Len(t) THEN t[i] ELSE r[i - Len(t)]
  BY ConcatIs, Zenon
<1>6. /\ Tail(e) \in Seq(Nat) /\ Len(Tail(e)) = Len(e) - 1
      /\ \A i \in 1 .. Len(e) - 1 : Tail(e)[i] = e[i + 1]
  BY <1>3
<1>7. Len(Tail(e)) = Len(t \o r)
  BY <1>1, <1>2, <1>4, <1>5, <1>6
<1>8. ASSUME NEW i \in 1 .. Len(Tail(e))
      PROVE  Tail(e)[i] = (t \o r)[i]
  <2>1. /\ i \in 1 .. Len(t) + Len(r) /\ i + 1 \in 1 .. Len(d) + Len(r)
        /\ i <= Len(t) <=> i + 1 <= Len(d)
        /\ i - Len(t) = (i + 1) - Len(d)
        /\ i \in 1 .. Len(e) - 1
    BY <1>1, <1>2, <1>4, <1>6
  <2>2. Tail(e)[i] = IF i + 1 <= Len(d) THEN d[i + 1] ELSE r[(i + 1) - Len(d)]
    BY <1>1, <1>6, <2>1
  <2>3. (t \o r)[i] = IF i <= Len(t) THEN t[i] ELSE r[i - Len(t)]
    BY <1>5, <2>1
  <2>4. CASE i <= Len(t)
    <3>1. i \in 1 .. Len(d) - 1
      BY <1>2, <1>4, <2>4
    <3> QED
      BY <1>4, <2>1, <2>2, <2>3, <2>4, <3>1
  <2>5. CASE ~ (i <= Len(t))
    BY <2>1, <2>2, <2>3, <2>5
  <2> QED
    BY <2>4, <2>5
<1>9. Tail(e) = t \o r
  BY <1>5, <1>6, <1>7, <1>8, SeqEqual
<1> QED
  BY <1>1, <1>3, <1>9

(* Numbers in order stay in order when a larger one is added ... *)
LEMMA OrderAppend ==
  ASSUME NEW q \in Seq(Nat), NEW x \in Nat, InOrder(q),
         \A y \in ToSet(q) : y < x
  PROVE  InOrder(Append(q, x)) /\ ToSet(Append(q, x)) = ToSet(q) \cup {x}
<1>1. /\ DOMAIN q = 1 .. Len(q) /\ Len(q) \in Nat
      /\ Append(q, x) \in Seq(Nat)
      /\ DOMAIN Append(q, x) = 1 .. Len(q) + 1
      /\ Len(Append(q, x)) = Len(q) + 1
      /\ Append(q, x)[Len(q) + 1] = x
      /\ \A i \in 1 .. Len(q) : Append(q, x)[i] = q[i]
  OBVIOUS
<1> PICK r \in Seq(Nat) : r = Append(q, x)
  BY <1>1
<1>2. \A i \in 1 .. Len(q) + 1 : i \in 1 .. Len(q) \/ i = Len(q) + 1
  BY <1>1
<1>3. \A i \in 1 .. Len(q) : q[i] < x
  BY <1>1 DEF ToSet
<1>4. InOrder(r)
  <2>1. SUFFICES ASSUME NEW i \in 1 .. Len(q) + 1, NEW j \in 1 .. Len(q) + 1,
                        i < j
                 PROVE  r[i] < r[j]
    BY <1>1 DEF InOrder
  <2>2. i \in 1 .. Len(q)
    BY <1>1, <2>1
  <2>3. CASE j = Len(q) + 1
    BY <1>1, <1>3, <2>2, <2>3
  <2>4. CASE j \in 1 .. Len(q)
    BY <1>1, <2>1, <2>2, <2>4 DEF InOrder
  <2> QED
    BY <1>2, <2>3, <2>4
<1>5. ToSet(r) = ToSet(q) \cup {x}
  <2>1. ASSUME NEW y \in ToSet(r)
        PROVE  y \in ToSet(q) \cup {x}
    <3>1. PICK i \in 1 .. Len(q) + 1 : y = r[i]
      BY <1>1 DEF ToSet
    <3> QED
      BY <1>1, <1>2, <3>1 DEF ToSet
  <2>2. ASSUME NEW y \in ToSet(q)
        PROVE  y \in ToSet(r)
    <3>1. PICK i \in 1 .. Len(q) : y = q[i]
      BY <1>1 DEF ToSet
    <3>2. i \in DOMAIN r
      BY <1>1
    <3> QED
      BY <1>1, <3>1, <3>2 DEF ToSet
  <2>3. x \in ToSet(r)
    <3>1. Len(q) + 1 \in DOMAIN r
      BY <1>1
    <3> QED
      BY <1>1, <3>1 DEF ToSet
  <2> QED
    BY <2>1, <2>2, <2>3
<1> QED
  BY <1>4, <1>5

(* ... and when the first is taken away, which is in no other place.     *)
LEMMA OrderTail ==
  ASSUME NEW q \in Seq(Nat), q # <<>>, InOrder(q)
  PROVE  InOrder(Tail(q)) /\ ToSet(Tail(q)) = ToSet(q) \ {Head(q)}
<1>1. /\ DOMAIN q = 1 .. Len(q) /\ Len(q) \in Nat \ {0} /\ Head(q) = q[1]
      /\ Tail(q) \in Seq(Nat)
      /\ DOMAIN Tail(q) = 1 .. Len(q) - 1
      /\ Len(Tail(q)) = Len(q) - 1
      /\ \A i \in 1 .. Len(q) - 1 : Tail(q)[i] = q[i + 1]
  OBVIOUS
<1> PICK r \in Seq(Nat) : r = Tail(q)
  BY <1>1
<1>2. \A i \in 1 .. Len(q) - 1 :
        i + 1 \in 1 .. Len(q) /\ 1 \in 1 .. Len(q) /\ 1 < i + 1
  BY <1>1
<1>3. InOrder(r)
  <2>1. SUFFICES ASSUME NEW i \in 1 .. Len(q) - 1, NEW j \in 1 .. Len(q) - 1,
                        i < j
                 PROVE  r[i] < r[j]
    BY <1>1 DEF InOrder
  <2>2. i + 1 < j + 1
    BY <2>1
  <2>3. q[i + 1] < q[j + 1]
    BY <1>2, <2>2 DEF InOrder
  <2> QED
    BY <1>1, <2>3
<1>4. ToSet(r) = ToSet(q) \ {Head(q)}
  <2>1. ASSUME NEW y \in ToSet(r)
        PROVE  y \in ToSet(q) \ {Head(q)}
    <3>1. PICK i \in 1 .. Len(q) - 1 : y = q[i + 1]
      BY <1>1 DEF ToSet
    <3>2. q[1] < q[i + 1] /\ q[1] \in Nat
      BY <1>1, <1>2 DEF InOrder
    <3>3. y # Head(q)
      BY <1>1, <3>1, <3>2
    <3>4. i + 1 \in DOMAIN q
      BY <1>1, <1>2
    <3>5. y \in ToSet(q)
      BY <3>1, <3>4 DEF ToSet
    <3> QED
      BY <3>3, <3>5
  <2>2. ASSUME NEW y \in ToSet(q), y # Head(q)
        PROVE  y \in ToSet(r)
    <3>1. PICK i \in 1 .. Len(q) : y = q[i]
      BY <1>1 DEF ToSet
    <3>2. i # 1
      BY <1>1, <2>2, <3>1
    <3>3. i - 1 \in 1 .. Len(q) - 1 /\ (i - 1) + 1 = i
      BY <1>1, <3>2
    <3>4. r[i - 1] = y /\ i - 1 \in DOMAIN r
      BY <1>1, <3>1, <3>3
    <3> QED
      BY <3>4 DEF ToSet
  <2> QED
    BY <2>1, <2>2
<1> QED
  BY <1>3, <1>4

(* A queue of one call, or of none. *)
One(x) == <<x>>
None == <<>>

LEMMA OneIs ==
  ASSUME NEW x \in Nat
  PROVE  /\ One(x) \in Seq(Nat) /\ One(x) # None
         /\ Head(One(x)) = x /\ Tail(One(x)) = None
         /\ Append(None, x) = One(x)
  BY DEF One, None

LEMMA NoneIs ==
  /\ None \in Seq(Nat) /\ ToSet(None) = {} /\ InOrder(None)
  /\ \A q \in Seq(Nat) : None \o q = q /\ q \o None = q
<1>1. None \in Seq(Nat)
  BY DEF None
<1>2. ToSet(None) = {} /\ InOrder(None)
  BY DEF ToSet, None, InOrder
<1>3. \A q \in Seq(Nat) : None \o q = q /\ q \o None = q
  BY ConcatEmptySeq DEF None
<1> QED
  BY <1>1, <1>2, <1>3

(* A call joins the queue before, or leaves the queue behind. *)
LEMMA PassOn ==
  ASSUME NEW d \in Seq(Nat), NEW r \in Seq(Nat), NEW x \in Nat
  PROVE  (d \o Append(r, x)) \o None = (d \o r) \o One(x)
<1>1. PICK q \in Seq(Nat) : q = One(x) /\ q # <<>> /\ Head(q) = x
                              /\ Tail(q) = None
  BY OneIs DEF None
<1>2. (d \o Append(r, Head(q))) \o Tail(q) = (d \o r) \o q
  BY <1>1, Shift
<1> QED
  BY <1>1, <1>2

LEMMA TakeUp ==
  ASSUME NEW d \in Seq(Nat), NEW r \in Seq(Nat), r # <<>>
  PROVE  (d \o One(Head(r))) \o Tail(r) = (d \o None) \o r
<1>1. Head(r) \in Nat
  OBVIOUS
<1>2. Append(None, Head(r)) = One(Head(r))
  BY <1>1, OneIs
<1>3. (d \o Append(None, Head(r))) \o Tail(r) = (d \o None) \o r
  BY NoneIs, Shift
<1> QED
  BY <1>2, <1>3

(* Everything under way for a client is in seven queues. *)
Flow(d, o, r, k, q, h, u) == d \o o \o r \o k \o q \o h \o u

Queues(d, o, r, k, q, h, u) ==
  /\ d \in Seq(Nat) /\ o \in Seq(Nat) /\ r \in Seq(Nat) /\ k \in Seq(Nat)
  /\ q \in Seq(Nat) /\ h \in Seq(Nat) /\ u \in Seq(Nat)

LEMMA ConcatType == \A s, t \in Seq(Nat) : s \o t \in Seq(Nat)
  BY ConcatIs

(* The steps of a call through them, from the last to the first, ... *)
LEMMA FlowRead ==
  ASSUME NEW d, NEW o, NEW r, NEW k, NEW q, NEW h, NEW u,
         Queues(d, o, r, k, q, h, u), u # <<>>
  PROVE  Flow(d, o, r, k, q, One(Head(u)), Tail(u))
           = Flow(d, o, r, k, q, None, u)
<1> USE DEF Queues
<1>1. d \o o \o r \o k \o q \in Seq(Nat)
  BY ConcatType
<1> PICK p \in Seq(Nat) : p = d \o o \o r \o k \o q
  BY <1>1, Zenon
<1>2. (p \o One(Head(u))) \o Tail(u) = (p \o None) \o u
  BY TakeUp
<1> QED
  BY <1>2 DEF Flow

LEMMA FlowSubmit ==
  ASSUME NEW d, NEW o, NEW r, NEW k, NEW q, NEW h, NEW u, NEW x \in Nat,
         Queues(d, o, r, k, q, h, u)
  PROVE  Flow(d, o, r, k, Append(q, x), None, u)
           = Flow(d, o, r, k, q, One(x), u)
<1> USE DEF Queues
<1>1. d \o o \o r \o k \in Seq(Nat)
  BY ConcatType
<1> PICK p \in Seq(Nat) : p = d \o o \o r \o k
  BY <1>1, Zenon
<1>2. (p \o Append(q, x)) \o None = (p \o q) \o One(x)
  BY PassOn
<1> QED
  BY <1>2 DEF Flow

LEMMA FlowTake ==
  ASSUME NEW d \in Seq(Nat), NEW o \in Seq(Nat), NEW r \in Seq(Nat),
         NEW q \in Seq(Nat), NEW h, NEW u, q # <<>>
  PROVE  Flow(d, o, r, One(Head(q)), Tail(q), h, u)
           = Flow(d, o, r, None, q, h, u)
<1>1. d \o o \o r \in Seq(Nat)
  BY ConcatType
<1> PICK p \in Seq(Nat) : p = d \o o \o r
  BY <1>1, Zenon
<1>2. (p \o One(Head(q))) \o Tail(q) = (p \o None) \o q
  BY TakeUp
<1> QED
  BY <1>2 DEF Flow

LEMMA FlowAnswer ==
  ASSUME NEW d \in Seq(Nat), NEW o \in Seq(Nat), NEW r \in Seq(Nat),
         NEW q, NEW h, NEW u, NEW x \in Nat
  PROVE  Flow(d, o, Append(r, x), None, q, h, u)
           = Flow(d, o, r, One(x), q, h, u)
<1>1. d \o o \in Seq(Nat)
  BY ConcatType
<1> PICK p \in Seq(Nat) : p = d \o o
  BY <1>1, Zenon
<1>2. (p \o Append(r, x)) \o None = (p \o r) \o One(x)
  BY PassOn
<1> QED
  BY <1>2 DEF Flow

LEMMA FlowForward ==
  ASSUME NEW d \in Seq(Nat), NEW o \in Seq(Nat), NEW r \in Seq(Nat),
         NEW k, NEW q, NEW h, NEW u, r # <<>>
  PROVE  Flow(d, Append(o, Head(r)), Tail(r), k, q, h, u)
           = Flow(d, o, r, k, q, h, u)
<1>1. (d \o Append(o, Head(r))) \o Tail(r) = (d \o o) \o r
  BY Shift
<1> QED
  BY <1>1 DEF Flow

LEMMA FlowWrite ==
  ASSUME NEW d \in Seq(Nat), NEW o \in Seq(Nat), NEW r, NEW k, NEW q, NEW h,
         NEW u, o # <<>>
  PROVE  Flow(Append(d, Head(o)), Tail(o), r, k, q, h, u)
           = Flow(d, o, r, k, q, h, u)
<1>1. Append(d, Head(o)) \o Tail(o) = d \o o
  BY ShiftOne
<1> QED
  BY <1>1 DEF Flow

(* ... its arrival at the client, and its making. *)
LEMMA FlowReply ==
  ASSUME NEW d, NEW o, NEW r, NEW k, NEW q, NEW h, NEW u,
         Queues(d, o, r, k, q, h, u), d # <<>>
  PROVE  /\ Flow(d, o, r, k, q, h, u) # <<>>
         /\ Head(Flow(d, o, r, k, q, h, u)) = Head(d)
         /\ Flow(Tail(d), o, r, k, q, h, u)
              = Tail(Flow(d, o, r, k, q, h, u))
<1> USE DEF Queues
<1>p1. d \o o \in Seq(Nat)
  BY ConcatType
<1> PICK p1 \in Seq(Nat) : p1 = d \o o
  BY <1>p1, Zenon
<1>p2. d \o o \o r \in Seq(Nat)
  BY ConcatType
<1> PICK p2 \in Seq(Nat) : p2 = d \o o \o r
  BY <1>p2, Zenon
<1>p3. d \o o \o r \o k \in Seq(Nat)
  BY ConcatType
<1> PICK p3 \in Seq(Nat) : p3 = d \o o \o r \o k
  BY <1>p3, Zenon
<1>p4. d \o o \o r \o k \o q \in Seq(Nat)
  BY ConcatType
<1> PICK p4 \in Seq(Nat) : p4 = d \o o \o r \o k \o q
  BY <1>p4, Zenon
<1>p5. d \o o \o r \o k \o q \o h \in Seq(Nat)
  BY ConcatType
<1> PICK p5 \in Seq(Nat) : p5 = d \o o \o r \o k \o q \o h
  BY <1>p5, Zenon
<1>1. p1 # <<>> /\ Head(p1) = Head(d) /\ Tail(p1) = Tail(d) \o o
  BY ConcatTail
<1>2. p2 # <<>> /\ Head(p2) = Head(p1) /\ Tail(p2) = Tail(p1) \o r
  BY <1>1, ConcatTail
<1>3. p3 # <<>> /\ Head(p3) = Head(p2) /\ Tail(p3) = Tail(p2) \o k
  BY <1>2, ConcatTail
<1>4. p4 # <<>> /\ Head(p4) = Head(p3) /\ Tail(p4) = Tail(p3) \o q
  BY <1>3, ConcatTail
<1>5. p5 # <<>> /\ Head(p5) = Head(p4) /\ Tail(p5) = Tail(p4) \o h
  BY <1>4, ConcatTail
<1>6. p5 \o u # <<>> /\ Head(p5 \o u) = Head(p5)
        /\ Tail(p5 \o u) = Tail(p5) \o u
  BY <1>5, ConcatTail
<1> QED
  BY <1>1, <1>2, <1>3, <1>4, <1>5, <1>6 DEF Flow

LEMMA FlowType ==
  ASSUME NEW d, NEW o, NEW r, NEW k, NEW q, NEW h, NEW u,
         Queues(d, o, r, k, q, h, u)
  PROVE  Flow(d, o, r, k, q, h, u) \in Seq(Nat)
  BY ConcatType DEF Flow, Queues

LEMMA FlowInvoke ==
  ASSUME NEW d, NEW o, NEW r, NEW k, NEW q, NEW h, NEW u,
         Queues(d, o, r, k, q, h, u), NEW x \in Nat
  PROVE  /\ Flow(d, o, r, k, q, h, u) \in Seq(Nat)
         /\ Flow(d, o, r, k, q, h, Append(u, x))
              = Append(Flow(d, o, r, k, q, h, u), x)
<1> USE DEF Queues
<1>1. d \o o \o r \o k \o q \o h \in Seq(Nat)
  BY ConcatType
<1> PICK p \in Seq(Nat) : p = d \o o \o r \o k \o q \o h
  BY <1>1, Zenon
<1>2. p \o u \in Seq(Nat)
  BY ConcatType
<1>3. p \o Append(u, x) = Append(p \o u, x)
  BY ConcatAppend
<1> QED
  BY <1>2, <1>3 DEF Flow

-----------------------------------------------------------------------------
(* The order of a client's calls *)

(* The loop has a call exactly while it invokes one. *)
CallsKnown ==
  /\ loop = "invoking" <=> call # NoCall
  /\ ~ stop => loop # "stopped"

(* The tasks of a connection run while it is up and the server too. *)
Running(c) ==
  /\ handler[c] = "reading" => held[c] = NoCall
  /\ conn[c] = "up" /\ ~ stop =>
       /\ handler[c] \in {"sending", "reading"}
       /\ writer[c] = "on" /\ forwarder[c] = "on" /\ ~ told[c]
  /\ conn[c] = "none" =>
       /\ writer[c] = "none" /\ forwarder[c] = "none" /\ ~ told[c]

(* A client that is yet to connect has nothing under way. *)
Nothing(c) ==
  conn[c] = "none" =>
    /\ down[c] = None /\ out[c] = None /\ raw[c] = None /\ up[c] = None
    /\ held[c] = NoCall /\ ~ Calling(c)
    /\ subs[c] = {} /\ calls[c] = 0

(* AnswersInOrder of one client, whose calls are numbered one by one. *)
Ordered(c) ==
  conn[c] = "up" /\ ~ stop =>
    /\ InOrder(Pipeline(c)) /\ ToSet(Pipeline(c)) = subs[c]
    /\ subs[c] \subseteq 1 .. calls[c]

Order(c) == Running(c) /\ Nothing(c) /\ Ordered(c)

Orders == CallsKnown /\ \A c \in Clients : Order(c)

(* The calls of c that the loop is at, that wait for it, and that the    *)
(* handler holds.                                                        *)
Called(c) == IF Calling(c) THEN One(call.call) ELSE None
Waiting(c) == Calls(c, None, toServer)
Holding(c) ==
  IF held[c] # NoCall /\ held[c].kind = "client"
  THEN One(held[c].call) ELSE None

LEMMA CallsAre == \A c, q : CallsOf(c, q) = Calls(c, None, q)
  BY DEF CallsOf, Calls, Queue, None

LEMMA PipelineIs ==
  ASSUME NEW c
  PROVE  Pipeline(c) = Flow(down[c], out[c], raw[c], Called(c), Waiting(c),
                            Holding(c), up[c])
<1>1. Queued(c) = Waiting(c)
  BY CallsAre DEF Queued, Waiting
<1> QED
  BY <1>1 DEF Pipeline, Flow, Called, Holding, One, None

LEMMA PipelineWillBe ==
  ASSUME NEW c
  PROVE  Pipeline(c)' = Flow(down'[c], out'[c], raw'[c], Called(c)',
                             Waiting(c)', Holding(c)', up'[c])
<1>1. Queued(c)' = Waiting(c)'
  BY CallsAre DEF Queued, Waiting
<1> QED
  BY <1>1 DEF Pipeline, Flow, Called, Holding, One, None

(* The parts of the pipeline are queues of numbers. *)
LEMMA PartsType ==
  ASSUME TypeOK, NEW c \in Clients
  PROVE  /\ down[c] \in Seq(Nat) /\ out[c] \in Seq(Nat) /\ raw[c] \in Seq(Nat)
         /\ Called(c) \in Seq(Nat) /\ Waiting(c) \in Seq(Nat)
         /\ Holding(c) \in Seq(Nat) /\ up[c] \in Seq(Nat)
         /\ Queues(down[c], out[c], raw[c], Called(c), Waiting(c), Holding(c),
                   up[c])
<1>1. ASSUME NEW q \in Seq(1 .. MaxCalls) PROVE q \in Seq(Nat)
  <2>1. 1 .. MaxCalls \subseteq Nat
    OBVIOUS
  <2> QED
    BY <2>1, SeqMonotonic
<1>2. /\ down[c] \in Seq(Nat) /\ out[c] \in Seq(Nat) /\ raw[c] \in Seq(Nat)
      /\ up[c] \in Seq(Nat)
  BY <1>1 DEF TypeOK
<1>3. Called(c) \in Seq(Nat)
  <2>1. Calling(c) => call.call \in Nat
    BY DEF TypeOK, Calling
  <2> QED
    BY <2>1, OneIs, NoneIs DEF Called
<1>4. Holding(c) \in Seq(Nat)
  <2>1. held[c] # NoCall => held[c].call \in Nat
    BY TasksAssumption DEF TypeOK, Message
  <2> QED
    BY <2>1, OneIs, NoneIs DEF Holding
<1>5. Waiting(c) \in Seq(Nat)
  BY CallsType, NoneIs DEF TypeOK, Waiting
<1> QED
  BY <1>2, <1>3, <1>4, <1>5 DEF Queues

(* A message added to the loop's queue adds its call to its client's, ...*)
LEMMA WaitingAppend ==
  ASSUME TypeOK, NEW m \in Message, toServer' = Append(toServer, m), NEW c
  PROVE  Waiting(c)' = Queue(c, Waiting(c), m)
<1>1. Calls(c, None, Append(toServer, m)) = Queue(c, Waiting(c), m)
  BY FoldLast DEF TypeOK, Waiting
<1> QED
  BY <1>1 DEF Waiting

(* ... and one that is taken takes it away. *)
LEMMA WaitingTail ==
  ASSUME TypeOK, toServer # <<>>, toServer' = Tail(toServer), NEW c
  PROVE  LET m == Head(toServer) IN
         IF m.kind = "client" /\ m.client = c
         THEN /\ Waiting(c) # <<>> /\ Head(Waiting(c)) = m.call
              /\ Waiting(c)' = Tail(Waiting(c))
         ELSE Waiting(c)' = Waiting(c)
<1> PICK q \in Seq(Message) : q = Tail(toServer)
  BY TakenFromQueue DEF TypeOK
<1> PICK m \in Message : m = Head(toServer)
  BY TakenFromQueue DEF TypeOK
<1>1. Waiting(c) = Calls(c, Queue(c, None, m), q)
  BY FoldFirst DEF TypeOK, Waiting
<1>2. Waiting(c)' = Calls(c, None, q)
  BY DEF Waiting
<1>3. CASE ~ (m.kind = "client" /\ m.client = c)
  BY <1>1, <1>2, <1>3 DEF Queue
<1>4. CASE m.kind = "client" /\ m.client = c
  <2>1. m.call \in Nat
    BY TasksAssumption DEF Message
  <2> PICK x \in Nat : x = m.call
    BY <2>1
  <2> PICK o \in Seq(Nat) : o = One(x) /\ o # <<>> /\ Head(o) = x /\ Tail(o) = None
    BY OneIs DEF None
  <2>2. Queue(c, None, m) = o
    BY <1>4, OneIs DEF Queue
  <2> PICK w \in Seq(Nat) : w = Calls(c, None, q)
    BY CallsType, NoneIs
  <2>3. Calls(c, o, q) = o \o w
    BY CallsAfter DEF None
  <2>4. o \o w # <<>> /\ Head(o \o w) = x /\ Tail(o \o w) = None \o w
    BY ConcatTail
  <2>5. None \o w = w
    BY NoneIs
  <2> QED
    BY <1>1, <1>2, <1>4, <2>2, <2>3, <2>4, <2>5
<1> QED
  BY <1>3, <1>4

(* Other clients' steps leave c's calls where they are. *)
Untouched(c) ==
  /\ conn'[c] = conn[c] /\ calls'[c] = calls[c] /\ subs'[c] = subs[c]
  /\ up'[c] = up[c] /\ down'[c] = down[c] /\ raw'[c] = raw[c]
  /\ out'[c] = out[c] /\ handler'[c] = handler[c] /\ held'[c] = held[c]
  /\ told'[c] = told[c] /\ writer'[c] = writer[c]
  /\ forwarder'[c] = forwarder[c]
  /\ (Calling(c)' <=> Calling(c)) /\ Called(c)' = Called(c)
  /\ Waiting(c)' = Waiting(c)
  /\ stop => stop'

LEMMA OrderUntouched ==
  ASSUME NEW c, Order(c), Untouched(c)
  PROVE  Order(c)'
<1>1. Holding(c)' = Holding(c)
  BY DEF Untouched, Holding
<1>2. Pipeline(c)' = Pipeline(c)
  BY <1>1, PipelineIs, PipelineWillBe DEF Untouched
<1>3. Ordered(c)'
  BY <1>2 DEF Order, Ordered, Untouched
<1>4. Running(c)'
  BY DEF Order, Running, Untouched
<1>5. Nothing(c)'
  BY DEF Order, Nothing, Untouched
<1> QED
  BY <1>3, <1>4, <1>5 DEF Order

(* A step moves c's calls along. *)
LEMMA OrderMoved ==
  ASSUME NEW c, Order(c), conn'[c] = conn[c], conn[c] # "none",
         calls'[c] = calls[c], subs'[c] = subs[c], stop' = stop, Running(c)',
         conn[c] = "up" /\ ~ stop => Pipeline(c)' = Pipeline(c)
  PROVE  Order(c)'
<1>1. Ordered(c)'
  BY DEF Order, Ordered
<1>2. Nothing(c)'
  BY DEF Nothing
<1> QED
  BY <1>1, <1>2 DEF Order

-----------------------------------------------------------------------------
(* The steps of a client *)

(* A step of c alone.                                                    *)
OnlyOf(c) ==
  \A d \in Clients \ {c} :
    /\ conn'[d] = conn[d] /\ calls'[d] = calls[d] /\ subs'[d] = subs[d]
    /\ up'[d] = up[d] /\ down'[d] = down[d] /\ raw'[d] = raw[d]
    /\ out'[d] = out[d] /\ handler'[d] = handler[d] /\ held'[d] = held[d]
    /\ told'[d] = told[d] /\ writer'[d] = writer[d]
    /\ forwarder'[d] = forwarder[d]

(* Others see at most what it adds to the loop's queue. *)
LEMMA OthersUntouched ==
  ASSUME TypeOK, NEW c \in Clients, NEW d \in Clients, d # c, OnlyOf(c),
         UNCHANGED <<call, stop>>,
         \/ toServer' = toServer
         \/ \E m \in Message : m.client = c /\ toServer' = Append(toServer, m)
  PROVE  Untouched(d)
<1>1. Waiting(d)' = Waiting(d)
  BY WaitingAppend DEF Waiting, Queue
<1>2. Calling(d)' = Calling(d) /\ Called(d)' = Called(d)
  BY DEF Calling, Called
<1> QED
  BY <1>1, <1>2 DEF Untouched, OnlyOf

(* A client that connects has nothing under way yet. *)
LEMMA OrderConnect ==
  ASSUME TypeOK, Rest, NEW c \in Clients, Order(c), Connect(c)
  PROVE  Order(c)'
<1>1. /\ conn'[c] = "up" /\ handler'[c] = "sending"
      /\ writer'[c] = "on" /\ forwarder'[c] = "on" /\ ~ told'[c]
      /\ held'[c] = [kind |-> "connected", client |-> c, call |-> 0]
      /\ UNCHANGED <<calls, subs, up, down, raw, out, toServer, call>>
  BY DEF Connect, TypeOK, Order, Running, loopVars
<1>2. Running(c)' /\ Nothing(c)'
  BY <1>1 DEF Running, Nothing
<1>3. /\ down[c] = None /\ out[c] = None /\ raw[c] = None /\ up[c] = None
      /\ ~ Calling(c) /\ subs[c] = {}
  BY DEF Connect, Order, Nothing
<1>4. Waiting(c) = None
  <2>1. \A i \in 1 .. Len(toServer) : toServer[i].client # c
    BY DEF Connect, Rest, Registrations, Registration, Fresh
  <2> QED
    BY <2>1, CallsNone DEF TypeOK, Waiting
<1>5. Called(c)' = None /\ Waiting(c)' = None /\ Holding(c)' = None
  BY <1>1, <1>3, <1>4 DEF Called, Calling, Waiting, Holding
<1>6. Pipeline(c)' = Flow(None, None, None, None, None, None, None)
  BY <1>1, <1>3, <1>5, PipelineWillBe
<1>7. Flow(None, None, None, None, None, None, None) = None
  BY NoneIs DEF Flow
<1>8. Ordered(c)'
  BY <1>1, <1>3, <1>6, <1>7, NoneIs DEF Ordered
<1> QED
  BY <1>2, <1>8 DEF Order

(* A new call comes last, and its number is the largest. *)
LEMMA OrderInvoke ==
  ASSUME TypeOK, NEW c \in Clients, Order(c), Invoke(c)
  PROVE  Order(c)'
<1> PICK x \in Nat : x = calls[c] + 1
  BY TasksAssumption DEF TypeOK
<1>1. /\ calls'[c] = x /\ subs'[c] = subs[c] \cup {x}
      /\ up'[c] = Append(up[c], x)
      /\ UNCHANGED <<conn, down, handler, held, told, writer, forwarder, raw,
                     out, toServer, call, stop>>
      /\ conn[c] = "up"
  BY DEF Invoke, TypeOK, loopVars, taskVars, mainVars
<1>2. Running(c)' /\ Nothing(c)'
  BY <1>1 DEF Order, Running, Nothing
<1>3. Called(c)' = Called(c) /\ Waiting(c)' = Waiting(c)
        /\ Holding(c)' = Holding(c)
  BY <1>1 DEF Called, Calling, Waiting, Holding
<1>4. /\ Pipeline(c) \in Seq(Nat)
      /\ Pipeline(c)' = Append(Pipeline(c), x)
  <2> PICK d \in Seq(Nat), o \in Seq(Nat), r \in Seq(Nat) :
             d = down[c] /\ o = out[c] /\ r = raw[c]
    BY PartsType, Zenon
  <2> PICK k \in Seq(Nat), q \in Seq(Nat), h \in Seq(Nat), u \in Seq(Nat) :
             k = Called(c) /\ q = Waiting(c) /\ h = Holding(c) /\ u = up[c]
    BY PartsType, Zenon
  <2>0. Queues(d, o, r, k, q, h, u)
    BY DEF Queues
  <2>1. Pipeline(c) = Flow(d, o, r, k, q, h, u)
    BY PipelineIs
  <2>2. Pipeline(c) \in Seq(Nat)
    BY <2>0, <2>1, FlowType
  <2>3. Pipeline(c)' = Flow(d, o, r, k, q, h, Append(u, x))
    BY <1>1, <1>3, PipelineWillBe
  <2>4. Flow(d, o, r, k, q, h, Append(u, x))
          = Append(Flow(d, o, r, k, q, h, u), x)
    BY <2>0, FlowInvoke
  <2> QED
    BY <2>1, <2>2, <2>3, <2>4
<1>5. ASSUME conn[c] = "up", ~ stop
      PROVE  /\ InOrder(Pipeline(c)') /\ ToSet(Pipeline(c)') = subs'[c]
             /\ subs'[c] \subseteq 1 .. calls'[c]
  <2> PICK p \in Seq(Nat) : p = Pipeline(c)
    BY <1>4
  <2>1. InOrder(p) /\ ToSet(p) = subs[c] /\ subs[c] \subseteq 1 .. calls[c]
    BY <1>5 DEF Order, Ordered
  <2>2. calls[c] \in Nat
    BY TasksAssumption DEF TypeOK
  <2>3. \A y \in ToSet(p) : y < x
    BY <2>1, <2>2
  <2>4. InOrder(Append(p, x)) /\ ToSet(Append(p, x)) = ToSet(p) \cup {x}
    BY <2>1, <2>3, OrderAppend
  <2>5. subs'[c] \subseteq 1 .. calls'[c]
    BY <1>1, <2>1, <2>2
  <2> QED
    BY <1>1, <1>4, <2>1, <2>4, <2>5
<1>6. Ordered(c)'
  BY <1>1, <1>5 DEF Ordered
<1> QED
  BY <1>2, <1>6 DEF Order

(* The reply that is taken is the oldest call. *)
LEMMA OrderTakeReply ==
  ASSUME TypeOK, NEW c \in Clients, Order(c), TakeReply(c)
  PROVE  Order(c)'
<1>1. /\ subs'[c] = subs[c] \ {Head(down[c])}
      /\ down'[c] = Tail(down[c]) /\ down[c] # <<>>
      /\ UNCHANGED <<conn, calls, up, handler, held, told, writer, forwarder,
                     raw, out, toServer, call, stop>>
      /\ conn[c] = "up"
  BY DEF TakeReply, TypeOK, loopVars, taskVars, mainVars
<1>2. Running(c)' /\ Nothing(c)'
  BY <1>1 DEF Order, Running, Nothing
<1>3. Called(c)' = Called(c) /\ Waiting(c)' = Waiting(c)
        /\ Holding(c)' = Holding(c)
  BY <1>1 DEF Called, Calling, Waiting, Holding
<1>4. /\ Pipeline(c) \in Seq(Nat)
      /\ Pipeline(c) # <<>> /\ Head(Pipeline(c)) = Head(down[c])
      /\ Pipeline(c)' = Tail(Pipeline(c))
  <2> PICK d \in Seq(Nat), o \in Seq(Nat), r \in Seq(Nat) :
             d = down[c] /\ o = out[c] /\ r = raw[c]
    BY PartsType, Zenon
  <2> PICK k \in Seq(Nat), q \in Seq(Nat), h \in Seq(Nat), u \in Seq(Nat) :
             k = Called(c) /\ q = Waiting(c) /\ h = Holding(c) /\ u = up[c]
    BY PartsType, Zenon
  <2>0. Queues(d, o, r, k, q, h, u)
    BY DEF Queues
  <2>1. Pipeline(c) = Flow(d, o, r, k, q, h, u)
    BY PipelineIs
  <2>2. Pipeline(c) \in Seq(Nat)
    BY <2>0, <2>1, FlowType
  <2>3. Pipeline(c)' = Flow(Tail(d), o, r, k, q, h, u)
    BY <1>1, <1>3, PipelineWillBe
  <2>4. d # <<>>
    BY <1>1
  <2>5. /\ Flow(d, o, r, k, q, h, u) # <<>>
        /\ Head(Flow(d, o, r, k, q, h, u)) = Head(d)
        /\ Flow(Tail(d), o, r, k, q, h, u) = Tail(Flow(d, o, r, k, q, h, u))
    BY <2>0, <2>4, FlowReply
  <2> QED
    BY <2>1, <2>2, <2>3, <2>5
<1>5. ASSUME conn[c] = "up", ~ stop
      PROVE  /\ InOrder(Pipeline(c)') /\ ToSet(Pipeline(c)') = subs'[c]
             /\ subs'[c] \subseteq 1 .. calls'[c]
  <2> PICK p \in Seq(Nat) : p = Pipeline(c)
    BY <1>4
  <2>1. InOrder(p) /\ ToSet(p) = subs[c] /\ subs[c] \subseteq 1 .. calls[c]
    BY <1>5 DEF Order, Ordered
  <2>2. InOrder(Tail(p)) /\ ToSet(Tail(p)) = ToSet(p) \ {Head(p)}
    BY <1>4, <2>1, OrderTail
  <2> QED
    BY <1>1, <1>4, <2>1, <2>2
<1>6. Ordered(c)'
  BY <1>1, <1>5 DEF Ordered
<1> QED
  BY <1>2, <1>6 DEF Order

(* Of a connection that is down nothing is said. *)
LEMMA OrderDisconnect ==
  ASSUME TypeOK, NEW c \in Clients, Order(c), Disconnect(c)
  PROVE  Order(c)'
<1>1. /\ conn'[c] = "down"
      /\ UNCHANGED <<handler, held>>
  BY DEF Disconnect, TypeOK
<1> QED
  BY <1>1 DEF Order, Running, Nothing, Ordered

-----------------------------------------------------------------------------
(* The steps of a handler *)

(* A handler with work to do has a client that came. *)
LEMMA HandlerKnown ==
  ASSUME Rest, NEW c \in Clients, handler[c] # "none"
  PROVE  conn[c] # "none"
  BY DEF Rest, Registrations, Registration

(* What the handler holds joins the loop's queue. *)
LEMMA OrderSubmit ==
  ASSUME TypeOK, Rest, CallsKnown, NEW c \in Clients, Order(c), Submit(c)
  PROVE  Order(c)'
<1> PICK m \in Message : m = held[c]
  BY DEF Rest, HeldMessages, Submit
<1>1. /\ UNCHANGED <<conn, calls, subs, up, down, told, writer, forwarder,
                     raw, out, call, stop>>
      /\ held'[c] = NoCall /\ handler[c] = "sending"
  BY DEF Submit, TypeOK, clientVars, loopVars, taskVars, mainVars
<1>2. m.client = c /\ m.kind \in {"connected", "client"}
  BY <1>1 DEF Rest, HeldMessages
<1>3. m # NoCall /\ m.call \in Nat
  BY TasksAssumption DEF Message
<1>4. conn[c] # "none"
  BY <1>1, HandlerKnown
<1>5. CASE LoopGone
  <2>1. stop
    BY <1>5 DEF LoopGone, CallsKnown, Rest, KnownSenders
  <2>2. Running(c)'
    BY <1>1, <1>2, <1>3, <1>4, <1>5, <2>1 DEF Submit, TypeOK, Running
  <2> QED
    BY <1>1, <1>2, <1>3, <1>4, <2>1, <2>2, OrderMoved
<1>6. CASE ~ LoopGone
  <2>1. handler'[c] = "reading" /\ toServer' = Append(toServer, m)
    BY <1>6 DEF Submit, TypeOK
  <2>2. Running(c)'
    BY <1>1, <1>2, <1>3, <1>4, <2>1 DEF Order, Running
  <2>3. Waiting(c)' = Queue(c, Waiting(c), m)
    BY <2>1, WaitingAppend
  <2>4. Called(c)' = Called(c) /\ Holding(c)' = None
    BY <1>1, <1>2, <1>3, <1>4 DEF Called, Calling, Holding
  <2>5. Pipeline(c)' = Flow(down[c], out[c], raw[c], Called(c),
                            Queue(c, Waiting(c), m), None, up[c])
    BY <1>1, <1>2, <1>3, <1>4, <2>3, <2>4, PipelineWillBe
  <2>6. Pipeline(c)' = Pipeline(c)
    <3>1. CASE m.kind = "client"
      <4> PICK x \in Nat : x = m.call
        BY <1>3
      <4>1. Queue(c, Waiting(c), m) = Append(Waiting(c), x)
              /\ Holding(c) = One(x)
        BY <1>1, <1>2, <1>3, <1>4, <3>1 DEF Queue, Holding
      <4>2. Flow(down[c], out[c], raw[c], Called(c),
                 Append(Waiting(c), x), None, up[c])
              = Flow(down[c], out[c], raw[c], Called(c), Waiting(c), One(x),
                     up[c])
        BY PartsType, FlowSubmit
      <4> QED
        BY <2>5, <4>1, <4>2, PipelineIs
    <3>2. CASE m.kind = "connected"
      <4>1. Queue(c, Waiting(c), m) = Waiting(c) /\ Holding(c) = None
        BY <3>2 DEF Queue, Holding
      <4> QED
        BY <2>5, <4>1, PipelineIs
    <3> QED
      BY <1>1, <1>2, <1>3, <1>4, <3>1, <3>2
  <2> QED
    BY <1>1, <1>2, <1>3, <1>4, <2>2, <2>6, OrderMoved
<1> QED
  BY <1>5, <1>6

(* The handler takes up the next call of the connection. *)
LEMMA OrderRead ==
  ASSUME TypeOK, Rest, NEW c \in Clients, Order(c), Read(c)
  PROVE  Order(c)'
<1> PICK x \in Nat : x = Head(up[c])
  BY PartsType DEF Read
<1> PICK m \in Message : m = [kind |-> "client", client |-> c, call |-> x]
  BY TasksAssumption DEF Read, TypeOK, Message
<1>1. /\ UNCHANGED <<conn, calls, subs, down, told, writer, forwarder, raw,
                     out, toServer, call, stop>>
      /\ handler'[c] = "sending" /\ held'[c] = m
      /\ up[c] # <<>> /\ up'[c] = Tail(up[c])
      /\ handler[c] = "reading" /\ held[c] = NoCall
      /\ conn[c] # "none"
  BY HandlerKnown
  DEF Read, TypeOK, Order, Running, clientVars, loopVars, taskVars, mainVars
<1>2. Running(c)'
  BY <1>1 DEF Order, Running
<1>3. /\ Called(c)' = Called(c) /\ Waiting(c)' = Waiting(c)
      /\ Holding(c) = None /\ Holding(c)' = One(x)
  <2>1. m # NoCall /\ m.kind = "client" /\ m.call = x
    BY TasksAssumption
  <2> QED
    BY <1>1, <2>1 DEF Called, Calling, Waiting, Holding
<1>4. Pipeline(c)' = Flow(down[c], out[c], raw[c], Called(c), Waiting(c),
                          One(x), Tail(up[c]))
  BY <1>1, <1>3, PipelineWillBe
<1>5. Flow(down[c], out[c], raw[c], Called(c), Waiting(c), One(Head(up[c])),
           Tail(up[c]))
        = Flow(down[c], out[c], raw[c], Called(c), Waiting(c), None, up[c])
  BY <1>1, PartsType, FlowRead
<1>6. Pipeline(c)' = Pipeline(c)
  BY <1>3, <1>4, <1>5, PipelineIs
<1> QED
  BY <1>1, <1>2, <1>6, OrderMoved

(* A handler that has done with reading has no call to order: its        *)
(* connection or the server has come to its end.                         *)
LEMMA OrderEnding ==
  ASSUME NEW c \in Clients, Order(c),
         conn'[c] = conn[c], conn[c] # "none",
         calls'[c] = calls[c], subs'[c] = subs[c], stop' = stop,
         handler'[c] # "reading",
         conn[c] = "down" \/ stop
  PROVE  Order(c)'
<1>1. Running(c)'
  BY DEF Running
<1> QED
  BY <1>1, OrderMoved

LEMMA OrderReadEnd ==
  ASSUME TypeOK, Rest, NEW c \in Clients, Order(c),
         ReadPing(c) \/ ReadEnd(c) \/ Leave(c) \/ StopTasks(c) \/ Join(c)
  PROVE  Order(c)'
<1>1. /\ UNCHANGED <<conn, calls, subs, stop>>
      /\ handler'[c] # "reading" /\ handler[c] # "none"
      /\ \/ conn[c] = "down" \/ stop \/ writer[c] # "on"
         \/ handler[c] \notin {"sending", "reading"}
  BY DEF ReadPing, ReadEnd, Leave, StopTasks, Join, TypeOK, clientVars, mainVars
<1>2. conn[c] # "none"
  BY <1>1, HandlerKnown
<1>3. conn[c] = "down" \/ stop
  BY <1>1, <1>2 DEF Order, Running, TypeOK
<1> QED
  BY <1>1, <1>2, <1>3, OrderEnding

-----------------------------------------------------------------------------
(* The steps of the tasks *)

(* The writer and the forwarder pass on the next reply. *)
LEMMA OrderWrite ==
  ASSUME TypeOK, Rest, NEW c \in Clients, Order(c), Write(c)
  PROVE  Order(c)'
<1>1. /\ UNCHANGED <<conn, calls, subs, up, handler, held, told, forwarder,
                     raw, toServer, call, stop>>
      /\ out[c] # <<>> /\ out'[c] = Tail(out[c])
      /\ writer[c] = "on"
      /\ conn[c] = "up" => /\ down'[c] = Append(down[c], Head(out[c]))
                           /\ writer'[c] = "on"
  BY DEF Write, TypeOK, clientVars, loopVars, mainVars
<1>2. conn[c] # "none"
  BY <1>1 DEF Order, Running
<1>3. Running(c)'
  BY <1>1, <1>2 DEF Order, Running
<1>4. Called(c)' = Called(c) /\ Waiting(c)' = Waiting(c)
        /\ Holding(c)' = Holding(c)
  BY <1>1 DEF Called, Calling, Waiting, Holding
<1>5. ASSUME conn[c] = "up"
      PROVE  Pipeline(c)' = Pipeline(c)
  <2>1. Flow(Append(down[c], Head(out[c])), Tail(out[c]), raw[c], Called(c),
             Waiting(c), Holding(c), up[c])
          = Flow(down[c], out[c], raw[c], Called(c), Waiting(c), Holding(c),
                 up[c])
    BY <1>1, PartsType, FlowWrite
  <2> QED
    BY <1>1, <1>4, <1>5, <2>1, PipelineIs, PipelineWillBe
<1> QED
  BY <1>1, <1>2, <1>3, <1>5, OrderMoved

LEMMA OrderForward ==
  ASSUME TypeOK, Rest, NEW c \in Clients, Order(c), Forward(c)
  PROVE  Order(c)'
<1>1. /\ UNCHANGED <<conn, calls, subs, up, down, handler, held, told, writer,
                     toServer, call, stop>>
      /\ raw[c] # <<>> /\ raw'[c] = Tail(raw[c])
      /\ forwarder[c] = "on"
      /\ writer[c] = "on" => /\ out'[c] = Append(out[c], Head(raw[c]))
                             /\ forwarder'[c] = "on"
  BY DEF Forward, TypeOK, clientVars, loopVars, mainVars
<1>2. conn[c] # "none"
  BY <1>1 DEF Order, Running
<1>3. Running(c)'
  BY <1>1, <1>2 DEF Order, Running
<1>4. Called(c)' = Called(c) /\ Waiting(c)' = Waiting(c)
        /\ Holding(c)' = Holding(c)
  BY <1>1 DEF Called, Calling, Waiting, Holding
<1>5. ASSUME writer[c] = "on"
      PROVE  Pipeline(c)' = Pipeline(c)
  <2>1. Flow(down[c], Append(out[c], Head(raw[c])), Tail(raw[c]), Called(c),
             Waiting(c), Holding(c), up[c])
          = Flow(down[c], out[c], raw[c], Called(c), Waiting(c), Holding(c),
                 up[c])
    BY <1>1, PartsType, FlowForward
  <2> QED
    BY <1>1, <1>4, <1>5, <2>1, PipelineIs, PipelineWillBe
<1>6. conn[c] = "up" /\ ~ stop => writer[c] = "on"
  BY DEF Order, Running
<1> QED
  BY <1>1, <1>2, <1>3, <1>5, <1>6, OrderMoved

(* A task stops when its connection or the server has come to its end, or*)
(* when it has nothing to do with the replies.                           *)
LEMMA OrderStopTask ==
  ASSUME TypeOK, Rest, NEW c \in Clients, Order(c),
         FailWriter(c) \/ StopWriter(c) \/ StopForwarder(c) \/ StopBcaster(c)
  PROVE  Order(c)'
<1>1. UNCHANGED <<conn, calls, subs, up, down, raw, out, handler, held, told,
                  toServer, call, stop>>
  BY DEF FailWriter, StopWriter, StopForwarder, StopBcaster, clientVars,
         loopVars, mainVars
<1>2. Called(c)' = Called(c) /\ Calling(c)' = Calling(c)
        /\ Waiting(c)' = Waiting(c)
  BY <1>1 DEF Called, Calling, Waiting
<1>3. CASE StopBcaster(c)
  <2>1. UNCHANGED <<writer, forwarder>>
    BY <1>3 DEF StopBcaster
  <2> QED
    BY <1>1, <1>2, <2>1, OrderUntouched DEF Untouched
<1>4. CASE FailWriter(c) \/ StopWriter(c) \/ StopForwarder(c)
  <2>1. /\ "on" \in {writer[c], forwarder[c]}
        /\ conn[c] = "down" \/ MustStop(c) \/ HandlerGone(c)
    BY <1>4 DEF FailWriter, StopWriter, StopForwarder, MustStop
  <2>2. conn[c] # "none"
    BY <2>1 DEF Order, Running
  <2>3. conn[c] = "down" \/ stop
    BY <2>1, <2>2 DEF Order, Running, MustStop, HandlerGone, TypeOK
  <2>4. Running(c)'
    BY <1>1, <2>2, <2>3 DEF Order, Running
  <2> QED
    BY <1>1, <2>2, <2>3, <2>4, OrderMoved
<1> QED
  BY <1>3, <1>4

-----------------------------------------------------------------------------
(* The steps of the loop *)

(* The loop begins with the oldest message: a call goes from the queue to*)
(* the loop, every other call stays in its place.                        *)
LEMMA OrderTake ==
  ASSUME TypeOK, Rest, Rest', CallsKnown, NEW c \in Clients, Order(c), Take
  PROVE  Order(c)'
<1> PICK m \in Message : m = Head(toServer)
  BY TakenFromQueue DEF Take, TypeOK
<1>1. /\ UNCHANGED <<conn, calls, subs, up, down, handler, held, told, writer,
                     forwarder, raw, out, stop>>
      /\ toServer # <<>> /\ toServer' = Tail(toServer)
      /\ loop = "idle" /\ call = NoCall
  BY DEF Take, CallsKnown, clientVars, taskVars, mainVars
<1>2. Waiting(c)' = IF m.kind = "client" /\ m.client = c
                    THEN Tail(Waiting(c)) ELSE Waiting(c)
  BY <1>1, WaitingTail
<1>3. m.kind = "client" /\ m.client = c =>
        Waiting(c) # <<>> /\ Head(Waiting(c)) = m.call
  BY <1>1, WaitingTail
<1>4. loop' # "panicked"
  BY DEF Rest, KnownSenders
<1>5. IF m.kind = "client"
      THEN call' = [client |-> m.client, call |-> m.call]
      ELSE call' = NoCall
  BY <1>1, <1>4 DEF Take, Message
<1>6. ~ Calling(c) /\ Called(c) = None
  BY <1>1 DEF Calling, Called
<1>7. Holding(c)' = Holding(c)
  BY <1>1 DEF Holding
<1>8. CASE m.kind = "client" /\ m.client = c
  <2>1. call' # NoCall
    <3>1. m.call \in 1 .. MaxCalls
      <4>1. m.call # 0
        BY <1>1, <1>8, TakenFromQueue DEF TypeOK, Rest, NumberedCalls
      <4> QED
        BY <4>1, TasksAssumption DEF Message
    <3> QED
      BY <1>5, <1>8, <3>1, TasksAssumption
  <2>2. Called(c)' = One(m.call) /\ Waiting(c)' = Tail(Waiting(c))
    BY <1>2, <1>5, <1>8, <2>1 DEF Called, Calling
  <2>3. conn[c] # "none"
    <3>1. toServer[1].client = c /\ 1 \in 1 .. Len(toServer)
      BY <1>1, <1>8, TakenFromQueue DEF TypeOK
    <3> QED
      BY <3>1 DEF Rest, Registrations, Registration, Fresh
  <2>4. Pipeline(c)' = Pipeline(c)
    <3>1. Flow(down[c], out[c], raw[c], One(Head(Waiting(c))),
               Tail(Waiting(c)), Holding(c), up[c])
            = Flow(down[c], out[c], raw[c], None, Waiting(c), Holding(c),
                   up[c])
      BY <1>3, <1>8, PartsType, FlowTake
    <3> QED
      BY <1>1, <1>3, <1>6, <1>7, <1>8, <2>2, <3>1, PipelineIs, PipelineWillBe
  <2>5. Running(c)'
    BY <1>1 DEF Order, Running
  <2> QED
    BY <1>1, <2>3, <2>4, <2>5, OrderMoved
<1>9. CASE ~ (m.kind = "client" /\ m.client = c)
  <2>1. ~ Calling(c)' /\ Called(c)' = None /\ Waiting(c)' = Waiting(c)
    BY <1>2, <1>5, <1>9 DEF Calling, Called
  <2>2. Untouched(c)
    BY <1>1, <1>6, <2>1 DEF Untouched
  <2> QED
    BY <2>2, OrderUntouched
<1> QED
  BY <1>8, <1>9

(* The reply goes to the forwarder of the client that called. *)
LEMMA OrderAnswer ==
  ASSUME TypeOK, CallsKnown, NEW c \in Clients, Order(c), Answer
  PROVE  Order(c)'
<1> PICK d \in Clients, x \in Nat : d = call.client /\ x = call.call
  BY DEF Answer, CallsKnown, TypeOK
<1>1. /\ UNCHANGED <<conn, calls, subs, up, down, handler, held, told, writer,
                     forwarder, out, toServer, stop>>
      /\ call # NoCall /\ call' = NoCall
      /\ raw' = IF forwarder[d] = "on"
                THEN [raw EXCEPT ![d] = Append(@, x)] ELSE raw
  BY DEF Answer, CallsKnown, clientVars, taskVars, mainVars
<1>2. /\ ~ Calling(c)' /\ Called(c)' = None /\ Waiting(c)' = Waiting(c)
      /\ Holding(c)' = Holding(c)
  BY <1>1 DEF Calling, Called, Waiting, Holding
<1>3. CASE d = c
  <2>1. Calling(c) /\ Called(c) = One(x)
    BY <1>1, <1>3 DEF Calling, Called
  <2>2. conn[c] # "none"
    BY <2>1 DEF Order, Nothing
  <2>3. Running(c)'
    BY <1>1 DEF Order, Running
  <2>4. ASSUME conn[c] = "up", ~ stop
        PROVE  Pipeline(c)' = Pipeline(c)
    <3>1. raw'[c] = Append(raw[c], x)
      BY <1>1, <1>3, <2>4 DEF Order, Running, TypeOK
    <3>2. Flow(down[c], out[c], Append(raw[c], x), None, Waiting(c),
               Holding(c), up[c])
            = Flow(down[c], out[c], raw[c], One(x), Waiting(c), Holding(c),
                   up[c])
      BY PartsType, FlowAnswer
    <3> QED
      BY <1>1, <1>2, <2>1, <3>1, <3>2, PipelineIs, PipelineWillBe
  <2> QED
    BY <1>1, <2>2, <2>3, <2>4, OrderMoved
<1>4. CASE d # c
  <2>1. ~ Calling(c) /\ Called(c) = None /\ raw'[c] = raw[c]
    BY <1>1, <1>4 DEF Calling, Called, TypeOK
  <2>2. Untouched(c)
    BY <1>1, <1>2, <2>1 DEF Untouched
  <2> QED
    BY <2>2, OrderUntouched
<1> QED
  BY <1>3, <1>4

(* A loop that has stopped answers no more, which only a server that stops*)
(* has.                                                                  *)
LEMMA OrderStop ==
  ASSUME NEW c \in Clients, Order(c),
         StopLoop \/ Shutdown \/ Watch \/ StopAcceptor \/ Return
  PROVE  Order(c)'
<1>1. UNCHANGED <<conn, calls, subs, up, down, handler, held, told, writer,
                  forwarder, raw, out, call>>
  BY DEF StopLoop, Shutdown, Watch, StopAcceptor, Return, clientVars, taskVars,
         loopVars
<1>2. Calling(c)' = Calling(c) /\ Called(c)' = Called(c)
  BY <1>1 DEF Calling, Called
<1>3. CASE StopLoop \/ Watch
  <2>1. stop'
    BY <1>3 DEF StopLoop, Watch, mainVars
  <2> QED
    BY <1>1, <1>2, <2>1 DEF Order, Running, Nothing, Ordered
<1>4. CASE Shutdown \/ StopAcceptor \/ Return
  <2>1. Waiting(c)' = Waiting(c) /\ stop' = stop
    BY <1>4 DEF Shutdown, StopAcceptor, Return, Waiting
  <2> QED
    BY <1>1, <1>2, <2>1, OrderUntouched DEF Untouched
<1> QED
  BY <1>3, <1>4

-----------------------------------------------------------------------------
(* Every step *)

LEMMA CallsKnownStep ==
  ASSUME TypeOK, Rest, Rest', CallsKnown, [Next]_vars
  PROVE  CallsKnown'
<1>1. ASSUME Take PROVE CallsKnown'
  <2> PICK m \in Message : m = Head(toServer)
    BY <1>1, TakenFromQueue DEF Take, TypeOK
  <2>1. loop' # "panicked" /\ loop = "idle" /\ call = NoCall /\ stop' = stop
    BY <1>1 DEF Take, Rest, KnownSenders, CallsKnown, mainVars
  <2>2. m.kind = "client" => m.call \in 1 .. MaxCalls
    <3>1. m.kind = "client" => m.call # 0
      <4>1. m = toServer[1] /\ 1 \in 1 .. Len(toServer)
        BY <1>1, TakenFromQueue DEF Take, TypeOK
      <4> QED
        BY <4>1 DEF Rest, NumberedCalls
    <3> QED
      BY <3>1, TasksAssumption DEF Message
  <2>3. [client |-> m.client, call |-> m.call] # NoCall \/ m.kind # "client"
    BY <2>2, TasksAssumption DEF Message
  <2>4. \/ loop' = loop /\ call' = call
        \/ /\ m.kind = "client" /\ loop' = "invoking"
           /\ call' = [client |-> m.client, call |-> m.call]
    BY <1>1, <2>1 DEF Take
  <2> QED
    BY <2>1, <2>3, <2>4 DEF CallsKnown
<1>2. ASSUME Answer PROVE CallsKnown'
  BY <1>2 DEF Answer, CallsKnown
<1>3. ASSUME StopLoop PROVE CallsKnown'
  BY <1>3 DEF StopLoop, CallsKnown, mainVars
<1>4. ASSUME Watch PROVE CallsKnown'
  BY <1>4 DEF Watch, CallsKnown, loopVars
<1>5. ASSUME UNCHANGED <<loop, call, stop>> PROVE CallsKnown'
  BY <1>5 DEF CallsKnown
<1>6. ASSUME Shutdown \/ StopAcceptor \/ Return \/ UNCHANGED vars
      PROVE  UNCHANGED <<loop, call, stop>>
  BY <1>6 DEF Shutdown, StopAcceptor, Return, vars, loopVars, mainVars
<1>7. ASSUME NEW c \in Clients,
             ClientStep(c) \/ TakeReply(c) \/ HandlerStep(c) \/ TaskStep(c)
      PROVE  UNCHANGED <<loop, call, stop>>
  BY <1>7 DEF ClientStep, HandlerStep, TaskStep, Connect, Invoke, Disconnect,
              TakeReply, Submit, Read, ReadPing, ReadEnd, Leave, StopTasks,
              Join, Write, FailWriter, StopWriter, StopBcaster, Forward,
              StopForwarder,
              loopVars, mainVars
<1> QED
  BY <1>1, <1>2, <1>3, <1>4, <1>5, <1>6, <1>7 DEF Next

(* What a step of c does not touch. *)
LEMMA StepsAlone ==
  ASSUME TypeOK, Rest, NEW c \in Clients,
         ClientStep(c) \/ TakeReply(c) \/ HandlerStep(c) \/ TaskStep(c)
  PROVE  /\ OnlyOf(c)
         /\ UNCHANGED <<call, stop>>
         /\ \/ toServer' = toServer
            \/ \E m \in Message :
                 m.client = c /\ toServer' = Append(toServer, m)
<1>1. ASSUME ClientStep(c)
      PROVE  OnlyOf(c) /\ UNCHANGED <<call, stop, toServer>>
  BY <1>1 DEF ClientStep, Connect, Invoke, Disconnect, OnlyOf, TypeOK,
              loopVars, taskVars, mainVars
<1>2. ASSUME TakeReply(c)
      PROVE  OnlyOf(c) /\ UNCHANGED <<call, stop, toServer>>
  BY <1>2 DEF TakeReply, OnlyOf, TypeOK, loopVars, taskVars, mainVars
<1>3. ASSUME TaskStep(c)
      PROVE  OnlyOf(c) /\ UNCHANGED <<call, stop, toServer>>
  BY <1>3 DEF TaskStep, Write, FailWriter, StopWriter, StopBcaster, Forward,
              StopForwarder, OnlyOf, TypeOK, clientVars, loopVars, mainVars
<1>4. ASSUME Read(c) \/ ReadPing(c) \/ ReadEnd(c) \/ StopTasks(c) \/ Join(c)
      PROVE  OnlyOf(c) /\ UNCHANGED <<call, stop, toServer>>
  BY <1>4 DEF Read, ReadPing, ReadEnd, StopTasks, Join, OnlyOf, TypeOK, clientVars,
              taskVars, loopVars, mainVars
<1>5. ASSUME Submit(c) \/ Leave(c)
      PROVE  OnlyOf(c) /\ UNCHANGED <<call, stop>>
  BY <1>5 DEF Submit, Leave, OnlyOf, TypeOK, clientVars, taskVars, loopVars,
              mainVars
<1>6. ASSUME Submit(c)
      PROVE  \/ toServer' = toServer
             \/ held[c] \in Message /\ held[c].client = c
                  /\ toServer' = Append(toServer, held[c])
  BY <1>6 DEF Submit, Rest, HeldMessages
<1>7. ASSUME Leave(c)
      PROVE  \/ toServer' = toServer
             \/ \E m \in Message :
                  m.client = c /\ toServer' = Append(toServer, m)
  <2>1. [kind |-> "closed", client |-> c, call |-> 0] \in Message
    BY TasksAssumption DEF Message
  <2> PICK m \in Message : m = [kind |-> "closed", client |-> c, call |-> 0]
    BY <2>1, Zenon
  <2> QED
    BY <1>7 DEF Leave
<1> QED
  BY <1>1, <1>2, <1>3, <1>4, <1>5, <1>6, <1>7 DEF HandlerStep

LEMMA OrdersStep ==
  ASSUME TypeOK, Rest, Rest', Orders, [Next]_vars
  PROVE  Orders'
<1>1. CallsKnown'
  BY CallsKnownStep DEF Orders
<1> SUFFICES ASSUME NEW c \in Clients PROVE Order(c)'
  BY <1>1 DEF Orders
<1>2. Order(c) /\ CallsKnown
  BY DEF Orders
<1>3. ASSUME NEW d \in Clients, d # c,
             ClientStep(d) \/ TakeReply(d) \/ HandlerStep(d) \/ TaskStep(d)
      PROVE  Order(c)'
  <2>1. Untouched(c)
    BY <1>3, StepsAlone, OthersUntouched
  <2> QED
    BY <1>2, <2>1, OrderUntouched
<1>4. ASSUME ClientStep(c) \/ TakeReply(c) \/ HandlerStep(c) \/ TaskStep(c)
      PROVE  Order(c)'
  BY <1>2, <1>4, OrderConnect, OrderInvoke, OrderDisconnect, OrderTakeReply,
     OrderSubmit, OrderRead, OrderReadEnd, OrderWrite, OrderForward,
     OrderStopTask
  DEF ClientStep, HandlerStep, TaskStep
<1>5. ASSUME Take \/ Answer PROVE Order(c)'
  BY <1>2, <1>5, OrderTake, OrderAnswer
<1>6. ASSUME StopLoop \/ Shutdown \/ Watch \/ StopAcceptor \/ Return
      PROVE  Order(c)'
  BY <1>2, <1>6, OrderStop
<1>7. ASSUME UNCHANGED vars PROVE Order(c)'
  <2>1. Untouched(c)
    BY <1>7 DEF Untouched, vars, clientVars, taskVars, loopVars, mainVars,
                Calling, Called, Waiting
  <2> QED
    BY <1>2, <2>1, OrderUntouched
<1> QED
  BY <1>3, <1>4, <1>5, <1>6, <1>7 DEF Next

LEMMA OrdersInit == Init => Orders
<1>1. SUFFICES ASSUME Init PROVE Orders
  OBVIOUS
<1>2. CallsKnown
  BY <1>1 DEF Init, CallsKnown
<1>3. ASSUME NEW c \in Clients PROVE Order(c)
  BY <1>1 DEF Init, Order, Running, Nothing, Ordered, Calling, None
<1> QED
  BY <1>2, <1>3 DEF Orders

-----------------------------------------------------------------------------
(* Theorems *)

(* IInv holds initially and is kept by every step. *)
LEMMA Invariant == Spec => []IInv
<1>1. Init => IInv
  BY TypeInit, RestInit DEF IInv
<1>2. IInv /\ [Next]_vars => IInv'
  BY TypeStep, RestStep DEF IInv, Rest
<1>3. QED
  BY <1>1, <1>2, PTL DEF Spec

(* The variables of the tasks of a server keep their types, and the loop's *)
(* queue stays within its capacity however many handlers send to it.       *)
THEOREM TasksTypeCorrect == Spec => []TypeOK
<1>1. IInv => TypeOK
  BY DEF IInv
<1>2. QED
  BY <1>1, Invariant, PTL

(* Whatever the clients do and whenever the server stops, the loop knows   *)
(* the sender of every invocation it takes: server_state_loop looks up the *)
(* sender's record in active_client_info and unwraps it, which never fails.*)
THEOREM SendersAlwaysKnown == Spec => []KnownSenders
<1>1. IInv => KnownSenders
  BY DEF IInv, Rest
<1>2. QED
  BY <1>1, Invariant, PTL

(* Neither the handlers, the loop nor the tasks lose, double or overtake an*)
(* invocation: on a connection that is up to a server that is not stopping *)
(* the replies come in the order of the invocations.  Each queue on the way*)
(* keeps its order, and the queues follow one another without a gap.       *)
THEOREM RepliesInOrder == Spec => []AnswersInOrder
<1>1. Init => Orders
  BY OrdersInit
<1>2. IInv /\ IInv' /\ Orders /\ [Next]_vars => Orders'
  BY OrdersStep DEF IInv
<1>3. Orders => AnswersInOrder
  BY DEF Orders, Order, Ordered, AnswersInOrder
<1>4. QED
  BY <1>1, <1>2, <1>3, Invariant, PTL DEF Spec
=============================================================================
