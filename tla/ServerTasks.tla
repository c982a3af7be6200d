----------------------------- MODULE ServerTasks ----------------------------
(***************************************************************************)
(* The tasks of a server (server_main and what it spawns): one handler per *)
(* connection with a writer, a broadcast task and a forwarder, the loop    *)
(* that owns the server state and answers invocations one after another,   *)
(* and the shutdown that stops them all.                                   *)
(*                                                                         *)
(* A client's invocations are numbered.  One travels                       *)
(*     up --> held --> toServer --> loop --> raw --> out --> down          *)
(* from the client's queue and socket, through the handler, the bounded    *)
(* queue of the loop, the method's task, the client's sender, the          *)
(* forwarder, the writer and the socket, back to the client, which holds   *)
(* it in `subs` (method_subs) meanwhile.  Introductions and broadcasts, the*)
(* other traffic of these queues, are the subject of DocumentSync.         *)
(***************************************************************************)
EXTENDS Naturals, Sequences, SequencesExt, FiniteSets

CONSTANTS
  Clients,
  QueueCap,     (* capacity of the loop's queue: 16 in the code            *)
  NoCall,       (* the loop is not invoking, a handler holds no message    *)
  MaxCalls,     (* BOUND: invocations per client                           *)
  MayShutdown   (* BOUND: FALSE for instances without a shutdown           *)

Message == [kind : {"connected", "client", "closed"}, client : Clients,
            call : 0 .. MaxCalls]

ASSUME TasksAssumption ==
  /\ QueueCap \in Nat \ {0}
  /\ MaxCalls \in Nat
  /\ MayShutdown \in BOOLEAN
  /\ NoCall \notin Message
  /\ NoCall \notin [client : Clients, call : 1 .. MaxCalls]

VARIABLES
  conn,       (* conn[c]: the connection, as c sees it                     *)
  calls,      (* calls[c]: invocations c has made                          *)
  subs,       (* subs[c]: invocations c waits for an answer to             *)
  up, down,   (* the two directions of c's connection                      *)
  handler,    (* handler[c]: where client_handler stands                   *)
  held,       (* held[c]: the message the handler is sending to the loop   *)
  told,       (* told[c]: the handler has told its tasks to stop           *)
  writer, bcaster, forwarder,   (* the three tasks of each connection      *)
  raw, out,   (* the queues into the forwarder and into the writer         *)
  toServer,   (* the queue into the loop                                   *)
  loop,       (* where server_state_loop stands                            *)
  call,       (* the invocation the loop awaits the answer of              *)
  active,     (* active_client_info                                        *)
  halt, stop, (* the tokens of the server and of the client tasks          *)
  acceptor,   (* where client_connect_task stands                          *)
  main        (* where server_main stands                                  *)

clientVars == <<conn, calls, subs>>
taskVars == <<writer, bcaster, forwarder>>
loopVars == <<loop, call, active>>
mainVars == <<halt, stop, acceptor, main>>
vars == <<clientVars, up, down, handler, held, told, taskVars, raw, out,
          toServer, loopVars, mainVars>>

-----------------------------------------------------------------------------
Init ==
  /\ conn = [c \in Clients |-> "none"]
  /\ calls = [c \in Clients |-> 0]
  /\ subs = [c \in Clients |-> {}]
  /\ up = [c \in Clients |-> <<>>]
  /\ down = [c \in Clients |-> <<>>]
  /\ handler = [c \in Clients |-> "none"]
  /\ held = [c \in Clients |-> NoCall]
  /\ told = [c \in Clients |-> FALSE]
  /\ writer = [c \in Clients |-> "none"]
  /\ bcaster = [c \in Clients |-> "none"]
  /\ forwarder = [c \in Clients |-> "none"]
  /\ raw = [c \in Clients |-> <<>>]
  /\ out = [c \in Clients |-> <<>>]
  /\ toServer = <<>>
  /\ loop = "idle"
  /\ call = NoCall
  /\ active = {}
  /\ halt = FALSE /\ stop = FALSE
  /\ acceptor = "on"
  /\ main = "running"

-----------------------------------------------------------------------------
(* The client *)

(* Mutant of Connect: the handler reads without registering the client. *)
ConnectUnregistered(c) ==
  /\ conn[c] = "none"
  /\ acceptor = "on"
  /\ conn' = [conn EXCEPT ![c] = "up"]
  /\ handler' = [handler EXCEPT ![c] = "reading"]
  /\ writer' = [writer EXCEPT ![c] = "on"]
  /\ bcaster' = [bcaster EXCEPT ![c] = "on"]
  /\ forwarder' = [forwarder EXCEPT ![c] = "on"]
  /\ UNCHANGED <<calls, subs, up, down, held, told, raw, out, toServer,
                 loopVars, mainVars>>

(* The connection is accepted; the handler has spawned its tasks and is    *)
(* about to register the client.                                           *)
Connect(c) ==
  /\ conn[c] = "none"
  /\ acceptor = "on"
  /\ conn' = [conn EXCEPT ![c] = "up"]
  /\ handler' = [handler EXCEPT ![c] = "sending"]
  /\ held' = [held EXCEPT ![c] =
       [kind |-> "connected", client |-> c, call |-> 0]]
  /\ writer' = [writer EXCEPT ![c] = "on"]
  /\ bcaster' = [bcaster EXCEPT ![c] = "on"]
  /\ forwarder' = [forwarder EXCEPT ![c] = "on"]
  /\ UNCHANGED <<calls, subs, up, down, told, raw, out, toServer, loopVars,
                 mainVars>>

(* invoke_method(): the invocation is remembered, then sent. *)
Invoke(c) ==
  /\ conn[c] = "up"
  /\ calls[c] < MaxCalls
  /\ calls' = [calls EXCEPT ![c] = @ + 1]
  /\ subs' = [subs EXCEPT ![c] = @ \cup {calls[c] + 1}]
  /\ up' = [up EXCEPT ![c] = Append(@, calls[c] + 1)]
  /\ UNCHANGED <<conn, down, handler, held, told, taskVars, raw, out,
                 toServer, loopVars, mainVars>>

(* handle_method_reply(): the reply is matched and forgotten. *)
TakeReply(c) ==
  /\ conn[c] = "up"
  /\ down[c] # <<>>
  /\ subs' = [subs EXCEPT ![c] = @ \ {Head(down[c])}]
  /\ down' = [down EXCEPT ![c] = Tail(@)]
  /\ UNCHANGED <<conn, calls, up, handler, held, told, taskVars, raw, out,
                 toServer, loopVars, mainVars>>

(* The client closes the connection once its messages are written, or loses*)
(* it with the messages the handler has not read.                          *)
Disconnect(c) ==
  /\ conn[c] = "up"
  /\ conn' = [conn EXCEPT ![c] = "down"]
  /\ up' \in {up, [up EXCEPT ![c] = <<>>]}
  /\ down' = [down EXCEPT ![c] = <<>>]
  /\ UNCHANGED <<calls, subs, handler, held, told, taskVars, raw, out,
                 toServer, loopVars, mainVars>>

-----------------------------------------------------------------------------
(* The handler of a connection *)

(* The loop's queue has gone with the loop: sending to it is an error. *)
LoopGone == loop \in {"stopped", "panicked"}

(* Mutant of Submit: the queue takes one message more than its capacity. *)
SubmitOverCapacity(c) ==
  /\ handler[c] = "sending"
  /\ IF LoopGone
     THEN /\ handler' = [handler EXCEPT ![c] = "panicked"]
          /\ UNCHANGED toServer
     ELSE /\ Len(toServer) <= QueueCap
          /\ toServer' = Append(toServer, held[c])
          /\ handler' = [handler EXCEPT ![c] = "reading"]
  /\ held' = [held EXCEPT ![c] = NoCall]
  /\ UNCHANGED <<clientVars, up, down, told, taskVars, raw, out, loopVars,
                 mainVars>>

(* Mutant of Submit: a message that finds the queue full is dropped. *)
SubmitOrDrop(c) ==
  /\ handler[c] = "sending"
  /\ IF LoopGone
     THEN /\ handler' = [handler EXCEPT ![c] = "panicked"]
          /\ UNCHANGED toServer
     ELSE /\ toServer' = IF Len(toServer) < QueueCap
                         THEN Append(toServer, held[c]) ELSE toServer
          /\ handler' = [handler EXCEPT ![c] = "reading"]
  /\ held' = [held EXCEPT ![c] = NoCall]
  /\ UNCHANGED <<clientVars, up, down, told, taskVars, raw, out, loopVars,
                 mainVars>>

(* send(..).await of a registration or of a client's message.  It waits for*)
(* room whether or not the server is stopping; an error is unwrapped.      *)
Submit(c) ==
  /\ handler[c] = "sending"
  /\ IF LoopGone
     THEN /\ handler' = [handler EXCEPT ![c] = "panicked"]
          /\ UNCHANGED toServer
     ELSE /\ Len(toServer) < QueueCap
          /\ toServer' = Append(toServer, held[c])
          /\ handler' = [handler EXCEPT ![c] = "reading"]
  /\ held' = [held EXCEPT ![c] = NoCall]
  /\ UNCHANGED <<clientVars, up, down, told, taskVars, raw, out, loopVars,
                 mainVars>>

Read(c) ==
  /\ handler[c] = "reading"
  /\ up[c] # <<>>
  /\ held' = [held EXCEPT ![c] =
       [kind |-> "client", client |-> c, call |-> Head(up[c])]]
  /\ up' = [up EXCEPT ![c] = Tail(@)]
  /\ handler' = [handler EXCEPT ![c] = "sending"]
  /\ UNCHANGED <<clientVars, down, told, taskVars, raw, out, toServer,
                 loopVars, mainVars>>

(* A ping of the client is sent back through the out queue, and the send is*)
(* unwrapped.  With a writer it is one message more in that queue, of no   *)
(* concern to the invocations; when the writer has gone, with its socket or*)
(* with the server, the handler panics before it has said ClientClosed.    *)
ReadPing(c) ==
  /\ handler[c] = "reading"
  /\ writer[c] # "on"
  /\ handler' = [handler EXCEPT ![c] = "abandoned"]
  /\ UNCHANGED <<clientVars, up, down, held, told, taskVars, raw, out,
                 toServer, loopVars, mainVars>>

(* The reading ends with the connection or with the server. *)
ReadEnd(c) ==
  /\ handler[c] = "reading"
  /\ stop \/ (conn[c] = "down" /\ up[c] = <<>>)
  /\ handler' = [handler EXCEPT ![c] = "leaving"]
  /\ UNCHANGED <<clientVars, up, down, held, told, taskVars, raw, out,
                 toServer, loopVars, mainVars>>

(* Mutant of Leave: the record of the client stays. *)
LeaveSilently(c) ==
  /\ handler[c] = "leaving"
  /\ handler' = [handler EXCEPT ![c] = "stopping"]
  /\ UNCHANGED <<clientVars, up, down, held, told, taskVars, raw, out,
                 toServer, loopVars, mainVars>>

(* ClientClosed is sent, to a loop that may have gone. *)
Leave(c) ==
  /\ handler[c] = "leaving"
  /\ IF LoopGone
     THEN UNCHANGED toServer
     ELSE /\ Len(toServer) < QueueCap
          /\ toServer' = Append(toServer,
               [kind |-> "closed", client |-> c, call |-> 0])
  /\ handler' = [handler EXCEPT ![c] = "stopping"]
  /\ UNCHANGED <<clientVars, up, down, held, told, taskVars, raw, out,
                 loopVars, mainVars>>

(* client_stop_tx.send(1).unwrap(): an error when both tasks have gone. *)
StopTasks(c) ==
  /\ handler[c] = "stopping"
  /\ IF "on" \in {writer[c], bcaster[c]}
     THEN /\ told' = [told EXCEPT ![c] = TRUE]
          /\ handler' = [handler EXCEPT ![c] = "joining"]
     ELSE /\ handler' = [handler EXCEPT ![c] = "panicked"]
          /\ UNCHANGED told
  /\ UNCHANGED <<clientVars, up, down, held, taskVars, raw, out, toServer,
                 loopVars, mainVars>>

(* h1.await.unwrap(); h2.await.unwrap(): panics with a task that did. *)
Join(c) ==
  /\ handler[c] = "joining"
  /\ "on" \notin {writer[c], bcaster[c]}
  /\ handler' = [handler EXCEPT ![c] =
       IF "panicked" \in {writer[c], bcaster[c]} THEN "panicked" ELSE "closed"]
  /\ UNCHANGED <<clientVars, up, down, held, told, taskVars, raw, out,
                 toServer, loopVars, mainVars>>

-----------------------------------------------------------------------------
(* The tasks of a connection *)

HandlerGone(c) == handler[c] \in {"closed", "panicked", "abandoned"}

(* The loop is invoking a method for c. *)
Calling(c) == call # NoCall /\ call.client = c

(* The stop channel of c has spoken, or closed with the handler. *)
MustStop(c) == stop \/ told[c] \/ HandlerGone(c)

(* The writer moves a message to the socket.  Once the connection is down  *)
(* the socket may still take it, or the unwrapped send fails.              *)
Write(c) ==
  /\ writer[c] = "on"
  /\ out[c] # <<>>
  /\ out' = [out EXCEPT ![c] = Tail(@)]
  /\ \/ /\ conn[c] = "up"
        /\ down' = [down EXCEPT ![c] = Append(@, Head(out[c]))]
        /\ UNCHANGED writer
     \/ /\ conn[c] = "down"
        /\ writer' \in {writer, [writer EXCEPT ![c] = "panicked"]}
        /\ UNCHANGED down
  /\ UNCHANGED <<clientVars, up, handler, held, told, bcaster, forwarder,
                 raw, toServer, loopVars, mainVars>>

(* What it writes may also be of the other traffic: a broadcast, the dump, *)
(* a ping sent back.                                                       *)
FailWriter(c) ==
  /\ writer[c] = "on"
  /\ conn[c] = "down"
  /\ writer' = [writer EXCEPT ![c] = "panicked"]
  /\ UNCHANGED <<clientVars, up, down, handler, held, told, bcaster,
                 forwarder, raw, out, toServer, loopVars, mainVars>>

StopWriter(c) ==
  /\ writer[c] = "on"
  /\ MustStop(c)
  /\ writer' = [writer EXCEPT ![c] = "done"]
  /\ UNCHANGED <<clientVars, up, down, handler, held, told, bcaster,
                 forwarder, raw, out, toServer, loopVars, mainVars>>

(* The broadcast task stops, or gets a broadcast after the writer has gone *)
(* and fails to hand it on.                                                *)
StopBcaster(c) ==
  /\ bcaster[c] = "on"
  /\ \/ MustStop(c) /\ bcaster' = [bcaster EXCEPT ![c] = "done"]
     \/ writer[c] # "on" /\ bcaster' = [bcaster EXCEPT ![c] = "panicked"]
  /\ UNCHANGED <<clientVars, up, down, handler, held, told, writer, forwarder,
                 raw, out, toServer, loopVars, mainVars>>

(* client_forwarder hands a message on to the writer. *)
Forward(c) ==
  /\ forwarder[c] = "on"
  /\ raw[c] # <<>>
  /\ raw' = [raw EXCEPT ![c] = Tail(@)]
  /\ IF writer[c] = "on"
     THEN /\ out' = [out EXCEPT ![c] = Append(@, Head(raw[c]))]
          /\ UNCHANGED forwarder
     ELSE /\ forwarder' = [forwarder EXCEPT ![c] = "panicked"]
          /\ UNCHANGED out
  /\ UNCHANGED <<clientVars, up, down, handler, held, told, writer, bcaster,
                 toServer, loopVars, mainVars>>

(* Mutant of StopForwarder: the server's stop is not listened for. *)
StopForwarderLast(c) ==
  /\ forwarder[c] = "on"
  /\ raw[c] = <<>> /\ HandlerGone(c)
  /\ c \notin active /\ ~ Calling(c)
  /\ \A i \in 1 .. Len(toServer) :
       ~ (toServer[i].kind = "connected" /\ toServer[i].client = c)
  /\ forwarder' = [forwarder EXCEPT ![c] = "done"]
  /\ UNCHANGED <<clientVars, up, down, handler, held, told, writer, bcaster,
                 raw, out, toServer, loopVars, mainVars>>

(* It ends when the server stops or when nobody can send to it any more:   *)
(* the handler, the client's record and the loop have let go of the sender.*)
StopForwarder(c) ==
  /\ forwarder[c] = "on"
  /\ \/ stop
     \/ /\ raw[c] = <<>> /\ HandlerGone(c)
        /\ c \notin active /\ ~ Calling(c)
        /\ \A i \in 1 .. Len(toServer) :
             ~ (toServer[i].kind = "connected" /\ toServer[i].client = c)
  /\ forwarder' = [forwarder EXCEPT ![c] = "done"]
  /\ UNCHANGED <<clientVars, up, down, handler, held, told, writer, bcaster,
                 raw, out, toServer, loopVars, mainVars>>

-----------------------------------------------------------------------------
(* The loop that owns the server state *)

(* It takes the next message: a client comes, goes, or invokes a method.   *)
(* The record of an invoking client is looked up and unwrapped.            *)
Take ==
  /\ loop = "idle"
  /\ toServer # <<>>
  /\ LET m == Head(toServer) IN
       \/ /\ m.kind = "connected"
          /\ active' = active \cup {m.client}
          /\ UNCHANGED <<loop, call>>
       \/ /\ m.kind = "closed"
          /\ active' = active \ {m.client}
          /\ UNCHANGED <<loop, call>>
       \/ /\ m.kind = "client" /\ m.client \in active
          /\ loop' = "invoking"
          /\ call' = [client |-> m.client, call |-> m.call]
          /\ UNCHANGED active
       \/ /\ m.kind = "client" /\ m.client \notin active
          /\ loop' = "panicked"
          /\ UNCHANGED <<call, active>>
  /\ toServer' = Tail(toServer)
  /\ UNCHANGED <<clientVars, up, down, handler, held, told, taskVars, raw, out,
                 mainVars>>

(* Mutant of Answer: every active client is sent the reply. *)
AnswerEveryone ==
  /\ loop = "invoking"
  /\ raw' = [c \in Clients |->
       IF c \in active /\ forwarder[c] = "on"
       THEN Append(raw[c], call.call) ELSE raw[c]]
  /\ loop' = "idle"
  /\ call' = NoCall
  /\ UNCHANGED <<clientVars, up, down, handler, held, told, taskVars, out,
                 toServer, active, mainVars>>

(* Mutant of Answer: an exception ends the handling without a reply. *)
AnswerOrNothing ==
  /\ loop = "invoking"
  /\ raw' \in {raw, [raw EXCEPT ![call.client] = Append(@, call.call)]}
  /\ loop' = "idle"
  /\ call' = NoCall
  /\ UNCHANGED <<clientVars, up, down, handler, held, told, taskVars, out,
                 toServer, active, mainVars>>

(* invoke_helper() comes back, from the method's task or with an exception *)
(* of its own, and the reply goes to the client's sender, which may be     *)
(* closed by now.  The loop does nothing else meanwhile.                   *)
Answer ==
  /\ loop = "invoking"
  /\ raw' = IF forwarder[call.client] = "on"
            THEN [raw EXCEPT ![call.client] = Append(@, call.call)] ELSE raw
  /\ loop' = "idle"
  /\ call' = NoCall
  /\ UNCHANGED <<clientVars, up, down, handler, held, told, taskVars, out,
                 toServer, active, mainVars>>

StopLoop ==
  /\ loop = "idle"
  /\ stop
  /\ loop' = "stopped"
  /\ toServer' = <<>>
  /\ UNCHANGED <<clientVars, up, down, handler, held, told, taskVars, raw,
                 out, call, active, mainVars>>

-----------------------------------------------------------------------------
(* Shutdown *)

(* shutdown(), from the application or from a method. *)
Shutdown ==
  /\ MayShutdown
  /\ ~ halt
  /\ halt' = TRUE
  /\ UNCHANGED <<clientVars, up, down, handler, held, told, taskVars, raw, out,
                 toServer, loopVars, stop, acceptor, main>>

(* shutdown_watcher *)
Watch ==
  /\ halt /\ ~ stop
  /\ stop' = TRUE
  /\ UNCHANGED <<clientVars, up, down, handler, held, told, taskVars, raw, out,
                 toServer, loopVars, halt, acceptor, main>>

StopAcceptor ==
  /\ acceptor = "on" /\ stop
  /\ acceptor' = "done"
  /\ UNCHANGED <<clientVars, up, down, handler, held, told, taskVars, raw, out,
                 toServer, loopVars, halt, stop, main>>

(* server_main returns when the loop, the watcher and the acceptor have. *)
Return ==
  /\ main = "running"
  /\ loop = "stopped" /\ stop /\ acceptor = "done"
  /\ main' = "returned"
  /\ UNCHANGED <<clientVars, up, down, handler, held, told, taskVars, raw, out,
                 toServer, loopVars, halt, stop, acceptor>>

-----------------------------------------------------------------------------
ClientStep(c) == Connect(c) \/ Invoke(c) \/ Disconnect(c)

HandlerStep(c) ==
  \/ Submit(c) \/ Read(c) \/ ReadPing(c) \/ ReadEnd(c)
  \/ Leave(c) \/ StopTasks(c) \/ Join(c)

TaskStep(c) ==
  \/ Write(c) \/ FailWriter(c) \/ StopWriter(c) \/ StopBcaster(c)
  \/ Forward(c) \/ StopForwarder(c)

Next ==
  \/ \E c \in Clients :
       ClientStep(c) \/ TakeReply(c) \/ HandlerStep(c) \/ TaskStep(c)
  \/ Take \/ Answer \/ StopLoop
  \/ Shutdown \/ Watch \/ StopAcceptor \/ Return

Spec == Init /\ [][Next]_vars

(* Tasks are scheduled whenever they can run.  Submitting waits for room in*)
(* a queue that other handlers fill, tokio::select! picks among the ready  *)
(* branches at random and a mutex or semaphore of tokio is handed over in  *)
(* turn, so a step that can be taken again and again is taken: strong      *)
(* fairness for those that others can disable.  Clients come, invoke, ping  *)
(* and go as they please, but read their replies; methods return.          *)
FairSpec ==
  /\ Spec
  /\ \A c \in Clients :
       /\ WF_vars(TakeReply(c))
       /\ SF_vars(Submit(c)) /\ WF_vars(Read(c)) /\ WF_vars(ReadEnd(c))
       /\ SF_vars(Leave(c)) /\ WF_vars(StopTasks(c)) /\ WF_vars(Join(c))
       /\ WF_vars(Write(c)) /\ WF_vars(StopWriter(c)) /\ WF_vars(StopBcaster(c))
       /\ WF_vars(Forward(c)) /\ WF_vars(StopForwarder(c))
  /\ WF_vars(Take) /\ WF_vars(Answer) /\ SF_vars(StopLoop)
  /\ WF_vars(Watch) /\ WF_vars(StopAcceptor) /\ WF_vars(Return)

-----------------------------------------------------------------------------
(* Properties *)

TaskState == {"none", "on", "done", "panicked"}

(* The variables have the types of the queues and tasks they stand for; the*)
(* loop's queue is within its capacity.                                    *)
TypeOK ==
  /\ conn \in [Clients -> {"none", "up", "down"}]
  /\ calls \in [Clients -> 0 .. MaxCalls]
  /\ subs \in [Clients -> SUBSET (1 .. MaxCalls)]
  /\ up \in [Clients -> Seq(1 .. MaxCalls)]
  /\ down \in [Clients -> Seq(1 .. MaxCalls)]
  /\ handler \in [Clients -> {"none", "sending", "reading", "leaving",
                              "stopping", "joining", "closed", "panicked",
                              "abandoned"}]
  /\ held \in [Clients -> Message \cup {NoCall}]
  /\ told \in [Clients -> BOOLEAN]
  /\ writer \in [Clients -> TaskState]
  /\ bcaster \in [Clients -> TaskState]
  /\ forwarder \in [Clients -> TaskState]
  /\ raw \in [Clients -> Seq(1 .. MaxCalls)]
  /\ out \in [Clients -> Seq(1 .. MaxCalls)]
  /\ toServer \in Seq(Message) /\ Len(toServer) <= QueueCap
  /\ loop \in {"idle", "invoking", "stopped", "panicked"}
  /\ call \in [client : Clients, call : 1 .. MaxCalls] \cup {NoCall}
  /\ active \in SUBSET Clients
  /\ halt \in BOOLEAN /\ stop \in BOOLEAN
  /\ acceptor \in {"on", "done"}
  /\ main \in {"running", "returned"}

(* When the loop takes a client's message, the client's record is there: it*)
(* was registered before and is not closed yet.  The loop unwraps it.      *)
KnownSenders ==
  /\ loop # "panicked"
  /\ \A i \in 1 .. Len(toServer) :
       toServer[i].kind = "client" =>
         /\ \/ toServer[i].client \in active
            \/ \E j \in 1 .. i - 1 :
                 toServer[j] = [kind |-> "connected", call |-> 0,
                                client |-> toServer[i].client]
         /\ \A j \in 1 .. i - 1 :
              toServer[j].client = toServer[i].client =>
                toServer[j].kind # "closed"

(* The calls of c in the messages q, in order. *)
CallsOf(c, q) ==
  FoldLeft(LAMBDA s, m :
             IF m.kind = "client" /\ m.client = c THEN Append(s, m.call) ELSE s,
           <<>>, q)

(* Those in the loop's queue. *)
Queued(c) == CallsOf(c, toServer)

(* Everything under way for c, the oldest first. *)
Pipeline(c) ==
  down[c] \o out[c] \o raw[c]
    \o (IF Calling(c) THEN <<call.call>> ELSE <<>>)
    \o Queued(c)
    \o (IF held[c] # NoCall /\ held[c].kind = "client"
        THEN <<held[c].call>> ELSE <<>>)
    \o up[c]

InOrder(q) == \A i, j \in 1 .. Len(q) : i < j => q[i] < q[j]

(* While a client is connected to a server that is not stopping, each of   *)
(* its unanswered invocations is in exactly one place, nothing else is     *)
(* under way to it, and answers come in the order of the invocations.      *)
AnswersInOrder ==
  \A c \in Clients : conn[c] = "up" /\ ~ stop =>
    InOrder(Pipeline(c)) /\ ToSet(Pipeline(c)) = subs[c]

(* Every invocation is answered, unless its connection ends or the server  *)
(* stops.                                                                  *)
InvocationsAnswered ==
  \A c \in Clients : \A i \in 1 .. MaxCalls :
    i \in subs[c] ~> i \notin subs[c] \/ conn[c] = "down" \/ stop

(* Once a connection is down its handler ends, and the record of the client*)
(* is removed unless the loop has stopped, or the handler has read a ping  *)
(* after its writer had gone: no other failure of a task, and no order of  *)
(* them, leaves the record of a client behind.                             *)
ConnectionsCleanedUp ==
  \A c \in Clients :
    conn[c] = "down" ~> /\ HandlerGone(c)
                        /\ c \notin active \/ LoopGone \/ handler[c] = "abandoned"

(* A shutdown brings server_main to its end and with it every task, those  *)
(* that handle a connection included.                                      *)
ShutdownCompletes ==
  halt ~> /\ main = "returned"
          /\ \A c \in Clients :
               /\ handler[c] = "none" \/ HandlerGone(c)
               /\ "on" \notin {writer[c], bcaster[c], forwarder[c]}
=============================================================================
