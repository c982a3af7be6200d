--------------------------- MODULE ClientSession ---------------------------
(* One client session: the connection's tasks (start_client_stream(),      *)
(* incoming_message_task(), forward_task()), the worker thread that hands  *)
(* messages to the ClientState (launch_client_worker_thread()), and what   *)
(* the ClientState keeps: delegates, their names, open invocations.        *)
(*                                                                         *)
(* The worker runs the application's callbacks, one at a time, between     *)
(* taking a message and taking the next; the delegate called is out of its *)
(* list meanwhile.  A callback may invoke methods, shut the session down,  *)
(* and use other delegates.  The server is any that respects the protocol: *)
(* a component is created before it is named in a message, deleted once,   *)
(* and an ID is not used again.  It may send the frames of a websocket that*)
(* hold no messages, a ping or its close frame, at any time.               *)
(*                                                                         *)
(* One component list stands for the thirteen, which are instances of one  *)
(* type.  A frame of several messages is that many frames: the worker does *)
(* nothing between the messages of one.                                    *)
EXTENDS Integers, SequencesExt, FiniteSetsExt

CONSTANTS
  Names,          (* names of components *)
  NoName,         (* a component without a name *)
  Document,       (* the document delegate *)
  NoCallback,     (* the worker is in no callback *)
  DistinctNames,  (* TRUE: no two components have one name at a time *)
  InFlight,       (* bound: frames between the server and the worker *)
  MaxIds,         (* bound: components the server creates *)
  MaxSends,       (* bound: messages of the server *)
  MaxCalls,       (* bound: invocations *)
  MaxResets       (* bound: document resets *)

ASSUME SessionConstants ==
  /\ NoName \notin Names
  /\ Document \notin 1 .. MaxIds
  /\ DistinctNames \in BOOLEAN
  /\ {InFlight, MaxIds, MaxSends, MaxCalls, MaxResets} \subseteq Nat

VARIABLES
  (* the server's side *)
  issued,     (* how many IDs it has issued *)
  live,       (* the names of the components of the server's document *)
  asked,      (* invocations it has received and not answered *)
  sent,       (* messages it has sent *)
  resets,     (* resets among them *)
  peer,       (* the socket, seen from it: "open", "closing", "over" *)
  wire,       (* frames the client has not read *)
  (* the connection's tasks *)
  incoming, incomingStop,   (* incoming_message_task and its stop receiver *)
  forward, forwardStop,     (* forward_task and its stop receiver *)
  inbox,      (* to_client_tx .. to_client_rx *)
  output,     (* from_client_tx .. from_client_rx *)
  (* the worker thread and its ClientState *)
  worker,     (* "misread": it panicked over a frame without messages *)
  calling,    (* the callback it runs *)
  components, (* IDs of the delegates in the list *)
  mistyped,   (* IDs whose delegates a mutate_* has taken out for good *)
  nameMap,    (* name_map *)
  revMap,     (* name_rev_map *)
  subs,       (* method_subs: the open invocations and their contexts *)
  epoch,      (* resets it has handled *)
  made        (* the epoch in which each invocation was made *)

serverVars == <<issued, live, sent, resets>>
taskVars == <<incoming, incomingStop, forward, forwardStop>>
stops == <<incomingStop, forwardStop>>
nameVars == <<nameMap, revMap>>
listVars == <<components, mistyped, nameVars>>
history == <<epoch, made>>
stateVars == <<listVars, subs, history>>
vars == <<serverVars, asked, peer, wire, taskVars, inbox, output, worker,
          calling, stateVars>>

(* IDs, in the order in which they are issued. *)
Ids == 1 .. MaxIds
Calls == 1 .. MaxCalls
Contexts == Ids \cup {Document}
Close == 0        (* OutgoingMessage::Close; invocations are their numbers *)

(* What the server can send (FromServer).  An update, a signal, and, for   *)
(* the document, MsgDocumentInitialized each run a callback of the         *)
(* delegate they are for: they are "notify".                               *)
Messages ==
  [kind : {"create"}, id : Ids, name : Names \cup {NoName}]
  \cup [kind : {"delete"}, id : Ids]
  \cup [kind : {"notify"}, id : Contexts]
  \cup [kind : {"reply"}, call : Calls]
  \cup [kind : {"reset"}]

(* Other things socket_rx.next() yields: a ping (a pong or a text frame is *)
(* as good), the close frame of the server, a failure, and the end of the  *)
(* stream after a close frame.                                             *)
Ping == [kind |-> "ping"]
CloseFrame == [kind |-> "close"]
SocketError == [kind |-> "error"]
StreamEnd == [kind |-> "end"]
(* IncomingMessage::Closed *)
Closed == [kind |-> "closed"]

Callbacks ==
  [kind : {"make"}, id : Ids, name : Names \cup {NoName}]
  \cup [kind : {"notified"}, id : Contexts]
  \cup [kind : {"replied"}, id : Contexts, call : Calls]

ASSUME CallbackConstants == NoCallback \notin Callbacks

Empty == [x \in {} |-> x]
Put(f, x, v) == [y \in DOMAIN f \cup {x} |-> IF y = x THEN v ELSE f[y]]
Without(f, x) == [y \in DOMAIN f \ {x} |-> f[y]]

Init ==
  /\ issued = 0 /\ live = Empty
  /\ sent = 0 /\ resets = 0
  /\ asked = {} /\ peer = "open" /\ wire = <<>>
  /\ incoming = "spawned" /\ incomingStop = FALSE
  /\ forward = "on" /\ forwardStop = FALSE
  /\ inbox = <<>> /\ output = <<>>
  /\ worker = "on" /\ calling = NoCallback
  /\ components = {} /\ mistyped = {}
  /\ nameMap = Empty /\ revMap = Empty
  /\ subs = Empty /\ epoch = 0 /\ made = Empty

-----------------------------------------------------------------------------
(* The server and the network *)

Send(m) ==
  /\ peer # "over"
  /\ sent < MaxSends
  /\ Len(wire) + Len(inbox) < InFlight
  /\ sent' = sent + 1
  /\ wire' = Append(wire, m)

ServeCreate(id, name) ==
  /\ id = issued + 1
  /\ DistinctNames /\ name # NoName => \A i \in DOMAIN live : live[i] # name
  /\ Send([kind |-> "create", id |-> id, name |-> name])
  /\ issued' = id
  /\ live' = Put(live, id, name)
  /\ UNCHANGED <<asked, peer, resets>>

ServeDelete(id) ==
  /\ id \in DOMAIN live
  /\ Send([kind |-> "delete", id |-> id])
  /\ live' = Without(live, id)
  /\ UNCHANGED <<issued, asked, peer, resets>>

ServeNotice(id) ==
  /\ id \in DOMAIN live \cup {Document}
  /\ Send([kind |-> "notify", id |-> id])
  /\ UNCHANGED <<issued, live, asked, peer, resets>>

ServeReply(i) ==
  /\ i \in asked
  /\ Send([kind |-> "reply", call |-> i])
  /\ asked' = asked \ {i}
  /\ UNCHANGED <<issued, live, peer, resets>>

ServeReset ==
  /\ resets < MaxResets
  /\ Send([kind |-> "reset"])
  /\ resets' = resets + 1
  /\ live' = Empty
  /\ UNCHANGED <<issued, asked, peer>>

ServePing ==
  /\ Send(Ping)
  /\ UNCHANGED <<issued, live, asked, peer, resets>>

(* The connection is lost, with some of what was under way. *)
Lose ==
  /\ peer # "over"
  /\ peer' = "over"
  /\ \E k \in 0 .. Len(wire) :
       wire' = Append(SubSeq(wire, 1, k), SocketError)
  /\ UNCHANGED <<serverVars, asked>>

(* The server closes the connection: its close frame answers the client's, *)
(* or it is the first to close.                                            *)
ServeClose ==
  /\ peer # "over"
  /\ peer' = "over"
  /\ wire' = wire \o <<CloseFrame, StreamEnd>>
  /\ UNCHANGED <<serverVars, asked>>

Serve ==
  /\ \/ \E id \in Ids, n \in Names \cup {NoName} : ServeCreate(id, n)
     \/ \E id \in Ids : ServeDelete(id)
     \/ \E id \in Contexts : ServeNotice(id)
     \/ \E i \in Calls : ServeReply(i)
     \/ ServeReset
     \/ ServePing
     \/ Lose
     \/ ServeClose
  /\ UNCHANGED <<taskVars, inbox, output, worker, calling, stateVars>>
-----------------------------------------------------------------------------
(* incoming_message_task *)

(* The task starts to run: only now does it subscribe to the stop channel. *)
IncomingStarts ==
  /\ incoming = "spawned"
  /\ incoming' = "on"
  /\ UNCHANGED <<wire, inbox, incomingStop>>

IncomingStops ==
  /\ incoming = "on" /\ incomingStop
  /\ incoming' = "ended"
  /\ UNCHANGED <<wire, inbox, incomingStop>>

(* What the socket yields is passed on: any frame as a NetworkMessage, a   *)
(* failure as Closed.  The end of the stream is unwrapped, and so is the   *)
(* send to a worker that has gone.                                         *)
IncomingReads ==
  /\ incoming = "on"
  /\ wire # <<>>
  /\ wire' = Tail(wire)
  /\ IF Head(wire) = StreamEnd \/ worker # "on"
     THEN incoming' = "panicked" /\ UNCHANGED inbox
     ELSE IF Head(wire) = SocketError
          THEN incoming' = "ended" /\ inbox' = Append(inbox, Closed)
          ELSE inbox' = Append(inbox, Head(wire)) /\ UNCHANGED incoming
  /\ UNCHANGED incomingStop

Incoming ==
  /\ IncomingStarts \/ IncomingStops \/ IncomingReads
  /\ UNCHANGED <<serverVars, asked, peer, forward, forwardStop, output,
                 worker, calling, stateVars>>

-----------------------------------------------------------------------------
(* forward_task *)

(* stopper.send(1): whoever is subscribed will see it. *)
StopSent ==
  /\ incomingStop' = (incomingStop \/ incoming = "on")
  /\ forwardStop' = (forwardStop \/ forward \in {"on", "closing"})

ForwardStops ==
  /\ forward = "on" /\ forwardStop
  /\ forward' = "ended"
  /\ UNCHANGED <<asked, peer, output, incomingStop, forwardStop>>

(* An invocation is written to the socket.  Writing to a lost socket may   *)
(* fail, which is unwrapped.                                               *)
ForwardSends ==
  /\ forward = "on"
  /\ output # <<>> /\ Head(output) # Close
  /\ output' = Tail(output)
  /\ IF peer = "over"
     THEN forward' \in {"on", "panicked"} /\ UNCHANGED asked
     ELSE asked' = asked \cup {Head(output)} /\ UNCHANGED forward
  /\ UNCHANGED <<peer, incomingStop, forwardStop>>

(* Close: socket_out.close() is awaited... *)
ForwardCloses ==
  /\ forward = "on"
  /\ output # <<>> /\ Head(output) = Close
  /\ output' = Tail(output)
  /\ IF peer = "over"
     THEN forward' \in {"closing", "panicked"} /\ UNCHANGED peer
     ELSE forward' = "closing" /\ peer' = "closing"
  /\ UNCHANGED <<asked, incomingStop, forwardStop>>

(* ...and then everybody is told to stop. *)
ForwardTellsAll ==
  /\ forward = "closing"
  /\ forward' = "ended"
  /\ StopSent
  /\ UNCHANGED <<asked, peer, output>>

Forward ==
  /\ ForwardStops \/ ForwardSends \/ ForwardCloses \/ ForwardTellsAll
  /\ UNCHANGED <<serverVars, wire, incoming, inbox, worker, calling,
                 stateVars>>

-----------------------------------------------------------------------------
(* ComponentList *)

OnCreate(id, name) ==
  /\ components' = components \cup {id}
  /\ IF name = NoName
     THEN UNCHANGED <<nameMap, revMap>>
     ELSE /\ nameMap' = Put(nameMap, name, id)
          /\ revMap' = Put(revMap, id, name)

(* Mutant of OnDelete: the component keeps its name. *)
OnDeleteNamed(id) ==
  /\ components' = components \ {id}
  /\ UNCHANGED <<nameMap, revMap>>

(* The name goes, whichever component has it by now. *)
OnDelete(id) ==
  /\ components' = components \ {id}
  /\ IF id \in DOMAIN revMap
     THEN /\ nameMap' = Without(nameMap, revMap[id])
          /\ revMap' = Without(revMap, id)
     ELSE UNCHANGED <<nameMap, revMap>>

(* take() for a callback; the document delegate is taken out of its Option,*)
(* where nothing else looks for it.                                        *)
TakeOut(id) == components' = components \ {id}

(* Mutant of PutBack: the delegate is not put back. *)
PutBackNothing(id) == components' = components

(* replace() after it. *)
PutBack(id) ==
  components' = IF id = Document THEN components ELSE components \cup {id}

(* Mutant of Clear: method_subs stays. *)
ClearLists ==
  /\ components' = {}
  /\ nameMap' = Empty
  /\ UNCHANGED subs

(* ClientState::clear(): clear() of the lists leaves name_rev_map alone.   *)
Clear ==
  /\ components' = {}
  /\ nameMap' = Empty
  /\ subs' = Empty

-----------------------------------------------------------------------------
(* The worker thread *)

(* A panic unwinds the thread: its ends of the channels are dropped, and   *)
(* nobody is told to stop.                                                 *)
Panic ==
  /\ worker' = "panicked"
  /\ UNCHANGED <<stops, output, calling, stateVars>>

(* Mutant of Finish: the stop channel is not used. *)
FinishSilently ==
  /\ worker' = "ended"
  /\ Clear
  /\ UNCHANGED <<stops, output, calling, revMap, mistyped, history>>

(* The loop has ended: stop the tasks, clear the state. *)
Finish ==
  /\ worker' = "ended"
  /\ StopSent
  /\ Clear
  /\ UNCHANGED <<output, calling, revMap, mistyped, history>>

Enter(callback) ==
  /\ calling' = callback
  /\ UNCHANGED <<worker, stops, output, nameVars, mistyped, history>>

Ignore == UNCHANGED <<worker, stops, output, calling, stateVars>>

(* A component is created: the maker is asked for its delegate first.      *)
HandleCreate(m) ==
  /\ m.kind = "create"
  /\ Enter([kind |-> "make", id |-> m.id, name |-> m.name])
  /\ UNCHANGED <<components, subs>>

(* The delegate's on_delete() has no access to the state.  A delegate that *)
(* is not listed is unwrapped.                                             *)
HandleDelete(m) ==
  /\ m.kind = "delete"
  /\ IF m.id \in components
     THEN /\ OnDelete(m.id)
          /\ UNCHANGED <<worker, stops, output, calling, mistyped, subs,
                         history>>
     ELSE Panic

(* An update or a signal: the delegate is taken out of its list and called.*)
(* One that is not listed hears nothing of it.                             *)
HandleNotice(m) ==
  /\ m.kind = "notify" /\ m.id # Document
  /\ IF m.id \in components
     THEN /\ TakeOut(m.id)
          /\ Enter([kind |-> "notified", id |-> m.id])
          /\ UNCHANGED subs
     ELSE Ignore

(* So is the document, whose callbacks are given the ClientState. *)
HandleDocument(m) ==
  /\ m.kind = "notify" /\ m.id = Document
  /\ Enter([kind |-> "notified", id |-> Document])
  /\ UNCHANGED <<components, subs>>

(* handle_method_reply(): the invocation is closed, and the delegate it    *)
(* was made for is called if it still is listed.                           *)
HandleReply(m) ==
  /\ m.kind = "reply"
  /\ IF m.call \notin DOMAIN subs
     THEN Ignore
     ELSE LET id == subs[m.call] IN
       /\ subs' = Without(subs, m.call)
       /\ IF id \in components \cup {Document}
          THEN /\ TakeOut(id)
               /\ Enter([kind |-> "replied", id |-> id, call |-> m.call])
          ELSE UNCHANGED <<worker, stops, output, calling, listVars, history>>

HandleReset(m) ==
  /\ m.kind = "reset"
  /\ Clear
  /\ epoch' = epoch + 1
  /\ UNCHANGED <<worker, stops, output, calling, revMap, mistyped, made>>

HandleClosed(m) == m = Closed /\ Finish

(* A ping or a close frame has no messages in it: decoding its data is     *)
(* unwrapped.                                                              *)
HandleOtherFrame(m) ==
  /\ m \in {Ping, CloseFrame}
  /\ worker' = "misread"
  /\ UNCHANGED <<stops, output, calling, stateVars>>

(* blocking_recv() yields a frame. *)
WorkerTakes ==
  /\ worker = "on" /\ calling = NoCallback
  /\ inbox # <<>>
  /\ inbox' = Tail(inbox)
  /\ LET m == Head(inbox) IN
       \/ HandleCreate(m) \/ HandleDelete(m) \/ HandleNotice(m)
       \/ HandleDocument(m) \/ HandleReply(m) \/ HandleReset(m)
       \/ HandleClosed(m) \/ HandleOtherFrame(m)

(* blocking_recv() yields None: the queue is empty and its sender gone. *)
WorkerEnds ==
  /\ worker = "on" /\ calling = NoCallback
  /\ inbox = <<>> /\ incoming \in {"ended", "panicked"}
  /\ Finish
  /\ UNCHANGED inbox

InCallback == worker = "on" /\ calling # NoCallback
OfDocument == InCallback /\ calling.id = Document

(* The queue to forward_task has its receiver. *)
ForwardListens == forward \in {"on", "closing"}

(* invoke_method(), for which a callback needs the ClientState: only the   *)
(* document's have it.  The send to a task that has gone is unwrapped.     *)
InvokeMethod(context) ==
  LET i == Cardinality(DOMAIN made) + 1 IN
  /\ OfDocument
  /\ i \in Calls
  /\ context \in components \cup {Document}
  /\ IF ForwardListens
     THEN /\ subs' = Put(subs, i, context)
          /\ made' = Put(made, i, epoch)
          /\ output' = Append(output, i)
          /\ UNCHANGED <<worker, stops, calling, listVars, epoch>>
     ELSE Panic

(* shutdown(), likewise.  Callbacks do not repeat it before forward_task   *)
(* has taken it.                                                           *)
Shutdown ==
  /\ OfDocument
  /\ ~ Contains(output, Close)
  /\ IF ForwardListens
     THEN /\ output' = Append(output, Close)
          /\ UNCHANGED <<worker, stops, calling, stateVars>>
     ELSE Panic

(* A callback uses mutate_entity_list() and the like with a type that is   *)
(* not that of the delegate: it is taken, and the early return drops it.   *)
(* With the right type it is taken and put back.                           *)
MutateMistyped(id) ==
  /\ InCallback
  /\ id \in components
  /\ components' = components \ {id}
  /\ mistyped' = mistyped \cup {id}
  /\ UNCHANGED <<worker, stops, output, calling, nameVars, subs, history>>

(* The callback returns: the new delegate is listed, or the one that was   *)
(* called goes back.                                                       *)
Return ==
  /\ InCallback
  /\ calling' = NoCallback
  /\ IF calling.kind = "make"
     THEN OnCreate(calling.id, calling.name)
     ELSE PutBack(calling.id) /\ UNCHANGED nameVars
  /\ UNCHANGED <<worker, stops, output, mistyped, subs, history>>

Callback ==
  /\ \/ \E c \in Contexts : InvokeMethod(c)
     \/ Shutdown
     \/ \E id \in Ids : MutateMistyped(id)
     \/ Return
  /\ UNCHANGED inbox

Worker ==
  /\ WorkerTakes \/ WorkerEnds \/ Callback
  /\ UNCHANGED <<serverVars, asked, peer, wire, incoming, forward>>

Next == Serve \/ Incoming \/ Forward \/ Worker

(* The tasks are polled, the thread is scheduled and callbacks return.     *)
(* Nothing is assumed of the server or the network, nor that a callback    *)
(* does anything before it returns.                                        *)
Fairness ==
  /\ WF_vars(Incoming) /\ WF_vars(Forward)
  /\ WF_vars(Worker /\ (WorkerTakes \/ WorkerEnds \/ Return))

Spec == Init /\ [][Next]_vars
FairSpec == Spec /\ Fairness

-----------------------------------------------------------------------------
Frames == Messages \cup {Ping, CloseFrame}

TypeOK ==
  /\ issued \in 0 .. MaxIds
  /\ DOMAIN live \subseteq 1 .. issued
  /\ sent \in 0 .. MaxSends /\ resets \in 0 .. MaxResets
  /\ asked \subseteq Calls
  /\ peer \in {"open", "closing", "over"}
  /\ \A i \in 1 .. Len(wire) : wire[i] \in Frames \cup {SocketError, StreamEnd}
  /\ \A i \in 1 .. Len(inbox) : inbox[i] \in Frames \cup {Closed}
  /\ \A i \in 1 .. Len(output) : output[i] \in Calls \cup {Close}
  /\ incoming \in {"spawned", "on", "ended", "panicked"}
  /\ forward \in {"on", "closing", "ended", "panicked"}
  /\ worker \in {"on", "ended", "panicked", "misread"}
  /\ {incomingStop, forwardStop} \subseteq BOOLEAN
  /\ calling \in Callbacks \cup {NoCallback}
  /\ components \subseteq Ids /\ mistyped \subseteq Ids \ components
  /\ DOMAIN nameMap \subseteq Names /\ Range(nameMap) \subseteq Ids
  /\ DOMAIN revMap \subseteq Ids /\ Range(revMap) \subseteq Names
  /\ DOMAIN subs \subseteq DOMAIN made /\ Range(subs) \subseteq Contexts
  /\ DOMAIN made \subseteq Calls /\ epoch \in Nat

(* The delegates of the document: those listed and the one being called. *)
Present ==
  IF calling # NoCallback /\ calling.kind # "make"
  THEN components \cup ({calling.id} \ {Document}) ELSE components

(* While the server gives no name twice, a delegate that was created with a*)
(* name is found by it, through deletions, resets and reuse of names, and  *)
(* no name leads to a component that is gone; but a delegate that a        *)
(* callback has lost keeps its name.                                       *)
NamesAgree ==
  worker = "on" /\ DistinctNames =>
    /\ \A id \in Present \cap DOMAIN revMap :
         revMap[id] \in DOMAIN nameMap /\ nameMap[revMap[id]] = id
    /\ Range(nameMap) \subseteq Present \cup mistyped

(* No message brings the worker down while forward_task runs, unless a     *)
(* callback has lost a delegate.  A frame without messages does, a ping as *)
(* well as the server's close frame: that is "misread", and not claimed.   *)
WorkerSurvives ==
  worker = "panicked" => forward # "on" \/ mistyped # {}

(* How many times an invocation or its reply is under way. *)
UnderWay(i) ==
  Cardinality({k \in 1 .. Len(output) : output[k] = i})
  + Cardinality({i} \cap asked)
  + Cardinality({k \in 1 .. Len(wire) :
                   wire[k] = [kind |-> "reply", call |-> i]})
  + Cardinality({k \in 1 .. Len(inbox) :
                   inbox[k] = [kind |-> "reply", call |-> i]})

(* The invocations a ClientState has open are those it made since the last *)
(* reset and whose answer is under way: none is lost or answered twice, and*)
(* the delegates of a new document get no reply the old ones asked for.    *)
InvocationsTracked ==
  worker = "on" /\ forward = "on" /\ peer = "open" =>
    \A i \in DOMAIN made :
      /\ UnderWay(i) <= 1
      /\ i \in DOMAIN subs <=> UnderWay(i) = 1 /\ made[i] = epoch

HasEnded(t) == t \in {"ended", "panicked", "misread"}

(* Once the application has shut the session down, the server has closed   *)
(* it or the connection is lost, incoming_message_task and the worker end, *)
(* and so does forward_task, whatever the peer does; but a worker that     *)
(* panicked over a delegate a callback had lost, or over a frame without   *)
(* messages, leaves forward_task waiting for a stop nobody sends.          *)
SessionEnds ==
  peer = "over" \/ Contains(output, Close)
    ~> /\ HasEnded(incoming) /\ HasEnded(worker)
       /\ \/ HasEnded(forward)
          \/ worker = "misread"
          \/ worker = "panicked" /\ mistyped # {}
=============================================================================
