---------------------------- MODULE TableSystem -----------------------------
(***************************************************************************)
(* A table that a server shares (TableSystem, TableController and its      *)
(* BasicTable) and the copies that subscribed clients keep of it           *)
(* (AdvTableDelegate and its BasicTable).                                  *)
(*                                                                         *)
(* Clients change the table by invoking its methods, which the server's    *)
(* loop runs one after another; the application changes it directly, from  *)
(* a thread of its own.  Every change is made and sent to the subscribers  *)
(* under the table's mutex.  A subscription copies the table under that    *)
(* mutex too, but its reply is sent by the loop afterwards.                *)
(*                                                                         *)
(* A client's sender, forwarder, writer, socket and worker are one queue   *)
(* here, `inbox`, and its requests to the loop another; ServerTasks takes  *)
(* them apart.  The table keeps the sender of a subscriber for ever.       *)
(***************************************************************************)
EXTENDS Integers, Sequences, SequencesExt

CONSTANTS
  Clients,
  Rows,           (* contents of a row                                     *)
  Idle,           (* no invocation or change is under way                  *)
  Gone,           (* the application's thread has panicked                 *)
  NoCopy,         (* the client has no storage for the table               *)
  AppLocksState,  (* TRUE: the application changes the table while it holds*)
                  (* the mutex of the ServerState                          *)
  MaxKeys,        (* BOUND: keys                                           *)
  Asked,          (* BOUND: changes that clients ask for                   *)
  Made,           (* BOUND: changes that the application makes             *)
  MaxAsks,        (* BOUND: invocations by clients                          *)
  MaxChanges      (* BOUND: changes by the application                     *)

Keys == 0 .. MaxKeys - 1

Changes ==
  [op : {"insert"}, row : Rows] \cup [op : {"update"}, key : Keys, row : Rows]
    \cup [op : {"remove"}, key : Keys] \cup [op : {"clear"}]
    \cup [op : {"select"}, selection : {"rows", "empty"}]

SubscribeOp == [op |-> "subscribe"]

Methods == {"subscribe", "insert", "update", "remove", "clear", "select"}

Maps == UNION {[K -> Rows] : K \in SUBSET Keys}

(* What a storage can hold, the client's or the table's. *)
Copies == [rows : Maps, selection : {"none", "rows", "empty"}]

(* What a client can be told. *)
Signals ==
  [kind : {"updated", "init"}, rows : Maps]
    \cup [kind : {"removed"}, keys : SUBSET Keys]
    \cup [kind : {"selected"}, selection : {"rows", "empty"}]
    \cup [kind : {"reset", "failed", "replied"}]

Invocations ==
  [client : Clients, op : Changes \cup {SubscribeOp},
   at : {"resolved", "subscribing", "replying"}, reply : Signals]

ASSUME TableAssumption ==
  /\ {MaxKeys, MaxAsks, MaxChanges} \subseteq Nat
  /\ AppLocksState \in BOOLEAN
  /\ Asked \subseteq Changes /\ Made \subseteq Changes
  /\ {Idle, Gone} \cap Changes = {} /\ Idle # Gone
  /\ NoCopy \notin Copies /\ Idle \notin Invocations

VARIABLES
  table,        (* the server's rows, selection and key counter            *)
  subscribers,  (* the clients whose sender the table keeps                *)
  poisoned,     (* a holder of the table's mutex has panicked              *)
  dead,         (* methods whose task has panicked                         *)
  loop,         (* the invocation the server's loop is handling            *)
  app,          (* the change the application is about to make             *)
  changes,
  requests,     (* requests[c]: invocations of c on their way to the loop  *)
  inbox,        (* inbox[c]: messages on their way to the delegate of c    *)
  closed,       (* closed[c]: the receiver of c's sender has gone          *)
  left,         (* left[c]: c's connection is down, its writer has gone    *)
  asks,
  waiting,      (* waiting[c]: subscriptions without a reply (method_subs) *)
  copy,         (* copy[c]: the storage of c                               *)
  raced         (* history: the table changed between a subscription of c  *)
                (* and its reply                                           *)

serverVars == <<table, subscribers, poisoned, dead>>
clientVars == <<asks, waiting, copy>>
vars == <<serverVars, loop, app, changes, requests, inbox, closed, left,
          clientVars, raced>>

-----------------------------------------------------------------------------
EmptyMap == [k \in {} |-> 0]
Blank == [rows |-> EmptyMap, selection |-> "none"]

(* The map m with the entries of n, which replace those of m. *)
Overlay(m, n) ==
  [k \in DOMAIN m \cup DOMAIN n |-> IF k \in DOMAIN n THEN n[k] ELSE m[k]]

Init ==
  /\ table = [rows |-> EmptyMap, selection |-> "none", next |-> 0]
  /\ subscribers = {} /\ poisoned = FALSE /\ dead = {}
  /\ loop = Idle /\ app = Idle /\ changes = 0
  /\ requests = [c \in Clients |-> <<>>]
  /\ inbox = [c \in Clients |-> <<>>]
  /\ closed = [c \in Clients |-> FALSE]
  /\ left = [c \in Clients |-> FALSE]
  /\ asks = 0
  /\ waiting = [c \in Clients |-> 0]
  /\ copy = [c \in Clients |-> NoCopy]
  /\ raced = [c \in Clients |-> FALSE]

-----------------------------------------------------------------------------
(* Changes of the server's table *)

(* insert_data() takes the next key, update_data() and delete_data() pass  *)
(* over keys that are not there, clear() starts the keys again.            *)
Changed(t, o) ==
  CASE o.op = "insert" ->
         [t EXCEPT !.rows = Overlay(@, [k \in {t.next} |-> o.row]),
                   !.next = @ + 1]
    [] o.op = "update" ->
         [t EXCEPT !.rows = [k \in DOMAIN @ |->
                               IF k = o.key THEN o.row ELSE @[k]]]
    [] o.op = "remove" ->
         [t EXCEPT !.rows = [k \in DOMAIN @ \ {o.key} |-> @[k]]]
    [] o.op = "select" -> [t EXCEPT !.selection = o.selection]
    [] o.op = "clear" ->
         [rows |-> EmptyMap, selection |-> "none", next |-> 0]

(* What the subscribers are told of change o to table t. *)
Signal(t, o) ==
  CASE o.op = "insert" ->
         [kind |-> "updated", rows |-> [k \in {t.next} |-> o.row]]
    [] o.op = "update" ->
         [kind |-> "updated",
          rows |-> [k \in {o.key} \cap DOMAIN t.rows |-> o.row]]
    [] o.op = "remove" ->
         [kind |-> "removed", keys |-> {o.key} \cap DOMAIN t.rows]
    [] o.op = "select" -> [kind |-> "selected", selection |-> o.selection]
    [] o.op = "clear" -> [kind |-> "reset"]

Open == {c \in subscribers : ~ closed[c]}

(* Mutant of Told: the client that asked is not told of its own change. *)
ToldOthers ==
  {Open \ {c \in Clients : loop # Idle /\ loop.client = c}}

(* The subscribers a signal can reach: all of them, or, when the receiver  *)
(* of one has gone, those whose turn came before it.                       *)
Told == IF Open = subscribers THEN {Open} ELSE SUBSET Open

(* A change under the table's mutex: the table is changed, then the signal *)
(* is sent to each subscriber.  A send that fails is unwrapped: the holder *)
(* of the mutex panics, with the table changed and the mutex poisoned.     *)
MakeChange(o) ==
  /\ table' = Changed(table, o)
  /\ \E told \in Told :
       inbox' = [c \in Clients |->
         IF c \in told THEN Append(inbox[c], Signal(table, o)) ELSE inbox[c]]
  /\ poisoned' = (Open # subscribers)

Fits(o) == o.op = "insert" => table.next < MaxKeys

-----------------------------------------------------------------------------
(* Clients *)

(* subscribe(): a new storage, and the method is invoked. *)
Subscribe(c) ==
  /\ ~ left[c]
  /\ asks < MaxAsks
  /\ copy' = [copy EXCEPT ![c] = Blank]
  /\ waiting' = [waiting EXCEPT ![c] = @ + 1]
  /\ requests' = [requests EXCEPT ![c] = Append(@, SubscribeOp)]
  /\ asks' = asks + 1
  /\ UNCHANGED <<serverVars, loop, app, changes, inbox, closed, left, raced>>

(* ask_insert(), ask_update(), ... *)
Ask(c, o) ==
  /\ ~ left[c]
  /\ asks < MaxAsks
  /\ requests' = [requests EXCEPT ![c] = Append(@, o)]
  /\ asks' = asks + 1
  /\ UNCHANGED <<serverVars, loop, app, changes, inbox, closed, left, waiting,
                 copy, raced>>

(* The effect of one message on a storage.  Initial data is added to what  *)
(* is there; a selection of nothing is removed.                            *)
Apply(d, m) ==
  CASE m.kind \in {"init", "updated"} ->
         [d EXCEPT !.rows = Overlay(@, m.rows)]
    [] m.kind = "removed" ->
         [d EXCEPT !.rows = [k \in DOMAIN @ \ m.keys |-> @[k]]]
    [] m.kind = "selected" ->
         [d EXCEPT !.selection =
            IF m.selection = "empty" THEN "none" ELSE m.selection]
    [] m.kind = "reset" -> Blank
    [] OTHER -> d

(* The client's worker hands the next message to the table's delegate. *)
Receive(c) ==
  /\ ~ left[c]
  /\ inbox[c] # <<>>
  /\ LET m == Head(inbox[c]) IN
       /\ copy' = IF copy[c] = NoCopy THEN copy
                  ELSE [copy EXCEPT ![c] = Apply(@, m)]
       /\ waiting' = IF m.kind \in {"init", "failed"}
                     THEN [waiting EXCEPT ![c] = @ - 1] ELSE waiting
  /\ inbox' = [inbox EXCEPT ![c] = Tail(@)]
  /\ UNCHANGED <<serverVars, loop, app, changes, requests, closed, left, asks,
                 raced>>

(* The connection of c ends, with or without its requests being read. *)
Leave(c) ==
  /\ ~ left[c]
  /\ left' = [left EXCEPT ![c] = TRUE]
  /\ requests' \in {requests, [requests EXCEPT ![c] = <<>>]}
  /\ UNCHANGED <<serverVars, loop, app, changes, inbox, closed, clientVars,
                 raced>>

(* Mutant of ForwarderFails: the forwarder fails on any message. *)
ForwarderFailsEarly(c) ==
  /\ ~ closed[c]
  /\ inbox[c] # <<>>
  /\ closed' = [closed EXCEPT ![c] = TRUE]
  /\ inbox' = [inbox EXCEPT ![c] = <<>>]
  /\ UNCHANGED <<serverVars, loop, app, changes, requests, left, clientVars,
                 raced>>

(* The forwarder of a client that has left goes on, since the table keeps  *)
(* the other end of its queue.  Messages are lost while the writer is      *)
(* there; the first that finds it gone is a failed send, unwrapped, and the*)
(* receiver of the client's sender goes with the forwarder.                *)
ForwarderFails(c) ==
  /\ left[c] /\ ~ closed[c]
  /\ inbox[c] # <<>>
  /\ \/ /\ closed' = [closed EXCEPT ![c] = TRUE]
        /\ inbox' = [inbox EXCEPT ![c] = <<>>]
     \/ /\ inbox' = [inbox EXCEPT ![c] = Tail(@)]
        /\ UNCHANGED closed
  /\ UNCHANGED <<serverVars, loop, app, changes, requests, left, clientVars,
                 raced>>

-----------------------------------------------------------------------------
(* The server's loop *)

(* Mutant of StateLocked: applications hold the ServerState meanwhile. *)
StateLockedByApp == app # Idle

(* The application's thread holds the mutex of the ServerState, or has     *)
(* poisoned it.                                                            *)
StateLocked == app # Idle /\ AppLocksState

Failure(o) == [kind |-> IF o = SubscribeOp THEN "failed" ELSE "replied"]

(* The loop takes an invocation and finds the table, under the mutex of the*)
(* ServerState.  A method whose task has panicked gives an exception.      *)
Begin(c) ==
  /\ loop = Idle
  /\ requests[c] # <<>>
  /\ ~ StateLocked
  /\ LET o == Head(requests[c]) IN
       loop' = IF o.op \in dead
               THEN [client |-> c, op |-> o, at |-> "replying",
                     reply |-> Failure(o)]
               ELSE [client |-> c, op |-> o, at |-> "resolved",
                     reply |-> Failure(o)]
  /\ requests' = [requests EXCEPT ![c] = Tail(@)]
  /\ UNCHANGED <<serverVars, app, changes, inbox, closed, left, clientVars,
                 raced>>

(* The mutex of the table is poisoned: its lock() is unwrapped, the task of*)
(* the method panics and the invocation ends with an exception.            *)
FindPoisoned ==
  /\ loop # Idle /\ loop.at = "resolved"
  /\ poisoned
  /\ dead' = dead \cup {loop.op.op}
  /\ loop' = [loop EXCEPT !.at = "replying"]
  /\ UNCHANGED <<table, subscribers, poisoned, app, changes, requests, inbox,
                 closed, left, clientVars, raced>>

(* A method changes the table. *)
ChangeByMethod ==
  /\ loop # Idle /\ loop.at = "resolved" /\ loop.op # SubscribeOp
  /\ ~ poisoned
  /\ Fits(loop.op)
  /\ MakeChange(loop.op)
  /\ dead' = IF poisoned' THEN dead \cup {loop.op.op} ELSE dead
  /\ loop' = [loop EXCEPT !.at = "replying"]
  /\ UNCHANGED <<subscribers, app, changes, requests, closed, left, clientVars,
                 raced>>

(* The arguments cannot be read or do not fit: nothing is changed. *)
Refuse ==
  /\ loop # Idle /\ loop.at = "resolved"
  /\ loop.op.op \notin {"subscribe", "clear"}
  /\ ~ poisoned
  /\ loop' = [loop EXCEPT !.at = "replying"]
  /\ UNCHANGED <<serverVars, app, changes, requests, inbox, closed, left,
                 clientVars, raced>>

(* on_table_subscribe() takes the mutex of the table ... *)
SubscribeLock ==
  /\ loop # Idle /\ loop.at = "resolved" /\ loop.op = SubscribeOp
  /\ ~ poisoned
  /\ loop' = [loop EXCEPT !.at = "subscribing"]
  /\ UNCHANGED <<serverVars, app, changes, requests, inbox, closed, left,
                 clientVars, raced>>

TableLocked == loop # Idle /\ loop.at = "subscribing"

(* ... then that of the ServerState, keeps the client's sender and copies  *)
(* the rows (not the selections).                                          *)
SubscribeRead ==
  /\ TableLocked
  /\ ~ StateLocked
  /\ subscribers' = subscribers \cup {loop.client}
  /\ loop' = [loop EXCEPT !.at = "replying",
                          !.reply = [kind |-> "init", rows |-> table.rows]]
  /\ UNCHANGED <<table, poisoned, dead, app, changes, requests, inbox, closed,
                 left, clientVars, raced>>

(* The loop sends the reply, with no mutex held; an error is logged. *)
Reply ==
  /\ loop # Idle /\ loop.at = "replying"
  /\ inbox' = IF closed[loop.client] THEN inbox
              ELSE [inbox EXCEPT ![loop.client] = Append(@, loop.reply)]
  /\ loop' = Idle
  /\ UNCHANGED <<serverVars, app, changes, requests, closed, left, clientVars,
                 raced>>

-----------------------------------------------------------------------------
(* The application *)

(* It decides on a change and, if it works that way, locks the ServerState.*)
AppBegin(o) ==
  /\ app = Idle
  /\ changes < MaxChanges
  /\ app' = o
  /\ changes' = changes + 1
  /\ UNCHANGED <<serverVars, loop, requests, inbox, closed, left, clientVars,
                 raced>>

(* The reply to a subscription of c is still to be sent. *)
Replying(c) ==
  loop # Idle /\ loop.at = "replying" /\ loop.client = c
    /\ loop.reply.kind = "init"

(* It locks the table, changes it, and unlocks what it has locked.  When   *)
(* the mutex of the table is or gets poisoned, its thread panics.          *)
ChangeByApp ==
  /\ app \notin {Idle, Gone}
  /\ ~ TableLocked /\ ~ poisoned
  /\ Fits(app)
  /\ MakeChange(app)
  /\ app' = IF poisoned' THEN Gone ELSE Idle
  /\ raced' = [c \in Clients |->
       raced[c] \/ (Replying(c) /\ app.op \in {"update", "remove", "clear"})]
  /\ UNCHANGED <<subscribers, dead, loop, changes, requests, closed, left,
                 clientVars>>

(* Its change does not fit, or the mutex is poisoned and it panics. *)
AppFails ==
  /\ app \notin {Idle, Gone}
  /\ ~ TableLocked
  /\ \/ app.op \in {"insert", "update"} /\ ~ poisoned /\ app' = Idle
     \/ poisoned /\ app' = Gone
  /\ UNCHANGED <<serverVars, loop, changes, requests, inbox, closed, left,
                 clientVars, raced>>

-----------------------------------------------------------------------------
Loop ==
  \/ FindPoisoned \/ ChangeByMethod \/ Refuse
  \/ SubscribeLock \/ SubscribeRead \/ Reply

Next ==
  \/ \E c \in Clients :
       \/ Subscribe(c) \/ Leave(c)
       \/ \E o \in Asked : Ask(c, o)
       \/ Receive(c) \/ ForwarderFails(c) \/ Begin(c)
  \/ Loop
  \/ \E o \in Made : AppBegin(o)
  \/ ChangeByApp \/ AppFails

Spec == Init /\ [][Next]_vars

(* Tasks and the application's thread go on when they can; the loop's queue*)
(* is fair to the clients.  Nobody need subscribe, ask, change or leave.   *)
FairSpec ==
  /\ Spec
  /\ \A c \in Clients : WF_vars(Receive(c)) /\ SF_vars(Begin(c))
  /\ WF_vars(Loop)
  /\ WF_vars(ChangeByApp \/ AppFails)

-----------------------------------------------------------------------------
(* Properties *)

(* The variables have the types of the table, its copies and the queues;   *)
(* the key that insert_data() takes next is not in use.                    *)
TypeOK ==
  /\ table.rows \in Maps /\ table.selection \in {"none", "rows", "empty"}
  /\ table.next \in 0 .. MaxKeys
  /\ \A k \in DOMAIN table.rows : k < table.next
  /\ subscribers \subseteq Clients /\ dead \subseteq Methods
  /\ poisoned \in BOOLEAN
  /\ loop \in Invocations \cup {Idle}
  /\ app \in Changes \cup {Idle, Gone}
  /\ \A c \in Clients :
       /\ requests[c] \in Seq(Changes \cup {SubscribeOp})
       /\ inbox[c] \in Seq(Signals)
       /\ {closed[c], left[c], raced[c]} \subseteq BOOLEAN
       /\ waiting[c] \in Int
       /\ copy[c] # NoCopy => copy[c].rows \in Maps

(* A subscription of c has not been read from the table yet. *)
SubscriptionAhead(c) ==
  \/ SubscribeOp \in ToSet(requests[c])
  \/ loop # Idle /\ loop.client = c /\ loop.op = SubscribeOp
       /\ loop.at # "replying"

(* The storage of c once it has handled everything on its way to it. *)
Eventual(c) ==
  FoldLeft(Apply, copy[c],
           IF Replying(c) THEN Append(inbox[c], loop.reply) ELSE inbox[c])

(* A connected subscriber's storage and the messages on their way to it    *)
(* make up the rows of the table exactly, and no selection the table does  *)
(* not have, whoever changes the table and however often the client has    *)
(* subscribed: unless a send to another subscriber failed, or the          *)
(* application changed rows between a subscription and its reply.          *)
SubscribersConverge ==
  \A c \in subscribers :
    ~ left[c] /\ ~ raced[c] /\ ~ poisoned /\ ~ SubscriptionAhead(c) =>
      /\ Eventual(c).rows = table.rows
      /\ Eventual(c).selection \in {"none", table.selection}

(* A method or the application's thread fails only after a subscriber has  *)
(* left: no order of subscriptions, changes and replies is enough.         *)
FailureNeedsLeaver ==
  poisoned \/ dead # {} \/ app = Gone => \E c \in subscribers : left[c]

(* Every subscription is answered, with the table or with an exception,    *)
(* even when the table's methods have failed, unless the client leaves.    *)
SubscriptionsAnswered ==
  \A c \in Clients : waiting[c] > 0 ~> waiting[c] = 0 \/ left[c]
=============================================================================
