# Verification of colabrodo

colabrodo implements both ends of the NOODLES protocol in Rust. A server keeps a
scene document (entities, geometries, materials, tables, methods, ...) and
publishes every change of it; a client mirrors the document and invokes its
methods; tools record, merge and replay what a server says. This directory holds
TLA+ models of the parts with state and concurrency, TLC configurations that
check them on small instances, and TLAPS proofs about the core.

`PROJECT.json` lists the components, the runs, the source lines of every
definition, the disagreements found, the hazards and the theorems. Paths below
are relative to `src/`; `server/` stands for `colabrodo_server/src/`, `client/`
for `colabrodo_client/src/`, `common/` for `colabrodo_common/src/`, `macros/` for
`colabrodo_macros/src/` and `tools/` for `colabrodo_tools/src/`.

## The system

| component | state | operations | what is hard | what makes it correct |
|---|---|---|---|---|
| component lists (`server/server_state.rs`, `server_messages.rs`, `common/nooid.rs`) | per component type, behind one mutex each: an `IndexMap` of contents, weak pointers by ID, a stack of free IDs, owned references | `new_component`, `new_owned_component`, `own_component`, `resolve`, `patch` / `mutate`, drop of a reference | reference counts fall to zero in any thread; deletion comes some time after the last release; contents refer to other components, so deletions cascade; the mutex is not reentrant | an ID names one component for ever; slots are recycled without gaps or doubles; whoever holds a reference finds its component; each component is deleted once; the broadcasts tell the same story |
| delta patches (`macros/lib.rs`) | none | the generated `patch()`: broadcast, then apply | two critical sections, with a gap | receivers hold what the list holds, up to the patch under way |
| document dump and broadcast (`server_state.rs`, `server_messages.rs`, `server.rs`) | the lists, a broadcast channel of 256, a sender per client | `serialize` (dump) for an introduction, `send_to_broadcast` | a client is subscribed before it is sent its dump; both reach it by different tasks; lists change while the dump is written | dump and broadcasts together make up the document |
| server tasks (`server.rs`) | `active_client_info`, the bounded queue of the loop, per connection three queues and three tasks, two cancellation tokens | `server_main`, `client_connect_task`, `client_handler`, `client_forwarder`, `server_state_loop`, `shutdown` | about four tasks per connection fail, end and are stopped independently | senders are known, replies reach their client once and in order, nothing is left behind |
| method dispatch (`server.rs` `invoke_helper`, `server_messages.rs`) | method lists of the document and of components; per method a task and two channels | find the method and its context, call, await, reply or raise | components are dropped and patched without the mutex the look-up holds; handlers lock, panic, or outlive their method | a call is judged by what was offered at one moment; one reply per invocation, of that invocation |
| table system (`server/table_system.rs`) | per table: data, subscribers | subscribe, insert, update, remove, clear, selections; signals to subscribers | two mutexes taken in two orders; senders of clients that have gone | every subscriber's copy equals the table |
| client message handling (`client/client.rs`, `server_root_message.rs`) | lists of delegates, names | decode a root message, create / update / delete / signal / reset | messages about components it does not have | the mirror is the document |
| client delegates, names, methods (`client/delegate.rs`, `client_state.rs`) | delegates by ID, IDs by name, `method_subs` | `on_create`, `on_delete`, `take`/`replace`, `invoke_method`, `handle_method_reply`, `clear` | a delegate is out of its list while its callback runs; names are kept in two maps | names and IDs agree, replies reach their invoker and nobody else |
| client connection (`client/client.rs`) | two socket tasks, a stop channel, a worker thread | connect, send, receive, stop | ends from either side, at any point of a callback | ends completely |
| client tables (`client/table.rs`) | rows, selections | init, update, remove, reset | mirrors a stream of signals | equals the server's table |
| buffer builder (`server/server_bufferbuilder.rs`) | none | `pack_bytes`, `build_states`, `build_geometry` | layout is worked out twice, from the mesh alone | a reader finds every attribute and index |
| asset server (`server/server_http.rs`) | assets by ID behind a mutex, a stop channel | add, remove, fetch, stop | its own task; the stop has a receiver only while that runs | serves what was added and not removed |
| merge tool (`tools/bin/noo_merge.rs`, `tools/lib/replay.rs`) | per upstream a session, whose delegates own components of the merged server | create, patch, delete, document update, reset, loss of a connection | several sessions share one server and one document; callbacks lock it | the merged server shows what the upstreams show |
| recording (`common/recording.rs`, `tools/bin/noo_recorder.rs`, `tools/bin/noo_replay/`) | packets, time, markers | record, advance, seek | unfinished, see "Not modelled" | what is replayed is what was recorded |
| value tools, wire types, macros, component descriptions, mapped client, simple client, examples | none, or plain data | conversions | - | round trips |

### How they interact

The application holds an `Arc<Mutex<ServerState>>` and handles
(`ComponentReference`) into the lists. Components are created under the
ServerState's mutex and then the list's; patches, resolves and drops take the
list's mutex alone. Every change of a list is sent, under the list's mutex, to a
tokio broadcast channel. Each connection has a task that moves broadcasts to the
connection's out queue. What the server says to one client (dump, method
replies, table signals) goes to the sender in the client's record, through
`client_forwarder`, to the same out queue. A handler reads the socket and passes
messages through one bounded queue (16) to `server_state_loop`, which handles them
one at a time, methods included. A cancellation token stops all of it. The
client has the mirror image: socket, queues, and one worker thread that decodes
each message and calls the delegates. The merge tool is several clients whose
delegates are the application of one server. Large data does not go through the
document: a buffer holds the URL of an asset, and the client asks the asset
server for it.

## The models

| module | models | extends |
|---|---|---|
| `IdRegistry` | what the lists promise about IDs | - |
| `ComponentLists` | component lists and `patch()` | - |
| `ComponentListsProofs` | theorems about `ComponentLists` | `ComponentLists` |
| `MCComponentLists` | its instances | `ComponentLists` |
| `DocumentSync` | dump, broadcast, and the worker of a client | - |
| `DocumentSyncProofs` | theorems about `DocumentSync` | `DocumentSync` |
| `MCDocumentSync` | its instances | `DocumentSync` |
| `ServerTasks` | the tasks of a server and the invocations through them | - |
| `ServerTasksProofs` | theorems about `ServerTasks` | `ServerTasks` |
| `TableSystem` | a shared table, its subscribers and their copies | - |
| `MCTableSystem` | its instances | `TableSystem` |
| `TableSystemProofs` | theorems about `TableSystem` | `TableSystem` |
| `ClientSession` | connection, worker, delegates, names and invocations of one client | - |
| `ClientSessionProofs` | theorems about `ClientSession` | `ClientSession` |
| `MergeSystem` | several upstream servers, the merge tool's sessions, the merged server | - |
| `MergeSystemProofs` | theorems about `MergeSystem` | `MergeSystem` |
| `MethodCalls` | what an invocation promises its caller | - |
| `MethodDispatch` | how the server's loop answers an invocation; implements `MethodCalls` | - |
| `MethodDispatchProofs` | theorems about `MethodDispatch` | `MethodDispatch` |
| `BufferBuilder` | operators: vertex types, the packed array, its description, a reader | - |
| `MeshPublishing` | an application that publishes meshes, the asset server, a client that fetches them | `BufferBuilder` |
| `MCMeshPublishing` | its instance | `MeshPublishing` |
| `MeshPublishingProofs` | theorems about both | `MeshPublishing` |

### ComponentLists

`content` is all `IndexMap`s together, keyed by ID; `free[l]`, `owned` and `lock[l]`
are a list's `free_list`, `owned_list` and mutex. Strong counts are not numbers:
`Held(id)` says whether any handle, owned reference, reference field or
moved-out field still refers to `id`. `loose[t]` holds the references thread `t`
has moved out of a content and is about to drop, `dying[t]` the component whose
`ComponentCell::drop` it is running. `observed` is the broadcast stream folded
into a map; `issued` is a history variable.

One action is one critical section of a list's mutex: `Create`, `OwnComponent`,
`Resolve`, `PatchSend`, `PatchApply`, `ReturnID`. Between them references go one by
one (`DropHandle`, `Release`). `PatchApply` leaves the mutex locked while the
replaced reference is dropped, because `mutate()` runs the assignment inside
`lock().unwrap()`; `UnlockMutate` ends it. `ReturnID` frees the mutex first and
drops the content after. `resolve()` of a component between its last release and
its `return_id()` is `None`: `Resolve` asks for `Held(id)`, the weak pointer's upgrade.

The generation of an ID is `u32` and `next_generation` adds one: `GenLimit` is the
width, `OverflowChecks` tells builds that panic on overflow from builds that
wrap. `SlotLimit` is the width of slots. In a build that checks, the reuse that
would overflow (`common/nooid.rs:74`) panics with the list's mutex held, and so does
every later call on the list; the model ends before that panic (`CanProvision`), so
nothing is claimed of the lists after it. `SerialPatches` keeps two threads from
patching one component at a time. The code leaves that to its callers: without it
the broadcasts need not come in the order of the assignments, and clients may keep
the loser's value for ever.

Abstracted: the content of a component is its reference fields; the order in
which the fields of a dropped content go is any order; each of a thread's
handles to a component counts once (clones of a handle in one thread are not
told apart; those of different threads are).

### DocumentSync

The document as a client gets to see it: `order[l]` is the order of a list's
`IndexMap`, `content[id]` one reference per component, `patching` the update that
is broadcast and not applied. `dump` is what `ServerState::serialize` has written
so far: it runs under the ServerState's mutex (so `Create` waits) but takes each
list's mutex only for that list (so patches and deletions go on): `DumpStart`
writes the header, `DumpList` one list, `DumpEnd` the rest. `sub[c]` is the
subscription of a connection in the broadcast channel, which loses its oldest
message when it is full (`lagged`); `raw[c]` and `ForwardDump` are the way of the
dump; `out[c]` is the out queue, the socket and the queue of the client's worker
in one. `Receive` is `handle_next`: the header's count is honoured by the visitor
(`Taken`), `on_create` replaces, an update of a missing component is passed over,
`on_delete` of a missing component panics.

Three of the properties are about clients during whose connection nothing was
patched or deleted (`steady`) and who lost no broadcast (`lagged`).
`SteadyMirrorsResolve` begins with the end mark of the dump. `EventuallyReady` is
about all: a client becomes ready, and its worker panics before that only if
something was deleted and it either connected during changes or lost a broadcast.
That these clients are killed by an unwrapped deletion or by a header that counts a
component deleted since is a defect that the property accepts, not one it rules
out; it says that patches, creations and lost messages alone kill nobody.

Patches are serial here; concurrent ones belong to `ComponentLists`. One
component list is one member of `Lists`; instances have those a run is about.

### ServerTasks

Each client has a connection (`conn`), a handler (`handler`, a program counter
with the message it is sending in `held`), and a writer, a broadcast task and a
forwarder, each `none`, `on`, `done` or `panicked`. An invocation, a number,
travels `up` the socket, through `held`, the bounded `toServer`, the loop (`call`),
`raw`, `out` and `down`. `active` is `active_client_info`. `halt` and `stop` are the two
cancellation tokens, `acceptor` and `main` the accepting task and `server_main`.

Every `await` is an action boundary. Every `unwrap` the tasks rely on is a
`panicked` outcome: the sends of a handler to a loop that has gone, the writer's
socket, the broadcast task's out queue, the forwarder's, `client_stop_tx.send`,
the joins, and the loop's lookup of a client's record. `Answer` is `invoke_helper`
and the reply: it ends the loop's wait whichever way the method ended.
Broadcasts are only present as what they can do to a task (`StopBcaster`,
`FailWriter`); their content is the subject of `DocumentSync`. Text, pong and close
frames change nothing. A ping is sent back through the out queue with an unwrapped
send (`server.rs:446`). With a writer this is one message more in that queue, and left
out; without one the handler panics before it has said `ClientClosed` (`ReadPing`,
after which it is `abandoned`), and the record of the client stays for ever.
`ConnectionsCleanedUp` excepts this case, since nothing in the code repairs it, and
says that no other failure of a task, in any order, has that effect.

### TableSystem

One table, managed by a `TableController` whose storage is the `BasicTable` of
`server/table_system.rs`. `table` has its rows by key, one selection and the key
counter; `subscribers` are the clients whose sender the controller keeps, and
keeps for ever. `poisoned` says that a holder of the controller's mutex has
panicked, `dead` which methods have lost their task (`per_method_spinner`) that
way. `loop` is the invocation `server_state_loop` is handling and how far it has
come, `app` a change the application is about to make from a thread of its own.
At the client, `copy[c]` is the storage of an `AdvTableDelegate`, the `BasicTable` of
`client/table.rs`, and `waiting[c]` its `method_subs`. `requests[c]` leads from the
client to the loop; `inbox[c]` is all the queues from the client's sender to its
worker, which keep the order.

`Begin` takes an invocation and finds the controller. A change (`ChangeByMethod`,
`ChangeByApp`) happens and is sent under the controller's mutex, in one step; a
subscription takes the mutex (`SubscribeLock`), waits for that of the ServerState,
keeps the sender and copies the rows (`SubscribeRead`). The reply to either is sent
by the loop, with no mutex held (`Reply`), so the application can get in between.
`raced` remembers that it did.

A client that has left keeps its forwarder alive, since the controller holds the
other end of its queue. `ForwarderFails` is the first message that finds the
writer gone: its send is unwrapped and the forwarder takes the receiver with it.
The next `broadcast()` panics at that subscriber, after the table has changed, with
some subscribers told and others not (`Told`: the `HashMap` of subscribers has no
order) and the mutex poisoned. From then on each method panics at its `lock()` once
(`FindPoisoned`) and is answered with an exception ever after (`Begin`).

`AppLocksState` is an application that changes the table with the ServerState
locked, the order opposite to a subscription's. It is `FALSE` in the instances; the
mutant of `StateLocked` shows the deadlock. Abstracted: one table and one selection
name, one row or key per change, no columns.

### ClientSession

The server's side is what a correct server may send (`ServeCreate` ... `ServeReset`),
at any moment, in any order that respects IDs, and the frames of a websocket that
hold no messages: a ping (`ServePing`, for a pong and a text frame as well) and the
close frame, whether the server answers the client's or is the first to close
(`ServeClose`); `wire` and `inbox` are the socket and
the queue to the worker. `incoming` and `forward` are `incoming_message_task` and
`forward_task`, each with its receiver of the stop channel; `incoming_message_task`
subscribes only once it runs (`IncomingStarts`), so a stop before that is not heard.
`worker` is the thread, and `calling` the callback it is in: `WorkerTakes` takes one
message and does what `handle_next` does with it up to the callback; `InvokeMethod`,
`Shutdown` and `MutateMistyped` are what a callback may do; `Return` is the rest of
the handler (`OnCreate`, or `PutBack`). Every `unwrap` is a panic of the worker or of a
task: a deletion of a component that is not listed, a send to a task that has
gone, a frame without messages (`HandleOtherFrame`, after which the worker is
`misread`), a read past the end of the stream. A
`mutate_*` with the wrong type of delegate loses the delegate; `mistyped` remembers
which. `made`, `epoch` are history: which invocation was made between which resets.

### MergeSystem

`doc[u]`, `listed[u]` are the document of upstream `u`; `Dump` (in `DumpOrder`, the
methods before the entities, each by age) and `Tell` are what its
session is sent, `wire[u]` everything between the two. A session connects in three
steps: `MakeClient`, from which on it is subscribed to the upstream's broadcasts
(`server.rs:196`); `TakeDump`, when the upstream has heard its introduction and writes
its document; `SendDump`, which queues the dump among the broadcasts the session
has not read, wherever the two tasks of the connection have left it. `calm[u]`
remembers whether nothing changed upstream between the first and the last;
`MirrorsConverge` is about calm sessions and `MergedSurvives` about executions in which
all are (`AllCalm`), for the reason given under "What the checks found". A session
that is not calm may be told of one component twice; the second merged component
then stands for both in the model, although the first lives on in the code while
others refer to it. `delegates[u]` and `docHeld[u]`
are what the session's delegates own in the merged server, `merged` and `comm` its
components and its document. `Keep` applies the rule of `ComponentLists` at once:
components that no delegate, document or held component refers to are gone. A
handler of a worker is one action, since the callbacks of a message run to their
end before the next, and each takes the ServerState's mutex for all it does.
`FailToMake` is a reference that does not resolve: some makers convert it with the
mutex of the merged server locked, which poisons it for the other sessions.
Methods and entities stand for the thirteen kinds: one that the document lists,
and one that refers to others.

### MethodDispatch and MethodCalls

`held`, `listed` and `resolved` are the strong references: the application's, those in
method lists, the look-up's own. When none is left the component's content goes
one step later (`Delete`), by whatever thread; none of this takes the mutex of
the ServerState. `pc` follows `invoke_helper`: one action for each list it asks
(`FindMethod`, `FindContext`, `CheckListed`, `Fetch`), so that drops and patches come in
between; then the exchange with the method's task (`Send`, `Await`), and the reply.
`TakeCall`, `HandlerLocks` ... `TaskEnds` are `per_method_spinner` and the handler.

`MethodCalls` is the promise: an invocation is accepted or refused by what is
offered at one moment after it arrives, an accepted one runs at most once and may
fail, the reply is that of this invocation. `CallsSpec` maps `listed` of the
contexts that are still referenced to `offers`, and `pc` with the state of the
method's channels to `stage`. That the three look-ups, at three different moments,
amount to one moment is the point: method and context stay referenced once they
are resolved, so that the one list asked last decides.

### BufferBuilder and MeshPublishing

A byte is known by what it was (byte `at` of vertex or index `of`). `PackBytes` is
the array, `BuildBuffer`, `VertexView`, `IndexView` and `BuildGeometry` the description
`build_states` and `build_geometry` make of it. `VerticesReadBack` and `IndicesReadBack`
are the reader: every byte of every attribute and index lies inside its view and
is the byte of that field, and the attributes follow the `repr(C)` order of the
fields. The number of indices is converted to `u32` without a check (`TotalU32`,
`server_bufferbuilder.rs:175`): from `U32Limit` indices on, 2^32 in the code, the geometry
counts too few, and the reader finds those it counts. `MeshPublishing` sends the two
halves on their different ways: the bytes
inline in a buffer or through the asset server, the description through the
document. `server` is the task of `run_asset_server`, `stopQueued` its receiver of the
stop channel. `shutdown` unwraps a send that fails unless that receiver exists, with
the mutex of the store held; everything that locks the store afterwards panics.
An asset on disk is a path, whose file may go at any time (`FileGoes`): a request
before that is served, one after it is not found. `UrlHasPath` is a URL option of the
asset server with more than a host and a port: `add_asset` puts the ID after it, and
`on_request` takes all that follows the host for an ID (`UrlFinds`), so that no
published URL is ever found. The instance has a host and a port only; the property
and the theorem on missing assets name the condition.

### External code

tokio, tungstenite and the application are modelled by how the code uses them.
A tokio mpsc queue is a sequence with a closed end; a broadcast channel is a
bounded sequence per receiver; a cancellation token is a Boolean that stays true;
`select!` takes any ready branch. A lost connection may or may not lose what was
written to it and not read (`Disconnect`), and a socket that is down may take a
write or refuse it (`Write`). The application calls what it likes when it likes,
subject to Rust's ownership: it can only pass references it holds.

## What the runs check

All bounds are constants of the configurations.

| run | question | bounds | result |
|---|---|---|---|
| `lists_core` | IDs, slots, reference counts and broadcasts under concurrency; refinement of `IdRegistry`; deletion | 2 threads, 2 slots, 3 generations | holds |
| `lists_self_deadlock` | a component without references is deleted, also when a patch drops the last one | 2 threads, 2 slots | violated |
| `sync_steady` | dump and broadcasts make up the document; connecting ends | 1 client, 2 components, 2 patches, channel of 3 | holds |
| `sync_header` | the dump's header counts the dump | 1 light | violated |
| `tasks_core` | known senders, order of replies, clean-up, shutdown | 1 client, 2 invocations, queue of 1 | holds |
| `tasks_contention` | two connections share the loop's queue | 2 clients, 1 invocation each, queue of 1 | holds |
| `tables_core` | copies become the table; what can fail; subscriptions are answered | 2 clients, 2 keys, 2 invocations, 2 changes by the application | holds |
| `client_core` | names, deletions, invocations across resets; a session ends from either side, or by a frame without messages | 1 name, 2 components, 4 messages, 1 invocation, 1 reset, 2 frames in flight | holds |
| `merge_core` | the merged server shows its upstreams; departures; no session poisons it while none changes when a session connects | 2 upstreams, 2 entities and 1 method each, 3 changes, 2 messages in flight besides the dump, parents older than children | holds |
| `merge_order` | the same when an entity gets a younger parent | 3 changes, no methods | violated |
| `dispatch_core` | refinement of `MethodCalls`; the loop's panics; failures; replies; tasks end | 2 methods (one with a handler), 1 context, 2 invocations | holds |
| `publish_core` | meshes read back; requests; the asset server stops and serves | 3 meshes: indexed triangles in memory, indexed lines on disk, unindexed points inline; a `u32` counts to 4 | holds |

Why the bounds are enough to be interesting. `lists_core`: recycling needs a
second generation, a recycled slot whose old references are still around a
third, and contention a second thread; one list whose components
refer to each other is the hardest shape, since every cascade meets the mutex it
started from, and different lists share nothing but references. Two slots give a
component and its target, deleted together; longer chains are left to the
theorems. `sync_*`: clients do not influence each other (the dump is
the only shared resource), so one is enough; two components give a reference and
its target in either order; a channel of three overflows. `tasks_core` with a
queue of one fills it with a registration and an invocation; two invocations
order their replies; `tasks_contention` has two handlers wait for one place. `tables_core`: two clients are the one a signal
reaches and the one it does not, two keys the row a change means and another;
two invocations, of either client, are a subscription and a change, two
subscriptions, or a subscription of each, and two changes by the application
the message that ends a forwarder and the one that panics. That is too few for an invocation
of a method that has already lost its task; its outcome, an exception, is that
of the invocation that lost it. `client_core`: one name and two components are a
name taken over by another component after a deletion or a reset; four messages
are a creation, a reset, a creation with the same name and its deletion, or two
creations and two notices; an invocation and a reset race in either order.
`merge_core`: a child and a parent that may be changed, a method that outlives its
session in the merged list, and a second upstream that replaces that list; three
changes are a creation, another that refers to it, and a third of either upstream
while a session connects, reads or has ended.
`dispatch_core`: one method with a handler and one without, and a second call after a
handler that has panicked, with or without the mutex. `publish_core`: one mesh for
each vertex type, shape, and way of the bytes, one of them with more indices than
its geometry can count; what depends on their number is left to the theorem.
The theorems below remove the bounds where they apply.

`dispatch_core` checks for deadlock (`Done` is the end of its bounded calls). The
other runs do not: an application may stop calling, and connections, sessions and
servers end.

Each run's invariants and properties are its `.cfg`. A type invariant is checked
where the run's own properties need not be slowed down by it, and proved for the
others where "What is proved" says so.

### Fairness

- `ComponentLists`: strong fairness of each thread inside a call. It may wait for
  a mutex that others take and release again and again; a waiter is assumed not
  to be passed over for ever. Nothing makes the application call.
- `DocumentSync`: weak fairness of the loop and of the tasks of a connection,
  which tokio schedules when they can run.
- `ServerTasks`: weak fairness of every task. Strong fairness of the handler's
  two sends (`Submit`, `Leave`), because other handlers fill the queue and tokio's
  semaphore serves waiters in turn, and of `StopLoop`, because `select!` picks among
  ready branches at random. Methods return (the code has no timeout for them),
  and connected clients read their replies. Clients need not connect, invoke, ping
  or leave, and nobody need shut the server down.
- `TableSystem`: weak fairness of the loop, of each client's worker and of the
  application's thread once it has begun a change; strong fairness of `Begin` for
  each client, because the loop takes requests from one queue in their order.
- `ClientSession`: weak fairness of the two tasks and of the worker's thread where
  it takes a message, finds its queue closed or returns from a callback; a callback
  need do nothing else before it returns. The server and the network owe nothing.
- `MergeSystem`: weak fairness of each session's worker. Upstreams need not change
  or hear an introduction. `DepartedAreForgotten` is `<>[]`: from some moment on, for
  ever, what an upstream that has gone left behind is only what the merged document
  lists.
- `MethodDispatch`: weak fairness of the loop and of each method's task; a handler
  returns or panics (there is no timeout for it); a thread that has dropped the
  last reference to a component finishes deleting it.
- `MeshPublishing`: weak fairness of the asset server's start and stop and of the
  connections' tasks; the client applies what it receives and tries a refused
  connection again. Files go as they please. The server may fail to bind or end by itself.

## What the checks found

Three runs show the code disagreeing with its own comments.

1. `lists_self_deadlock` (`server_state.rs:112`). `mutate()` runs the patch under the
   list's mutex, and the assignment drops the reference it replaces. If that was
   the last one to a component of the same list (an entity's parent), its drop
   locks the mutex its own thread holds. `DeletedUnlessSelfLocked` in `lists_core` shows
   that this is the only way a component without references can stay.
2. `sync_header` (`server_state.rs:577`). `all_element_count()` leaves out `lights`,
   which the dump contains. With one light the header promises one element less
   than there is, the client's visitor stops before the end mark, and the client
   never learns that its document is complete.
3. `merge_order` (`server_state.rs:466`). Lists are dumped in an order without forward
   references, but entities are dumped in order of creation, which a patched
   parent defeats. A merge tool unwraps the reference with its server's mutex
   locked and poisons the merged server.

Other things the models say of the code; the properties are stated around them:

- A client is subscribed before its dump is written. The deletion of a component
  it was never told of is unwrapped (`client/delegate.rs:147`) and ends its worker, and a
  patch overtaken by an older dump is lost to it. `DocumentSync` states convergence
  for clients that connect while nothing is patched or deleted.
- On a shutdown both tasks of a connection may end before the handler tells them
  to, and its unwrapped send finds no receiver (`server.rs:470`). The shutdown
  completes all the same.
- A table keeps each subscriber's sender for ever and unwraps its sends
  (`server/table_system.rs:475`). Two changes after one has left, the holder of the table's mutex
  panics. `FailureNeedsLeaver` says that nothing else makes it.
- A client hands every frame to its worker, which unwraps its decoding
  (`client/client.rs:507-510`, `586`), and unwraps the end of the stream. A session that the
  server closes, on its own account or in answer to the client, ends by panics of
  the worker and of `incoming_message_task`, and so does the worker at a ping. A worker
  that panics tells nobody to stop: `forward_task` then waits for ever unless the
  application had shut the session down. `SessionEnds` excepts it in this case, and
  after a delegate was lost to a mistyped `mutate_*`, and says that the other two end
  nevertheless. `IncomingMessage::Closed`, documented as "Socket shutdown from the
  server" (`client/client.rs:374`), is sent for a failure of the socket and never for the
  server's close.
- A ping that a server's handler reads after the connection's writer has failed makes
  it panic before it reports the client closed (`server.rs:446`): the client's record,
  with its sender, stays in the server for good.
- noo_merge is subscribed to an upstream before it gets the dump (`server.rs:196`). A
  child created meanwhile is broadcast, and can arrive, before the dump with its
  parent; the worker unwraps the parent that it does not find with the merged server's
  mutex locked (`tools/lib/replay.rs:789-793`, called in the arguments of line 22). The
  merged server is poisoned although parents are older than their children: create an entity,
  connect, create a child of it, handle that message first. `MergedSurvives` says that,
  with `ParentsFirst`, this needs a change while a session connects.
- The number of a mesh's indices is cut to a `u32`, and a URL option with a path makes
  every asset unreachable (see `BufferBuilder` and `MeshPublishing`).
- With two components of one name the deletion of the first makes the second
  unfindable; `NamesAgree` is about servers that give no name twice.
- An update of the document replaces the merged server's list, whichever upstream
  it comes from: methods of one upstream hide those of another.
- `AssetServer::shutdown` has a receiver only while the spawned task runs. Before or
  after that it panics with the store's mutex held.

## What is proved

`ComponentListsProofs`, for every set of threads, lists and fields and every width
of slots and generations:

| theorem | property | assumes |
|---|---|---|
| `TypeCorrect` | `TypeOK` | - |
| `SlotsAlwaysAccounted` | `SlotAccounting` | - |
| `HeldAlwaysListed` | `HeldIsListed` | - |
| `DroppedExactlyOnce` | `DropExactlyOnce` | - |
| `ReceiversTrack` | `ObservedTracks` | `SerialPatches` |
| `ReceiversResolve` | `ObservedResolves` | `SerialPatches` |
| `ListsImplementRegistry` | `RegistrySpec` | `OverflowChecks` |
| `ListsNeverDeadlock` | `NoCircularWait` (no run) | `Ranked(rank)`: references lead down an order of the lists |

The inductive invariant `IInv` joins the first four with two helpers: the map of
contents is finite, and a thread inside `patch()` holds both references and drops
nothing (`PatchersHold`). None of its parts is inductive alone. That a new slot is
unused needs `SlotAccounting`; that `PatchApply` finds its component needs
`PatchersHold` and `HeldIsListed`; that `HeldIsListed` survives `ReturnID` needs
`DropExactlyOnce` (nobody holds what is deleted); and that needs `HeldIsListed` again,
so that a release finds the component listed. The receivers' theorems add
`PatchesAnnounced`, the refinement adds `IssuedCovered` (every ID ever issued is no
younger than the present one of its slot). Without overflow checks the
generation wraps and an ID comes back, so `ListsImplementRegistry` has the
assumption it needs; with two concurrent patches of one component the broadcasts
need not come in the order of the assignments, hence `SerialPatches`.

`ListsNeverDeadlock` is about a mutex that is not released for the whole of a patch:
what the patch replaces is dropped under it, with everything that refers to nothing
else then, and each deletion takes the mutex of its list. `LockOrder` adds to `IInv`
that a thread holding the mutex of a list drops only components of lists below it,
or of the list itself if that has a field into itself, and is at no other patch;
`FieldsLead` says that a field of a component leads where its list's fields lead.
The thread that holds the lowest mutex held therefore waits for nobody but itself,
and only in a list that refers to itself: the case of `lists_self_deadlock`, which
`NoCircularWait` names. With one list, as in `lists_core`, it says little. TLC agrees with
it on two lists (materials that refer to textures, two threads, `SlotLimit` 2,
`GenLimit` 1, no overflow checks), and refutes it when `PatchApply` leaves the mutex
of the value's list locked. No run repeats this. The assumption is one on the constants. The document meets it
with the order in which `ServerState::serialize` dumps the lists
(`server_state.rs:453-466`) as the rank: every reference of
`server_messages.rs:244-564` leads to a list dumped earlier, except the parent of
an entity, which leads to an entity.

`ServerTasksProofs`, for every set of clients, capacity and number of invocations:

| theorem | property |
|---|---|
| `TasksTypeCorrect` | `TypeOK`, with the bound of the loop's queue |
| `SendersAlwaysKnown` | `KnownSenders` |
| `RepliesInOrder` | `AnswersInOrder` |

For the first two the argument is about one FIFO queue. `Registration(c)` relates where the
handler of `c` stands to what the loop knows of `c`: before the registration is
sent, nothing of `c` is in the queue or in `active_client_info`; from then until
the handler sends its closing, `c` is in `active_client_info` or a registration of
it is in the queue, and no closing is. With `HeldMessages` and `NumberedCalls` it is
inductive together with `KnownSenders`. `RestMessageQueued` and `RestTake` are the two
lemmas about the ends of the queue; every other step leaves the queue and the
handlers alone or moves one handler.

`RepliesInOrder` reads the seven places of a client's invocations, from the socket
down to the socket up, as one sequence (`Flow`). A task takes from the front of one
place and adds to the end of the next, so the sequence stays as it is; only the
client adds, at the end, a number larger than all before, and takes, at the front.
`Running` says why there is no gap: while the connection is up and the server is not
stopping, the handler, the writer and the forwarder run. What the loop's queue holds
of one client is a fold over the queue of all (`CallsOf`), and what it becomes when the
queue grows or loses its head is an induction over its length.

`MethodDispatchProofs`, for every set of methods, contexts and calls:

| theorem | property |
|---|---|
| `TypeCorrect` | `TypeOK` |
| `LoopPanicsOnlyWhenPoisoned` | `LoopSurvives` |
| `FailureNeedsAPanic` | `FailureNeedsPanic` |
| `DispatchImplementsCalls` | `CallsSpec` |

The invariant follows one call through the loop. While it is looked up, the method
and the context it has found are referenced (`HoldsMethod`, `HoldsContext`), so
neither can be deleted; a referenced method keeps its task (`TasksLast`), and its
task the channel (`ChannelKept`). There is one exchange with a task at a time
(`OneExchange`), and it is of the call that the loop is in (`CallKnown`,
`AnswerKnown`). Hence the refinement: at the look-up that decides, the context still
is what it was when it was found, and the accepted call can be taken by no other
handler.

`MeshPublishingProofs`, for every vertex type, number of vertices and primitives,
and set of meshes:

| theorem | property |
|---|---|
| `LayoutReadsBack` | both definitions of `BufferBuilder` for any mesh (no run: a lemma about data) |
| `TypeCorrect` | `TypeOK` |
| `PublishedMeshReadsBack` | `MeshReadsBack` |
| `NotFoundOnlyWhenRemoved` | `NotFoundIsRemoved`, with or without a path in the URL option |

Of indices, the two theorems on reading back are about those that the geometry
counts: all of them when a `u32` can count them, the first ones otherwise
(`U32Limit` is any positive number).

`LayoutReadsBack` is arithmetic: the bytes of vertex *i* begin at *i* times the
stride, the indices where the vertices end. The state's part is that the bytes an
asset serves, and the buffer a client has, are those of the mesh its geometry was
built from, whichever arrives first.

`TableSystemProofs`, for every set of clients and columns of any length:

| theorem | property |
|---|---|
| `TypeCorrect` | `TypeOK` (no run) |
| `FailuresNeedALeaver` | `FailureNeedsLeaver` |
| `Convergence` | `SubscribersConverge` |

For failures, the chain of causes is the invariant: a method or thread has failed only on a
poisoned mutex (`FailuresArePoisoned`), the mutex is poisoned only over a closed
sender (`PoisonedByClosed`), a sender is closed only when its client has left
(`ClosedHaveLeft`).

For `Convergence` it is what the storage of a client will be once the signals on
their way are applied (`Eventual`, a fold over the client's queue, with the reply the
loop has ready). Before a client is known to the table, its storage is empty and
nothing on its way changes it (`NotTold`). Of a subscriber, this storage has no row
and no selection the table does not have, and has all rows unless another
subscription is under way (`Follows`): the reply that carries the rows is itself one of
the messages, and a repeated subscription replaces them by what they are. A signal
at the end of the queue changes the fold by one application, the head of the queue
moves from the fold into the storage.

`ClientSessionProofs`, for every set of names, components, calls and resets:

| theorem | property |
|---|---|
| `TypeCorrect` | `TypeOK` (no run) |
| `WorkerKeepsRunning` | `WorkerSurvives` |
| `NamesLeadToDelegates` | `NamesAgree` |
| `InvocationsKept` | `InvocationsTracked` |

For the first three the invariant is about the one sequence of messages between the server and the
worker (`Stream`: the queue of the worker, and the socket while it is read). Before
any of these messages, `Available` says which components whoever has handled those in
front of it will have: those it has now and those created on the way, unless one
of the messages ends them. `StreamFits` says that only available components are
deleted, that created ones are new and that their names are free by then;
`ServerFits` that at the end of the stream the client has what lives on the server,
by the same names. The server's steps extend the sequence at one end (`AddCreate`,
`AddDelete`, `AddReset`), the worker takes from the other (`TakeKnown`, `TakeFresh`,
`TakeNamed`), and a lost connection or a task that stops cuts it (`CutStream`). At its
head the invariant is what a handler relies on: a deleted delegate is in its list,
the new name leads nowhere. A component being called counts as present (`Here`), one
that a mistyped `mutate_*` has lost does not, which is why these theorems speak of
`mistyped`. The assumptions are the modules' own (`SessionConstants`,
`CallbackConstants`); `NamesLeadToDelegates` is about `DistinctNames`.

`WorkerKeepsRunning` is about messages. A frame that is none, a ping or a close, ends
the worker as `misread`, of which the theorem claims nothing.

`InvocationsKept` is about places. An invocation is in the output queue, at the
server, on the socket or in the worker's queue: in one of them, and there once
(`Single`), and it is in one exactly while it is open, if it was made since the last
reset (`Tracked`). Every step moves it to the next place or leaves it; a reset forgets
the open ones and their answers come to nothing. The property counts the places;
that a set of positions has at most one element is the bridge between the two.

`DocumentSyncProofs`, for every set of clients and of lists, every capacity of the
broadcast channel, any number of components and patches:

| theorem | property | assumes |
|---|---|---|
| `SyncTypes` | `TypeOK` (no run) | - |
| `DocumentResolves` | no reference of the document, before or after a patch under way, leads nowhere (no run) | - |
| `SteadyConvergence` | `SteadyClientsConverge` | `[]AllCounted` |
| `SteadySurvival` | `SteadyClientsSurvive` | `[]AllCounted` |
| `SteadyResolution` | `SteadyMirrorsResolve` | `[]AllCounted` |

`AllCounted` says that every component is in a list that `all_element_count()` adds up,
that is, that there is no light. It is what the finding of `sync_header` takes away:
with a light the header cuts the dump short. Where `Counted` is all the lists it
always holds.

Two phases of a connection need two invariants. While the client waits for its dump
(`Joining`), the messages on their way are creations and nothing else, each of a
component the client does not have, and only components created later refer to it
(`Fresh`), so the client may get any number of them before the dump. The dump, once
whole, creates components of the document, refers to none it leaves out, and with
what the client has and the creations on their way it is the document (`Complete`);
its header counts its elements. While the dump is being written, that is a claim
about the lists written so far (`Dumping`): the sums of their lengths against the
header, which was computed first. At `ForwardDump` the dump goes to the end of the out
queue and the broadcasts it overtook come after it, creating again what it
created. From there on (`Joined`) the messages lead from what the client has, one after
another and without an error, to `Announced`, and from the end mark of the dump on
through maps without a dangling reference (`Leads`). A patch or a deletion only adds
a last step; that a deletion finds its component is `Sound`, that no other component
refers to it any more, or soon will, the guard of `Delete`.

`MergeSystemProofs`, for every set of upstreams, any number of components, changes
and messages in flight:

| theorem | property | assumes |
|---|---|---|
| `MergeTypes` | `TypeOK` (no run) | - |
| `SessionsMirror` | `MirrorsConverge` | `AllCalm`, in the formula |
| `MergedServerSurvives` | `MergedSurvives` | `ParentsFirst`; `AllCalm`, in the formula |
| `StoppedSessionsAreForgotten` | a safety counterpart of `DepartedAreForgotten` (no run) | `AllCalm`, in the formula |

`AllCalm` says that so far no upstream has changed while a session connected. The
run checks `MirrorsConverge` for each calm session, whatever the others are; the
theorem is about states in which all are.

`MergeInvariant` is the inductive invariant they follow from. Its parts on types
(`Typed`, `Documents`, `MergedTyped`) hold always, those on the sessions and on
what the merged server holds (`Sessions`, `MergedSound`) while `AllCalm` does. `Here(u)` is what the
session of `u` shows, `There(u)` the document of `u`: a map from components to parents,
with the methods that are listed. A message makes one such state of another
(`Step`), if it fits (`Fits`: a deleted component is there and nobody's parent, a patched
one and its new parent are there). `Session(u)` says that the messages under way lead from
`Here(u)` to `There(u)`, each fitting where it comes (`Led`). A change upstream adds a last
step (`ToldEffect`), a worker takes the first (`WorkerStep`), a lost connection leaves
a prefix (`LedPrefix`), and the dump leads from nothing to the document (`DumpLeads`, an
induction over the order in which the lists are written).

The other half, `MergedSound`, is about the server the sessions share: a component made
for one upstream refers to components of the same upstream that its session's
delegates own, and methods refer to nothing. Hence what is held in the merged
server is what delegates own and its document lists, no more (`HeldAreRoots`), and a
handler that creates, drops or replaces for one upstream leaves what the other sessions
show as it was (`Changed`), though a document update of one takes the methods of all
others off the merged list. `ParentsFirst` gives `Fits` one more conjunct, that a created
component's parent is there, so the unwrap under the mutex finds it. Without it the
theorems but `MergedServerSurvives` still hold: a session that panics shows nothing.
A dump that is taken and not yet queued leads to the upstream's document from nothing;
a calm session has been sent nothing by then, so the place `SendDump` chooses is the
only one there is.

Only model-checked: liveness, in all modules (`EventuallyReady` and its like are under
fairness). Every safety property of a passing run is also a theorem. What
a fold computes for sequences of any length is proved where a theorem needs it. The
library's induction theorems cannot be used, since they take the predicate as an
operator; the proofs instead take the
least element of the set of lengths for which a claim fails (`WFMin`,
`NatLessThanWellFounded`), once for every fold.

Assumptions on constants, besides types: distinguished values are no ordinary ones
(`NoCopy` no storage, `Idle` no invocation, `NoPatch` no patch, `NoRef` no ID), and the
broadcast channel has room for one message (tokio panics over a channel of none).
The type invariants of `DocumentSync` and `MergeSystem` are in no run: the runs spend
their time on other properties, and both are proved.

## Not modelled

- The recorder and the player. Both are unfinished: `noo_recorder` writes no end mark
  when it stops, and what the player does at one (`tools/bin/noo_replay/replay_state.rs:55`)
  is a `todo!()`. There is no behaviour yet that recording and replay could agree on.
- Component descriptions, wire types, value tools, macros that derive conversions:
  data without state. The macro's `patch()` is modelled (`ComponentLists`).
- The mapped client, which stores raw values in maps in the order of the messages,
  and the simple client, a front end.
- Signals of an application's own, but for those that `MergeSystem` sends a merge
  tool: they are broadcasts or sends like those modelled. The unwrap in
  `issue_signal()` of a broadcast that nobody receives is left out.
- Tables with a storage of the application's own (`TableTrait`): the storage
  decides what it accepts; the one in the repository is modelled.
- More than one list in `ClientSession` and `MergeSystem`: the lists are instances of
  one generic type, and no handler but that of the entities' parents joins two.

## What is left

1. An abstract table that every subscriber sees change, which `TableSystem` refines
   while no send fails.
2. The recorder and the player, once they are finished.
