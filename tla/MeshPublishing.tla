-------------------------- MODULE MeshPublishing ---------------------------
(***************************************************************************)
(* An application that publishes meshes: it packs the bytes, registers them*)
(* with the asset server (add_asset) and then builds the buffer, its views *)
(* and the geometry, which the server sends to its clients in that order.  *)
(* A client that has the buffer asks the asset server for the bytes and    *)
(* reads the mesh when it has the geometry too.                            *)
(*                                                                         *)
(* The asset server is a task of its own (run_asset_server).  The store of *)
(* assets is shared behind a mutex; shutdown sends on a broadcast channel  *)
(* which only that task subscribes to, and unwraps the send while it has   *)
(* the mutex: with no receiver it panics, and poisons the store.           *)
(***************************************************************************)
EXTENDS BufferBuilder

CONSTANTS Meshes,    \* the meshes that are published
          Inline,    \* those whose bytes travel in the buffer itself
          OnDisk,    \* those registered as a path (Asset::OnDisk)
          UrlHasPath \* the url option has more than a host and a port

ASSUME PublishingAssumption ==
    /\ Meshes \subseteq MeshType
    /\ Inline \subseteq Meshes
    /\ OnDisk \subseteq Meshes \ Inline
    /\ UrlHasPath \in BOOLEAN

VARIABLES publisher,   \* how far the application is with each mesh
          assets,      \* asset_list: the assets in the store
          removed,     \* assets that were removed again
          gone,        \* assets on disk whose file has gone
          poisoned,    \* the mutex of the store is poisoned
          server,      \* the task that runs the HTTP server
          stopSent,    \* a call of shutdown has returned
          stopQueued,  \* the stop message is in the receiver of the task
          scene,       \* creations sent to the clients, in order
          seen,        \* how many of them the client has applied
          request,     \* the client's request for the bytes of each mesh
          bytes        \* the bytes the client has of each mesh

app    == <<publisher, scene>>
store  == <<assets, removed, gone, poisoned>>
stop   == <<stopSent, stopQueued>>
client == <<seen, request, bytes>>
vars   == <<app, store, server, stop, client>>

NoBytes == [b \in {} |-> b]

Init == /\ publisher = [m \in Meshes |-> "packing"]
        /\ assets = {} /\ removed = {} /\ gone = {} /\ poisoned = FALSE
        /\ server = "spawned" /\ stopSent = FALSE /\ stopQueued = FALSE
        /\ scene = <<>> /\ seen = 0
        /\ request = [m \in Meshes |-> "none"]
        /\ bytes = [m \in Meshes |-> NoBytes]

-----------------------------------------------------------------------------
(* The application.                                                        *)

PublisherGoes(m, from, to) == /\ publisher[m] = from
                              /\ publisher' = [publisher EXCEPT ![m] = to]

\* add_asset: the lock of a poisoned store panics.
AddAsset(m) ==
    /\ IF poisoned
       THEN PublisherGoes(m, "packing", "panicked") /\ UNCHANGED assets
       ELSE /\ PublisherGoes(m, "packing", "registered")
            /\ assets' = assets \cup {m}
    /\ UNCHANGED <<scene, removed, gone, poisoned, server, stop, client>>

\* Bytes that travel in the buffer need no asset.
KeepInline(m) == /\ m \in Inline
                 /\ PublisherGoes(m, "packing", "registered")
                 /\ UNCHANGED <<scene, store, server, stop, client>>

Register(m) == \/ KeepInline(m)
               \/ m \notin Inline /\ AddAsset(m)

\* build_geometry, under the mutex of the ServerState.  An unindexed mesh
\* has no view of its indices.
Created(m, what, state) == [mesh |-> m, what |-> what, state |-> state]

Creations(m) ==
    LET buffer   == Created(m, "buffer", BuildBuffer(m))
        vertices == Created(m, "vertices", VertexView(m))
        indices  == Created(m, "indices", IndexView(m))
        geometry == Created(m, "geometry", BuildGeometry(m))
    IN  IF m.indexed THEN <<buffer, vertices, indices, geometry>>
                     ELSE <<buffer, vertices, geometry>>

Build(m) == /\ PublisherGoes(m, "registered", "published")
            /\ scene' = scene \o Creations(m)
            /\ UNCHANGED <<store, server, stop, client>>

\* Mutant: the store is emptied.
ClearAssets(m) == /\ publisher[m] = "published"
                  /\ m \in assets
                  /\ ~poisoned
                  /\ assets' = {}
                  /\ removed' = removed \cup {m}
                  /\ UNCHANGED <<app, gone, poisoned, server, stop, client>>

\* Mutant: the asset stays in the store.
RemoveNothing(m) == /\ publisher[m] = "published"
                    /\ m \in assets
                    /\ ~poisoned
                    /\ removed' = removed \cup {m}
                    /\ UNCHANGED <<app, assets, gone, poisoned, server, stop,
                                   client>>

\* remove_asset, when the application is done with the mesh.
RemoveAsset(m) == /\ publisher[m] = "published"
                  /\ m \in assets
                  /\ ~poisoned
                  /\ assets' = assets \ {m}
                  /\ removed' = removed \cup {m}
                  /\ UNCHANGED <<app, gone, poisoned, server, stop, client>>

\* The file of an asset on disk is deleted or moved.
FileGoes(m) == /\ m \in OnDisk \ gone
               /\ gone' = gone \cup {m}
               /\ UNCHANGED <<app, assets, removed, poisoned, server, stop,
                              client>>

\* Only the task of the server has subscribed, and it drops its receiver.
Receivers == server \in {"subscribed", "serving"}

\* Mutant: the store keeps a receiver of its own.
ShutdownUnheard == /\ ~poisoned
                   /\ stopSent' = TRUE
                   /\ stopQueued' = (stopQueued \/ Receivers)
                   /\ UNCHANGED <<app, store, server, client>>

\* shutdown: send(1).unwrap(), with the mutex.
Shutdown == /\ ~poisoned
            /\ \/ /\ Receivers
                  /\ stopSent' = TRUE
                  /\ stopQueued' = TRUE
                  /\ UNCHANGED poisoned
               \/ /\ ~Receivers
                  /\ poisoned' = TRUE
                  /\ UNCHANGED stop
            /\ UNCHANGED <<app, assets, removed, gone, server, client>>

-----------------------------------------------------------------------------
(* run_asset_server.                                                       *)

ServerGoes(from, to) == /\ server = from
                        /\ server' = to
                        /\ UNCHANGED <<app, store, stop, client>>

\* The task locks the store to subscribe, and may come to it too late.
Subscribe == ServerGoes("spawned", IF poisoned THEN "dead" ELSE "subscribed")

\* Mutant: the stop is awaited before the server is.
BindAfterStop == stopQueued /\ ServerGoes("subscribed", "serving")

\* Server::bind panics when the address is taken.
Bind == ServerGoes("subscribed", "serving") \/ ServerGoes("subscribed", "dead")

\* The stop message, also one that was sent before the server was bound; or
\* the HTTP server ends by itself, with an error.
Stop == stopQueued /\ ServerGoes("serving", "stopped")
Fail == ServerGoes("serving", "stopped")

-----------------------------------------------------------------------------
(* The client, and the tasks of its connections to the asset server.       *)

\* The mirror of the scene is written elsewhere; here it is a prefix of it.
Apply == /\ seen < Len(scene)
         /\ seen' = seen + 1
         /\ LET m == scene[seen + 1].mesh
            IN  bytes' = IF scene[seen + 1].what = "buffer" /\ m \in Inline
                         THEN [bytes EXCEPT ![m] = PackBytes(m)] ELSE bytes
         /\ UNCHANGED <<app, store, server, stop, request>>

Got(m, what) == \E n \in 1 .. seen : scene[n].mesh = m /\ scene[n].what = what
State(m, what) ==
    scene[CHOOSE n \in 1 .. seen : scene[n].mesh = m /\ scene[n].what = what].state

RequestGoes(m, from, to) == /\ request[m] = from
                            /\ request' = [request EXCEPT ![m] = to]

\* A connection to a server that is not there is refused, and tried again.
Ask(m) == /\ server = "serving"
          /\ m \notin Inline /\ Got(m, "buffer")
          /\ RequestGoes(m, "none", "asked")
          /\ UNCHANGED <<app, store, server, stop, seen, bytes>>

\* A published URL is the url option followed by the ID.  on_request takes
\* all that follows the host for the ID, so a path in the option, part of it,
\* makes it none.
UrlFinds(m) == m \in assets /\ ~UrlHasPath

\* on_request gives the task of the connection its own pointer to the asset;
\* on a poisoned store that task panics, and the connection is closed.
OnRequest(m) == /\ \/ ~poisoned /\ UrlFinds(m) /\ RequestGoes(m, "asked", "found")
                   \/ ~poisoned /\ ~UrlFinds(m) /\ RequestGoes(m, "asked", "not_found")
                   \/ poisoned /\ RequestGoes(m, "asked", "closed")
                /\ UNCHANGED <<app, store, server, stop, seen, bytes>>

\* The bytes of the asset, whatever has become of the store; a file may have
\* gone.
FetchAsset(m) == /\ \/ /\ m \notin gone
                       /\ RequestGoes(m, "found", "done")
                       /\ bytes' = [bytes EXCEPT ![m] = PackBytes(m)]
                    \/ /\ m \in gone
                       /\ RequestGoes(m, "found", "not_found")
                       /\ UNCHANGED bytes
                 /\ UNCHANGED <<app, store, server, stop, seen>>

-----------------------------------------------------------------------------

Next == \/ \E m \in Meshes : \/ Register(m) \/ Build(m) \/ RemoveAsset(m)
                             \/ FileGoes(m)
                             \/ Ask(m) \/ OnRequest(m) \/ FetchAsset(m)
        \/ Shutdown \/ Subscribe \/ Bind \/ Stop \/ Fail \/ Apply

Spec == Init /\ [][Next]_vars

\* The runtime runs the task of the server and those of the connections; the
\* client applies what it receives and tries again.
FairSpec == /\ Spec
            /\ WF_vars(Subscribe) /\ WF_vars(Bind) /\ WF_vars(Stop)
            /\ WF_vars(Apply)
            /\ \A m \in Meshes : /\ WF_vars(Ask(m)) /\ WF_vars(OnRequest(m))
                                 /\ WF_vars(FetchAsset(m))

-----------------------------------------------------------------------------
(* Properties.                                                             *)

TypeOK == /\ publisher \in [Meshes -> {"packing", "registered", "published",
                                       "panicked"}]
          /\ assets \subseteq Meshes \ Inline
          /\ removed \subseteq Meshes \ assets
          /\ gone \subseteq OnDisk
          /\ poisoned \in BOOLEAN /\ stopSent \in BOOLEAN
          /\ stopQueued \in BOOLEAN
          /\ server \in {"spawned", "subscribed", "serving", "stopped", "dead"}
          /\ seen \in 0 .. Len(scene)
          /\ request \in [Meshes -> {"none", "asked", "found", "not_found",
                                     "closed", "done"}]

\* A client that has the geometry and the bytes of a mesh reads the mesh that
\* was packed: the offsets, strides and lengths that build_states works out
\* agree with the array that pack_bytes made, whichever way it travelled.  Of
\* a mesh with more indices than a u32 can count it finds the first ones.
MeshReadsBack ==
    \A m \in Meshes : Got(m, "geometry") /\ DOMAIN bytes[m] # {} =>
        LET geometry == State(m, "geometry")
        IN  /\ Cardinality(DOMAIN bytes[m]) = State(m, "buffer").size
            /\ VerticesReadBack(m, bytes[m], State(m, "vertices"), geometry)
            /\ m.indexed =>
                  IndicesReadBack(m, bytes[m], State(m, "indices"), geometry)

\* A URL that a client got from a buffer is answered "not found" only after
\* the application removed that asset or its file has gone, if the url option
\* of the server is a host and a port.
NotFoundIsRemoved ==
    \A m \in Meshes :
        request[m] = "not_found" => m \in removed \cup gone \/ UrlHasPath

\* A shutdown that returns stops the server, also when it comes between the
\* subscription of the task and its bind.
ShutdownStops == stopSent ~> server \in {"stopped", "dead"}

\* A mesh that a client has heard of is served, unless the application takes
\* it back or its file is gone, or the store or the server is.  (The url option
\* is a host and a port.)
PublishedIsServed ==
    \A m \in Meshes \ Inline :
        Got(m, "buffer") ~> \/ request[m] = "done"
                            \/ m \in removed \cup gone \/ UrlHasPath
                            \/ poisoned
                            \/ server \in {"stopped", "dead"}
=============================================================================
