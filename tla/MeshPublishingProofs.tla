----------------------- MODULE MeshPublishingProofs ------------------------
(***************************************************************************)
(* Proofs about MeshPublishing and the layout of BufferBuilder, for meshes *)
(* of every size.                                                          *)
(***************************************************************************)
EXTENDS MeshPublishing, FiniteSetTheorems, TLAPS

-----------------------------------------------------------------------------
(* The layout. *)

(* The sizes are numbers, and the array is as long as its two parts. *)
LEMMA Sizes ==
  ASSUME NEW mesh \in MeshType
  PROVE  /\ SizeOf[mesh.kind] \in {24, 28, 44}
         /\ VertexBytes(mesh) \in Nat
         /\ IndexBytes(mesh) \in Nat
         /\ IndexCount(mesh) \in Nat
         /\ TotalU32(mesh) \in 0 .. IndexCount(mesh)
         /\ IndexCount(mesh) < U32Limit => TotalU32(mesh) = IndexCount(mesh)
         /\ IndexBytes(mesh) = IndexCount(mesh) * 4
<1>1. mesh.kind \in {"minimal", "texture", "full"}
  BY DEF MeshType, VertexKinds, Fields
<1>2. PerPrimitive[mesh.shape] \in {1, 2, 3}
  BY DEF MeshType, Shapes, PerPrimitive
<1>3. mesh.vertices \in Nat /\ mesh.primitives \in Nat
  BY DEF MeshType
<1>4. IndexCount(mesh) \in Nat
  BY <1>2, <1>3 DEF IndexCount
<1>5. ASSUME NEW n \in Nat
      PROVE  n % U32Limit \in 0 .. n /\ (n < U32Limit => n % U32Limit = n)
  BY BuilderAssumption
<1> QED
  BY <1>1, <1>3, <1>4, <1>5 DEF SizeOf, VertexBytes, IndexBytes, TotalU32

(* Byte "at" of vertex i is where the vertex puts it. *)
LEMMA VertexByteAt ==
  ASSUME NEW mesh \in MeshType, NEW i \in 0 .. mesh.vertices - 1,
         NEW at \in 0 .. SizeOf[mesh.kind] - 1
  PROVE  /\ i * SizeOf[mesh.kind] + at \in 0 .. VertexBytes(mesh) - 1
         /\ PackBytes(mesh)[i * SizeOf[mesh.kind] + at] =
              [part |-> "vertex", of |-> i, at |-> at]
<1>1. mesh.vertices \in Nat
  BY DEF MeshType
<1>2. ASSUME NEW size \in {24, 28, 44}, NEW j \in 0 .. mesh.vertices - 1,
             NEW k \in 0 .. size - 1
      PROVE  /\ j * size + k \in 0 .. mesh.vertices * size - 1
             /\ (j * size + k) \div size = j
             /\ (j * size + k) % size = k
  <2>1. CASE size = 24
    BY <1>1, <2>1
  <2>2. CASE size = 28
    BY <1>1, <2>2
  <2>3. CASE size = 44
    BY <1>1, <2>3
  <2> QED
    BY <2>1, <2>2, <2>3
<1> DEFINE b == i * SizeOf[mesh.kind] + at
<1>3. /\ b \in 0 .. VertexBytes(mesh) - 1
      /\ b \div SizeOf[mesh.kind] = i
      /\ b % SizeOf[mesh.kind] = at
  BY <1>2, Sizes DEF VertexBytes
<1>4. b \in 0 .. VertexBytes(mesh) + IndexBytes(mesh) - 1 /\ b < VertexBytes(mesh)
  BY <1>3, Sizes
<1>5. PackBytes(mesh)[b] = VertexByte(mesh, b)
  BY <1>4 DEF PackBytes
<1> QED
  BY <1>3, <1>5 DEF VertexByte

(* Byte k of index j follows the vertices. *)
LEMMA IndexByteAt ==
  ASSUME NEW mesh \in MeshType, NEW j \in 0 .. TotalU32(mesh) - 1, NEW k \in 0 .. 3
  PROVE  /\ 4 * j + k \in 0 .. IndexBytes(mesh) - 1
         /\ PackBytes(mesh)[VertexBytes(mesh) + 4 * j + k] =
              [part |-> "index", of |-> j, at |-> k]
<1>1. 4 * j + k \in 0 .. IndexBytes(mesh) - 1
  BY Sizes
<1>2. (4 * j + k) \div 4 = j /\ (4 * j + k) % 4 = k
  BY Sizes
<1> DEFINE b == VertexBytes(mesh) + 4 * j + k
<1>3. /\ b \in 0 .. VertexBytes(mesh) + IndexBytes(mesh) - 1
      /\ ~ (b < VertexBytes(mesh))
      /\ b - VertexBytes(mesh) = 4 * j + k
  BY <1>1, Sizes
<1>4. PackBytes(mesh)[b] = IndexByte(4 * j + k)
  BY <1>3 DEF PackBytes
<1> QED
  BY <1>1, <1>2, <1>4 DEF IndexByte

(* get_structure of each vertex type says where its fields are. *)
LEMMA StructureFollowsFields ==
  ASSUME NEW kind \in VertexKinds
  PROVE  /\ FollowsFields(kind, GetStructure(kind))
         /\ \A n \in 1 .. Len(GetStructure(kind)) :
              LET attrib == GetStructure(kind)[n]
              IN  /\ attrib.offset \in Nat
                  /\ FormatSize[attrib.format] \in Nat
                  /\ attrib.offset + FormatSize[attrib.format] <= SizeOf[kind]
<1>1. kind \in {"minimal", "texture", "full"}
  BY DEF VertexKinds, Fields
<1>2. CASE kind = "minimal"
  BY <1>2 DEF FollowsFields, GetStructure, BaseAttribs, Attrib, Fields,
     FormatSize, SizeOf
<1>3. CASE kind = "texture"
  BY <1>3 DEF FollowsFields, GetStructure, BaseAttribs, Attrib, Fields,
     FormatSize, SizeOf
<1>4. CASE kind = "full"
  BY <1>4 DEF FollowsFields, GetStructure, BaseAttribs, Attrib, Fields,
     FormatSize, SizeOf
<1> QED
  BY <1>1, <1>2, <1>3, <1>4

(* The array is as long as the buffer says. *)
LEMMA BufferIsWhole ==
  ASSUME NEW mesh \in MeshType
  PROVE  Cardinality(DOMAIN PackBytes(mesh)) = BuildBuffer(mesh).size
<1> DEFINE n == VertexBytes(mesh) + IndexBytes(mesh)
<1>1. n \in Nat
  BY Sizes
<1>2. Cardinality(0 .. n - 1) = n
  BY <1>1, FS_Interval
<1>3. DOMAIN PackBytes(mesh) = 0 .. n - 1
  <2>1. DOMAIN PackBytes(mesh) = 0 .. VertexBytes(mesh) + IndexBytes(mesh) - 1
    BY DEF PackBytes
  <2>2. VertexBytes(mesh) + IndexBytes(mesh) - 1 = n - 1
    BY Sizes
  <2> QED
    BY <2>1, <2>2
<1>4. BuildBuffer(mesh).size = n
  BY DEF BuildBuffer
<1> QED
  BY <1>2, <1>3, <1>4

(* A reader of the components that build_states makes finds in the array     *)
(* that pack_bytes makes every attribute of every vertex, and every index    *)
(* that the geometry counts, for every vertex type and any number of vertices*)
(* and primitives.  The geometry counts all of them if their number is one   *)
(* of u32 (U32Limit): total_u32_count converts it without a check.           *)
THEOREM LayoutReadsBack ==
  ASSUME NEW mesh \in MeshType
  PROVE  /\ VerticesReadBack(mesh, PackBytes(mesh), VertexView(mesh),
                             BuildGeometry(mesh))
         /\ IndicesReadBack(mesh, PackBytes(mesh), IndexView(mesh),
                            BuildGeometry(mesh))
<1> DEFINE geometry == BuildGeometry(mesh)
           array    == PackBytes(mesh)
           size     == SizeOf[mesh.kind]
<1>1. mesh.kind \in VertexKinds /\ mesh.vertices \in Nat
  BY DEF MeshType
<1>2. DOMAIN array = 0 .. VertexBytes(mesh) + IndexBytes(mesh) - 1
  BY DEF PackBytes
<1>3. ASSUME NEW n \in 1 .. Len(geometry.attributes),
             NEW i \in 0 .. mesh.vertices - 1,
             NEW k \in 0 .. FormatSize[geometry.attributes[n].format] - 1
      PROVE  LET attrib == geometry.attributes[n]
                 b == AttributeAt(VertexView(mesh), geometry, attrib, i, k)
             IN  /\ Within(VertexView(mesh), b) /\ b \in DOMAIN array
                 /\ array[b] = [part |-> "vertex", of |-> i,
                                at |-> attrib.offset + k]
  <2> DEFINE attrib == GetStructure(mesh.kind)[n]
             at == attrib.offset + k
  <2>1. geometry.attributes = GetStructure(mesh.kind) /\ geometry.stride = size
    BY DEF BuildGeometry
  <2>2. at \in 0 .. size - 1 /\ attrib.offset \in Nat /\ k \in Nat
    <3>1. n \in 1 .. Len(GetStructure(mesh.kind))
      BY <2>1
    <3>2. /\ attrib.offset \in Nat
          /\ FormatSize[attrib.format] \in Nat
          /\ attrib.offset + FormatSize[attrib.format] <= size
      BY <1>1, <3>1, StructureFollowsFields
    <3>3. k \in 0 .. FormatSize[attrib.format] - 1
      BY <2>1
    <3>4. size \in Nat
      BY Sizes
    <3> HIDE DEF attrib, size
    <3> QED
      BY <3>2, <3>3, <3>4
  <2>3. /\ i * size + at \in 0 .. VertexBytes(mesh) - 1
        /\ array[i * size + at] = [part |-> "vertex", of |-> i, at |-> at]
    BY <2>2, VertexByteAt
  <2>4. i * size \in Nat
    <3>1. size \in Nat /\ i \in Nat
      BY Sizes, <1>1
    <3> HIDE DEF size
    <3> QED
      BY <3>1
  <2>5. AttributeAt(VertexView(mesh), geometry, attrib, i, k) = i * size + at
    BY <2>1, <2>2, <2>4 DEF AttributeAt, VertexView
  <2>6. /\ Within(VertexView(mesh), i * size + at)
        /\ i * size + at \in DOMAIN array
    BY <1>2, <2>3, Sizes DEF Within, VertexView
  <2> QED
    BY <2>1, <2>3, <2>5, <2>6
<1>4. VerticesReadBack(mesh, array, VertexView(mesh), geometry)
  BY <1>1, <1>3, StructureFollowsFields DEF VerticesReadBack, BuildGeometry
<1>5. ASSUME NEW j \in 0 .. TotalU32(mesh) - 1, NEW k \in 0 .. 3
      PROVE  LET b == IndexAt(IndexView(mesh), j, k)
             IN  /\ Within(IndexView(mesh), b) /\ b \in DOMAIN array
                 /\ array[b] = [part |-> "index", of |-> j, at |-> k]
  <2>1. IndexAt(IndexView(mesh), j, k) = VertexBytes(mesh) + 4 * j + k
    BY DEF IndexAt, IndexView
  <2>2. 4 * j + k \in 0 .. IndexBytes(mesh) - 1
    BY IndexByteAt
  <2>3. /\ Within(IndexView(mesh), VertexBytes(mesh) + 4 * j + k)
        /\ VertexBytes(mesh) + 4 * j + k \in DOMAIN array
    <3> DEFINE c == 4 * j + k
    <3>1. /\ c \in 0 .. IndexBytes(mesh) - 1
          /\ VertexBytes(mesh) \in Nat /\ IndexBytes(mesh) \in Nat
      BY <2>2, Sizes
    <3>2. VertexBytes(mesh) + 4 * j + k = VertexBytes(mesh) + c
      BY <3>1
    <3> HIDE DEF c
    <3>3. /\ VertexBytes(mesh) + c >= VertexBytes(mesh)
          /\ VertexBytes(mesh) + c < VertexBytes(mesh) + IndexBytes(mesh)
          /\ VertexBytes(mesh) + c \in DOMAIN array
      BY <1>2, <3>1
    <3> QED
      BY <3>2, <3>3 DEF Within, IndexView
  <2>4. array[VertexBytes(mesh) + 4 * j + k] =
          [part |-> "index", of |-> j, at |-> k]
    BY IndexByteAt
  <2> HIDE DEF array
  <2> QED
    BY <2>1, <2>3, <2>4
<1>6. IndicesReadBack(mesh, array, IndexView(mesh), geometry)
  BY <1>5, Sizes DEF IndicesReadBack, BuildGeometry
<1> QED
  BY <1>4, <1>6

-----------------------------------------------------------------------------
(* The scene. *)

Parts == {"buffer", "vertices", "indices", "geometry"}

(* The state that each part of a mesh is created with. *)
PartState(m, what) ==
  CASE what = "buffer"   -> BuildBuffer(m)
    [] what = "vertices" -> VertexView(m)
    [] what = "indices"  -> IndexView(m)
    [] what = "geometry" -> BuildGeometry(m)

Entry(m, what) == [mesh |-> m, what |-> what, state |-> PartState(m, what)]

Entries == {Entry(m, what) : m \in Meshes, what \in Parts}

(* What is created before the geometry of a mesh. *)
Before(m) == {"buffer", "vertices"} \cup (IF m.indexed THEN {"indices"} ELSE {})

(* A geometry comes after everything it refers to. *)
Ordered(s) ==
  \A n \in 1 .. Len(s) : s[n].what = "geometry" =>
    \A what \in Before(s[n].mesh) : \E k \in 1 .. n - 1 :
      s[k].mesh = s[n].mesh /\ s[k].what = what

(* The scene is made of the parts of published meshes. *)
SceneKnown ==
  /\ scene \in Seq(Entries)
  /\ Ordered(scene)
  /\ \A n \in 1 .. Len(scene) : publisher[scene[n].mesh] = "published"

(* A mesh that is published by URL has been in the store. *)
Stored ==
  /\ \A m \in Meshes \ Inline : publisher[m] \in {"registered", "published"} =>
       m \in assets \cup removed
  /\ \A m \in removed : publisher[m] = "published"
  /\ \A m \in assets : publisher[m] \in {"registered", "published"}

(* What a client has asked for has been in the store. *)
Requests ==
  \A m \in Meshes : request[m] # "none" => m \in assets \cup removed

(* The client has no bytes of a mesh, or those that were packed. *)
BytesKnown ==
  bytes \in [Meshes -> UNION {{NoBytes, PackBytes(m)} : m \in Meshes}]
  /\ \A m \in Meshes : bytes[m] \in {NoBytes, PackBytes(m)}

IInv == /\ TypeOK /\ SceneKnown /\ Stored /\ Requests /\ BytesKnown
        /\ NotFoundIsRemoved

(* The parts of one mesh are created in an order that resolves. *)
LEMMA CreationsKnown ==
  ASSUME NEW m \in Meshes
  PROVE  /\ Creations(m) \in Seq(Entries)
         /\ Ordered(Creations(m))
         /\ \A n \in 1 .. Len(Creations(m)) : Creations(m)[n].mesh = m
<1>0. /\ Entry(m, "buffer") =
           [mesh |-> m, what |-> "buffer", state |-> BuildBuffer(m)]
      /\ Entry(m, "vertices") =
           [mesh |-> m, what |-> "vertices", state |-> VertexView(m)]
      /\ Entry(m, "indices") =
           [mesh |-> m, what |-> "indices", state |-> IndexView(m)]
      /\ Entry(m, "geometry") =
           [mesh |-> m, what |-> "geometry", state |-> BuildGeometry(m)]
  BY DEF Entry, PartState
<1>1. \A what \in Parts : Entry(m, what) \in Entries
  BY DEF Entries
<1>2. CASE m.indexed
  <2>1. Creations(m) = <<Entry(m, "buffer"), Entry(m, "vertices"),
                         Entry(m, "indices"), Entry(m, "geometry")>>
    BY <1>0, <1>2 DEF Creations, Created
  <2>2. Creations(m) \in Seq(Entries)
    BY <1>1, <2>1 DEF Parts
  <2>3. /\ Len(Creations(m)) = 4
        /\ Creations(m)[1] = Entry(m, "buffer")
        /\ Creations(m)[2] = Entry(m, "vertices")
        /\ Creations(m)[3] = Entry(m, "indices")
        /\ Creations(m)[4] = Entry(m, "geometry")
    BY <2>1
  <2>4. \A n \in 1 .. 4 : n \in {1, 2, 3, 4}
    OBVIOUS
  <2>5. \A n \in 1 .. 4 : Creations(m)[n].mesh = m
    BY <2>3, <2>4 DEF Entry
  <2>6. \A n \in 1 .. 4 : Creations(m)[n].what = "geometry" => n = 4
    BY <2>3, <2>4 DEF Entry
  <2>7. \A what \in Before(m) : \E k \in 1 .. 4 - 1 :
           Creations(m)[k].mesh = m /\ Creations(m)[k].what = what
    <3>1. 1 \in 1 .. 4 - 1 /\ 2 \in 1 .. 4 - 1 /\ 3 \in 1 .. 4 - 1
      OBVIOUS
    <3> QED
      BY <1>2, <2>3, <3>1 DEF Before, Entry
  <2> QED
    BY <2>2, <2>3, <2>5, <2>6, <2>7 DEF Ordered
<1>3. CASE ~ m.indexed
  <2>1. Creations(m) = <<Entry(m, "buffer"), Entry(m, "vertices"),
                         Entry(m, "geometry")>>
    BY <1>0, <1>3 DEF Creations, Created
  <2>2. Creations(m) \in Seq(Entries)
    BY <1>1, <2>1 DEF Parts
  <2>3. /\ Len(Creations(m)) = 3
        /\ Creations(m)[1] = Entry(m, "buffer")
        /\ Creations(m)[2] = Entry(m, "vertices")
        /\ Creations(m)[3] = Entry(m, "geometry")
    BY <2>1
  <2>4. \A n \in 1 .. 3 : n \in {1, 2, 3}
    OBVIOUS
  <2>5. \A n \in 1 .. 3 : Creations(m)[n].mesh = m
    BY <2>3, <2>4 DEF Entry
  <2>6. \A n \in 1 .. 3 : Creations(m)[n].what = "geometry" => n = 3
    BY <2>3, <2>4 DEF Entry
  <2>7. \A what \in Before(m) : \E k \in 1 .. 3 - 1 :
           Creations(m)[k].mesh = m /\ Creations(m)[k].what = what
    <3>1. 1 \in 1 .. 3 - 1 /\ 2 \in 1 .. 3 - 1
      OBVIOUS
    <3> QED
      BY <1>3, <2>3, <3>1 DEF Before, Entry
  <2> QED
    BY <2>2, <2>3, <2>5, <2>6, <2>7 DEF Ordered
<1> QED
  BY <1>2, <1>3

(* Two scenes in a row. *)
LEMMA Concatenated ==
  ASSUME NEW S, NEW s \in Seq(S), NEW t \in Seq(S)
  PROVE  /\ s \o t \in Seq(S)
         /\ Len(s \o t) = Len(s) + Len(t)
         /\ \A n \in 1 .. Len(s) : (s \o t)[n] = s[n]
         /\ \A n \in 1 .. Len(t) : (s \o t)[Len(s) + n] = t[n]
         /\ \A n \in 1 .. Len(s \o t) :
              n \in 1 .. Len(s) \/ n - Len(s) \in 1 .. Len(t)
  OBVIOUS

(* The order is kept when a scene is continued. *)
LEMMA OrderedTogether ==
  ASSUME NEW s \in Seq(Entries), NEW t \in Seq(Entries), Ordered(s), Ordered(t)
  PROVE  Ordered(s \o t)
<1> SUFFICES ASSUME NEW n \in 1 .. Len(s \o t), (s \o t)[n].what = "geometry",
                    NEW what \in Before((s \o t)[n].mesh)
             PROVE  \E k \in 1 .. n - 1 : /\ (s \o t)[k].mesh = (s \o t)[n].mesh
                                          /\ (s \o t)[k].what = what
  BY DEF Ordered
<1>1. CASE n \in 1 .. Len(s)
  <2>0. (s \o t)[n] = s[n]
    BY <1>1, Concatenated
  <2>1. PICK k \in 1 .. n - 1 : s[k].mesh = s[n].mesh /\ s[k].what = what
    BY <1>1, <2>0 DEF Ordered
  <2>2. k \in 1 .. Len(s) /\ (s \o t)[k] = s[k] /\ (s \o t)[n] = s[n]
    BY <1>1, Concatenated
  <2> QED
    BY <2>1, <2>2
<1>2. CASE n - Len(s) \in 1 .. Len(t)
  <2> DEFINE p == n - Len(s)
  <2>1. (s \o t)[n] = t[p]
    BY <1>2, Concatenated
  <2>2. PICK k \in 1 .. p - 1 : t[k].mesh = t[p].mesh /\ t[k].what = what
    BY <1>2, <2>1 DEF Ordered
  <2>3. (s \o t)[Len(s) + k] = t[k] /\ Len(s) + k \in 1 .. n - 1
    BY <1>2, <2>2, Concatenated
  <2> QED
    BY <2>1, <2>2, <2>3
<1> QED
  BY <1>1, <1>2, Concatenated

-----------------------------------------------------------------------------
(* The invariant is preserved. *)

(* Every step keeps the types. *)
LEMMA TypeStep ==
  IInv /\ [Next]_vars => TypeOK'
<1> SUFFICES ASSUME IInv, [Next]_vars PROVE TypeOK'
  OBVIOUS
<1> USE PublishingAssumption DEF IInv, TypeOK
<1>0. ASSUME NEW m \in Meshes, FileGoes(m) PROVE TypeOK'
  BY <1>0 DEF FileGoes, Stored, app, stop, client
<1>1. ASSUME NEW m \in Meshes, Register(m) PROVE TypeOK'
  BY <1>1 DEF Register, KeepInline, AddAsset, PublisherGoes, Stored, app,
     store, stop, client
<1>2. ASSUME NEW m \in Meshes, Build(m) PROVE TypeOK'
  <2>1. scene' \in Seq(Entries) /\ Len(scene') >= Len(scene)
    BY <1>2, CreationsKnown, Concatenated DEF Build, SceneKnown
  <2>2. seen' \in 0 .. Len(scene')
    BY <1>2, <2>1 DEF Build, client, SceneKnown
  <2> QED
    BY <1>2, <2>2 DEF Build, PublisherGoes, store, stop, client
<1>3. ASSUME NEW m \in Meshes, RemoveAsset(m) PROVE TypeOK'
  BY <1>3 DEF RemoveAsset, Stored, app, store, stop, client
<1>4. ASSUME NEW m \in Meshes, Ask(m) PROVE TypeOK'
  BY <1>4 DEF Ask, RequestGoes, Stored, app, store, stop, client
<1>5. ASSUME NEW m \in Meshes, OnRequest(m) PROVE TypeOK'
  BY <1>5 DEF OnRequest, UrlFinds, RequestGoes, Stored, app, store, stop, client
<1>6. ASSUME NEW m \in Meshes, FetchAsset(m) PROVE TypeOK'
  BY <1>6 DEF FetchAsset, RequestGoes, Stored, app, store, stop, client
<1>7. CASE Apply
  BY <1>7 DEF Apply, SceneKnown, app, store, stop
<1>8. CASE Shutdown \/ Subscribe \/ Bind \/ Stop \/ Fail
  BY <1>8 DEF Shutdown, Receivers, Subscribe, Bind, Stop, Fail, ServerGoes,
     Stored, app, store, stop, client
<1>9. CASE UNCHANGED vars
  BY <1>9 DEF vars, Stored, app, store, stop, client
<1> HIDE DEF TypeOK
<1> QED
  BY <1>0, <1>1, <1>2, <1>3, <1>4, <1>5, <1>6, <1>7, <1>8, <1>9 DEF Next

(* The scene grows by the parts of a mesh that becomes published. *)
LEMMA SceneStep ==
  IInv /\ [Next]_vars => SceneKnown'
<1> SUFFICES ASSUME IInv, [Next]_vars PROVE SceneKnown'
  OBVIOUS
<1> USE PublishingAssumption DEF IInv, SceneKnown
<1>0. ASSUME NEW m \in Meshes, FileGoes(m) PROVE SceneKnown'
  BY <1>0 DEF FileGoes, Entries, Entry, app, stop, client
<1>1. ASSUME NEW m \in Meshes, Register(m) PROVE SceneKnown'
  <2>1. /\ publisher[m] = "packing" /\ scene' = scene
        /\ \A n \in Meshes : n # m => publisher'[n] = publisher[n]
    BY <1>1 DEF Register, KeepInline, AddAsset, PublisherGoes, app, TypeOK
  <2>2. \A n \in 1 .. Len(scene) : scene[n].mesh \in Meshes
    BY DEF Entries, Entry
  <2> QED
    BY <2>1, <2>2
<1>2. ASSUME NEW m \in Meshes, Build(m) PROVE SceneKnown'
  <2>1. /\ publisher' = [publisher EXCEPT ![m] = "published"]
        /\ scene' = scene \o Creations(m)
    BY <1>2 DEF Build, PublisherGoes
  <2>2. scene' \in Seq(Entries) /\ Ordered(scene')
    BY <2>1, CreationsKnown, Concatenated, OrderedTogether
  <2>3. ASSUME NEW n \in 1 .. Len(scene')
        PROVE  publisher'[scene'[n].mesh] = "published"
    <3>1. CASE n \in 1 .. Len(scene)
      <4>1. scene'[n] = scene[n] /\ scene[n].mesh \in Meshes
        BY <2>1, <3>1, CreationsKnown, Concatenated DEF Entries, Entry
      <4> QED
        BY <2>1, <3>1, <4>1 DEF TypeOK
    <3>2. CASE n - Len(scene) \in 1 .. Len(Creations(m))
      <4> DEFINE p == n - Len(scene)
      <4>1. scene'[n] = Creations(m)[p]
        BY <2>1, <3>2, CreationsKnown, Concatenated
      <4>2. scene'[n].mesh = m
        BY <3>2, <4>1, CreationsKnown
      <4> QED
        BY <2>1, <4>2 DEF TypeOK
    <3> QED
      BY <2>1, <3>1, <3>2, CreationsKnown, Concatenated
  <2> QED
    BY <2>2, <2>3
<1>3. ASSUME NEW m \in Meshes, RemoveAsset(m) \/ Ask(m) \/ OnRequest(m) \/ FetchAsset(m) PROVE SceneKnown'
  BY <1>3 DEF RemoveAsset, Ask, RequestGoes, OnRequest, FetchAsset, Entries,
     Entry, app, store, stop, client
<1>4. CASE Apply
  BY <1>4 DEF Apply, Entries, Entry, app, store, stop, client
<1>5. CASE Shutdown \/ Subscribe \/ Bind \/ Stop \/ Fail
  BY <1>5 DEF Shutdown, Receivers, Subscribe, Bind, Stop, Fail, ServerGoes,
     Entries, Entry, app, store, stop, client
<1>6. CASE UNCHANGED vars
  BY <1>6 DEF vars, Entries, Entry, app, store, stop, client
<1> HIDE DEF SceneKnown
<1> QED
  BY <1>0, <1>1, <1>2, <1>3, <1>4, <1>5, <1>6 DEF Next

(* An asset leaves the store only by being removed. *)
LEMMA StoredStep ==
  IInv /\ [Next]_vars => Stored'
<1> SUFFICES ASSUME IInv, [Next]_vars PROVE Stored'
  OBVIOUS
<1> USE PublishingAssumption DEF IInv, TypeOK
<1>0. ASSUME NEW m \in Meshes, FileGoes(m) PROVE Stored'
  BY <1>0 DEF FileGoes, Stored, app, stop, client
<1>1. ASSUME NEW m \in Meshes, Register(m) PROVE Stored'
  BY <1>1 DEF Register, KeepInline, AddAsset, PublisherGoes, Stored, app,
     store, stop, client
<1>2. ASSUME NEW m \in Meshes, Build(m) PROVE Stored'
  BY <1>2 DEF Build, PublisherGoes, Stored, app, store, stop, client
<1>3. ASSUME NEW m \in Meshes, RemoveAsset(m) PROVE Stored'
  BY <1>3 DEF RemoveAsset, Stored, app, store, stop, client
<1>4. ASSUME NEW m \in Meshes, Ask(m) PROVE Stored'
  BY <1>4 DEF Ask, RequestGoes, Stored, app, store, stop, client
<1>5. ASSUME NEW m \in Meshes, OnRequest(m) PROVE Stored'
  BY <1>5 DEF OnRequest, UrlFinds, RequestGoes, Stored, app, store, stop, client
<1>6. ASSUME NEW m \in Meshes, FetchAsset(m) PROVE Stored'
  BY <1>6 DEF FetchAsset, RequestGoes, Stored, app, store, stop, client
<1>7. CASE Apply
  BY <1>7 DEF Apply, Stored, app, store, stop, client
<1>8. CASE Shutdown \/ Subscribe \/ Bind \/ Stop \/ Fail
  BY <1>8 DEF Shutdown, Receivers, Subscribe, Bind, Stop, Fail, ServerGoes,
     Stored, app, store, stop, client
<1>9. CASE UNCHANGED vars
  BY <1>9 DEF vars, Stored, app, store, stop, client
<1> HIDE DEF TypeOK
<1> QED
  BY <1>0, <1>1, <1>2, <1>3, <1>4, <1>5, <1>6, <1>7, <1>8, <1>9 DEF Next

(* What is asked for has been in the store. *)
LEMMA RequestsStep ==
  IInv /\ [Next]_vars => Requests'
<1> SUFFICES ASSUME IInv, [Next]_vars PROVE Requests'
  OBVIOUS
<1> USE PublishingAssumption DEF IInv, TypeOK
<1>0. ASSUME NEW m \in Meshes, FileGoes(m) PROVE Requests'
  BY <1>0 DEF FileGoes, Requests, app, stop, client
<1>1. ASSUME NEW m \in Meshes, Register(m) \/ Build(m) \/ RemoveAsset(m) \/ OnRequest(m) \/ FetchAsset(m) PROVE Requests'
  BY <1>1 DEF Register, KeepInline, AddAsset, PublisherGoes, Build,
     RemoveAsset, OnRequest, UrlFinds, RequestGoes, FetchAsset, Requests, app, store,
     stop, client
<1>2. ASSUME NEW m \in Meshes, Ask(m) PROVE Requests'
  <2>1. PICK n \in 1 .. seen : scene[n].mesh = m /\ scene[n].what = "buffer"
    BY <1>2 DEF Ask, Got
  <2>2. publisher[m] = "published" /\ m \notin Inline
    BY <1>2, <2>1 DEF Ask, SceneKnown
  <2> QED
    BY <1>2, <2>2 DEF Ask, RequestGoes, Requests, Stored, app, store
<1>3. CASE Apply
  BY <1>3 DEF Apply, Requests, app, store, stop, client
<1>4. CASE Shutdown \/ Subscribe \/ Bind \/ Stop \/ Fail
  BY <1>4 DEF Shutdown, Receivers, Subscribe, Bind, Stop, Fail, ServerGoes,
     Requests, app, store, stop, client
<1>5. CASE UNCHANGED vars
  BY <1>5 DEF vars, Requests, app, store, stop, client
<1> HIDE DEF TypeOK
<1> QED
  BY <1>0, <1>1, <1>2, <1>3, <1>4, <1>5 DEF Next

(* The bytes of a mesh are those that were packed. *)
LEMMA BytesStep ==
  IInv /\ [Next]_vars => BytesKnown'
<1> SUFFICES ASSUME IInv, [Next]_vars PROVE BytesKnown'
  OBVIOUS
<1> USE PublishingAssumption DEF IInv, BytesKnown
<1>0. ASSUME NEW m \in Meshes, FileGoes(m) PROVE BytesKnown'
  BY <1>0 DEF FileGoes, Requests, app, stop, client
<1>1. ASSUME NEW m \in Meshes, Register(m) PROVE BytesKnown'
  BY <1>1 DEF Register, KeepInline, AddAsset, PublisherGoes, Requests, app,
     store, stop, client
<1>2. ASSUME NEW m \in Meshes, Build(m) PROVE BytesKnown'
  BY <1>2 DEF Build, PublisherGoes, Requests, app, store, stop, client
<1>3. ASSUME NEW m \in Meshes, RemoveAsset(m) PROVE BytesKnown'
  BY <1>3 DEF RemoveAsset, Requests, app, store, stop, client
<1>4. ASSUME NEW m \in Meshes, Ask(m) PROVE BytesKnown'
  BY <1>4 DEF Ask, RequestGoes, Requests, app, store, stop, client
<1>5. ASSUME NEW m \in Meshes, OnRequest(m) PROVE BytesKnown'
  BY <1>5 DEF OnRequest, UrlFinds, RequestGoes, Requests, app, store, stop, client
<1>6. ASSUME NEW m \in Meshes, FetchAsset(m) PROVE BytesKnown'
  BY <1>6 DEF FetchAsset, RequestGoes, Requests, app, store, stop, client
<1>7. CASE Apply
  BY <1>7 DEF Apply, Requests, app, store, stop, client
<1>8. CASE Shutdown \/ Subscribe \/ Bind \/ Stop \/ Fail
  BY <1>8 DEF Shutdown, Receivers, Subscribe, Bind, Stop, Fail, ServerGoes,
     Requests, app, store, stop, client
<1>9. CASE UNCHANGED vars
  BY <1>9 DEF vars, Requests, app, store, stop, client
<1> HIDE DEF BytesKnown
<1> QED
  BY <1>0, <1>1, <1>2, <1>3, <1>4, <1>5, <1>6, <1>7, <1>8, <1>9 DEF Next

(* What is asked for and not found has been removed. *)
LEMMA NotFoundStep ==
  IInv /\ [Next]_vars => NotFoundIsRemoved'
<1> SUFFICES ASSUME IInv, [Next]_vars PROVE NotFoundIsRemoved'
  OBVIOUS
<1> USE PublishingAssumption DEF IInv, TypeOK
<1>0. ASSUME NEW m \in Meshes, FileGoes(m) PROVE NotFoundIsRemoved'
  BY <1>0 DEF FileGoes, NotFoundIsRemoved, Requests, app, stop, client
<1>1. ASSUME NEW m \in Meshes, Register(m) PROVE NotFoundIsRemoved'
  BY <1>1 DEF Register, KeepInline, AddAsset, PublisherGoes,
     NotFoundIsRemoved, Requests, app, store, stop, client
<1>2. ASSUME NEW m \in Meshes, Build(m) PROVE NotFoundIsRemoved'
  BY <1>2 DEF Build, PublisherGoes, NotFoundIsRemoved, Requests, app, store,
     stop, client
<1>3. ASSUME NEW m \in Meshes, RemoveAsset(m) PROVE NotFoundIsRemoved'
  BY <1>3 DEF RemoveAsset, NotFoundIsRemoved, Requests, app, store, stop,
     client
<1>4. ASSUME NEW m \in Meshes, Ask(m) PROVE NotFoundIsRemoved'
  BY <1>4 DEF Ask, RequestGoes, NotFoundIsRemoved, Requests, app, store,
     stop, client
<1>5. ASSUME NEW m \in Meshes, OnRequest(m) PROVE NotFoundIsRemoved'
  BY <1>5 DEF OnRequest, UrlFinds, RequestGoes, NotFoundIsRemoved, Requests, app,
     store, stop, client
<1>6. ASSUME NEW m \in Meshes, FetchAsset(m) PROVE NotFoundIsRemoved'
  BY <1>6 DEF FetchAsset, RequestGoes, NotFoundIsRemoved, Requests, app,
     store, stop, client
<1>7. CASE Apply
  BY <1>7 DEF Apply, NotFoundIsRemoved, Requests, app, store, stop, client
<1>8. CASE Shutdown \/ Subscribe \/ Bind \/ Stop \/ Fail
  BY <1>8 DEF Shutdown, Receivers, Subscribe, Bind, Stop, Fail, ServerGoes,
     NotFoundIsRemoved, Requests, app, store, stop, client
<1>9. CASE UNCHANGED vars
  BY <1>9 DEF vars, NotFoundIsRemoved, Requests, app, store, stop, client
<1> HIDE DEF TypeOK
<1> QED
  BY <1>0, <1>1, <1>2, <1>3, <1>4, <1>5, <1>6, <1>7, <1>8, <1>9 DEF Next

(* The initial states satisfy the invariant. *)
LEMMA InvInit == Init => IInv
<1> SUFFICES ASSUME Init PROVE IInv
  OBVIOUS
<1>1. TypeOK
  <2>1. seen \in 0 .. Len(scene)
    BY DEF Init
  <2> QED
    BY <2>1 DEF Init, TypeOK
<1>2. SceneKnown
  BY DEF Init, SceneKnown, Ordered
<1>3. Stored /\ Requests /\ BytesKnown /\ NotFoundIsRemoved
  BY DEF Init, Stored, Requests, BytesKnown, NotFoundIsRemoved
<1> QED
  BY <1>1, <1>2, <1>3 DEF IInv

(* Every state of the publication satisfies the invariant. *)
THEOREM Invariance == Spec => []IInv
<1>1. IInv /\ [Next]_vars => IInv'
  BY TypeStep, SceneStep, StoredStep, RequestsStep, BytesStep, NotFoundStep
  DEF IInv
<1> QED
  BY <1>1, InvInit, PTL DEF Spec

(* The publication of meshes is well typed. *)
THEOREM TypeCorrect == Spec => []TypeOK
<1>1. IInv => TypeOK
  BY DEF IInv
<1> QED
  BY <1>1, Invariance, PTL

(* A URL that a client got from a buffer is not found only when the asset was *)
(* removed or its file has gone, or when the url option has a path            *)
(* (on_request, add_asset, remove_asset).                                     *)
THEOREM NotFoundOnlyWhenRemoved == Spec => []NotFoundIsRemoved
<1>1. IInv => NotFoundIsRemoved
  BY DEF IInv
<1> QED
  BY <1>1, Invariance, PTL

(* What a client knows of a part is what the part was created with. *)
LEMMA StateOfPart ==
  ASSUME SceneKnown, seen \in 0 .. Len(scene), NEW m \in Meshes,
         NEW what \in Parts, Got(m, what)
  PROVE  State(m, what) = PartState(m, what)
<1> DEFINE P(n) == scene[n].mesh = m /\ scene[n].what = what
<1>1. \E n \in 1 .. seen : P(n)
  BY DEF Got
<1> DEFINE k == CHOOSE n \in 1 .. seen : P(n)
<1>2. k \in 1 .. seen /\ P(k)
  BY <1>1
<1>3. scene[k] \in Entries
  BY <1>2 DEF SceneKnown
<1> HIDE DEF k
<1>4. PICK m2 \in Meshes, w2 \in Parts : scene[k] = Entry(m2, w2)
  BY <1>3 DEF Entries
<1>5. m2 = m /\ w2 = what
  BY <1>2, <1>4 DEF Entry
<1>6. scene[k].state = PartState(m, what)
  BY <1>4, <1>5 DEF Entry
<1> QED
  BY <1>6 DEF State, k

(* A client that has the geometry has everything it refers to. *)
LEMMA GeometryIsLast ==
  ASSUME SceneKnown, seen \in 0 .. Len(scene), NEW m \in Meshes,
         Got(m, "geometry"), NEW what \in Before(m)
  PROVE  Got(m, what)
<1>1. PICK n \in 1 .. seen : scene[n].mesh = m /\ scene[n].what = "geometry"
  BY DEF Got
<1>2. n \in 1 .. Len(scene)
  BY DEF SceneKnown
<1>3. PICK k \in 1 .. n - 1 : scene[k].mesh = m /\ scene[k].what = what
  BY <1>1, <1>2 DEF SceneKnown, Ordered
<1>4. k \in 1 .. seen
  BY DEF SceneKnown
<1> QED
  BY <1>3, <1>4 DEF Got

(* A client that has the geometry and the bytes of a mesh reads the mesh that *)
(* was packed (pack_bytes against build_states), for any number of vertices,  *)
(* and of indices as far as a u32 can count them.                             *)
THEOREM PublishedMeshReadsBack == Spec => []MeshReadsBack
<1>1. ASSUME IInv PROVE MeshReadsBack
  <2> SUFFICES ASSUME NEW m \in Meshes, Got(m, "geometry"),
                      DOMAIN bytes[m] # {}
               PROVE  /\ Cardinality(DOMAIN bytes[m]) = State(m, "buffer").size
                      /\ VerticesReadBack(m, bytes[m], State(m, "vertices"),
                                          State(m, "geometry"))
                      /\ m.indexed =>
                           IndicesReadBack(m, bytes[m], State(m, "indices"),
                                           State(m, "geometry"))
    BY DEF MeshReadsBack
  <2>1. SceneKnown /\ seen \in 0 .. Len(scene)
    BY <1>1 DEF IInv, TypeOK
  <2>2. m \in MeshType
    BY PublishingAssumption
  <2>3. bytes[m] = PackBytes(m)
    BY <1>1 DEF IInv, BytesKnown, NoBytes
  <2>4. /\ State(m, "buffer") = BuildBuffer(m)
        /\ State(m, "vertices") = VertexView(m)
        /\ State(m, "geometry") = BuildGeometry(m)
    BY <2>1, StateOfPart, GeometryIsLast DEF Before, Parts, PartState
  <2>5. m.indexed => State(m, "indices") = IndexView(m)
    BY <2>1, StateOfPart, GeometryIsLast DEF Before, Parts, PartState
  <2> QED
    BY <2>2, <2>3, <2>4, <2>5, LayoutReadsBack, BufferIsWhole
<1> QED
  BY <1>1, Invariance, PTL
=============================================================================
