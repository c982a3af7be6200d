--------------------------- MODULE BufferBuilder ---------------------------
(***************************************************************************)
(* How a mesh becomes bytes and components (server_bufferbuilder.rs).      *)
(* pack_bytes lays the vertices and the indices out in one array; build_   *)
(* states describes that array, from the mesh alone, by a buffer, its views*)
(* and the attributes of a geometry.  The two never meet: a reader has the *)
(* bytes from one and where to look from the other.                        *)
(***************************************************************************)
EXTENDS Naturals, Sequences, FiniteSets

CONSTANT U32Limit    \* how many numbers a u32 has: 2^32 in the code

ASSUME BuilderAssumption == U32Limit \in Nat \ {0}

\* The bytes of a format (Vec3, [u16; 2], [u8; 4], u32).
FormatSize == [VEC3 |-> 12, U16VEC2 |-> 4, U8VEC4 |-> 4, U32 |-> 4]

\* The #[repr(C)] vertex types: their fields in order.
Fields == [
    minimal |-> <<[semantic |-> "position", format |-> "VEC3"],
                  [semantic |-> "normal",   format |-> "VEC3"]>>,
    texture |-> <<[semantic |-> "position", format |-> "VEC3"],
                  [semantic |-> "normal",   format |-> "VEC3"],
                  [semantic |-> "texture",  format |-> "U16VEC2"]>>,
    full    |-> <<[semantic |-> "position", format |-> "VEC3"],
                  [semantic |-> "normal",   format |-> "VEC3"],
                  [semantic |-> "tangent",  format |-> "VEC3"],
                  [semantic |-> "texture",  format |-> "U16VEC2"],
                  [semantic |-> "color",    format |-> "U8VEC4"]>>]

VertexKinds == DOMAIN Fields

\* size_of: the fields need no padding.
SizeOf == [minimal |-> 24, texture |-> 28, full |-> 44]

Attrib(semantic, offset, format) ==
    [semantic |-> semantic, offset |-> offset, format |-> format]

\* The attributes that every vertex type has.
BaseAttribs == <<Attrib("position", 0, "VEC3"), Attrib("normal", 12, "VEC3")>>

\* What get_structure of a vertex type says of it.
GetStructure(kind) ==
    CASE kind = "minimal" -> BaseAttribs
      [] kind = "texture" -> Append(BaseAttribs, Attrib("texture", 24, "U16VEC2"))
      [] kind = "full"    -> BaseAttribs \o <<Attrib("tangent", 24, "VEC3"),
                                             Attrib("texture", 36, "U16VEC2"),
                                             Attrib("color", 40, "U8VEC4")>>

\* A mesh: its vertices, and how many primitives of which shape index them.
\* An unindexed mesh has no list of them.
Shapes == {"points", "lines", "triangles"}

MeshType == [kind : VertexKinds, vertices : Nat, shape : Shapes,
             indexed : BOOLEAN, primitives : Nat]

PerPrimitive == [points |-> 1, lines |-> 2, triangles |-> 3]

-----------------------------------------------------------------------------
(* IndexType and pack_bytes.                                               *)

\* How many indices there are, a usize.
IndexCount(mesh) ==
    IF mesh.indexed THEN mesh.primitives * PerPrimitive[mesh.shape] ELSE 0

\* total_u32_count converts their number to u32, which drops its high bits.
TotalU32(mesh) == IndexCount(mesh) % U32Limit

\* total_byte_count does not.
IndexBytes(mesh) == IndexCount(mesh) * 4

VertexBytes(mesh) == mesh.vertices * SizeOf[mesh.kind]

\* A byte is known by what it was: byte "at" of vertex or index "of".
VertexByte(mesh, b) == [part |-> "vertex", of |-> b \div SizeOf[mesh.kind],
                        at |-> b % SizeOf[mesh.kind]]
IndexByte(b) == [part |-> "index", of |-> b \div 4, at |-> b % 4]

\* The array: first the memory of the vertices, then that of the indices.
PackBytes(mesh) ==
    [b \in 0 .. VertexBytes(mesh) + IndexBytes(mesh) - 1 |->
        IF b < VertexBytes(mesh) THEN VertexByte(mesh, b)
                                 ELSE IndexByte(b - VertexBytes(mesh))]

-----------------------------------------------------------------------------
(* build_states and build_geometry.                                        *)

BuildBuffer(mesh) == [size |-> VertexBytes(mesh) + IndexBytes(mesh)]

VertexView(mesh) == [offset |-> 0, length |-> VertexBytes(mesh)]

\* Mutant: the indices begin where the buffer does.
IndexViewAtStart(mesh) == [offset |-> 0, length |-> IndexBytes(mesh)]

IndexView(mesh) == [offset |-> VertexBytes(mesh), length |-> IndexBytes(mesh)]

BuildGeometry(mesh) ==
    [attributes |-> GetStructure(mesh.kind),
     stride     |-> SizeOf[mesh.kind],
     count      |-> mesh.vertices,
     indices    |-> TotalU32(mesh)]

-----------------------------------------------------------------------------
(* What a reader of the components finds in an array of bytes.             *)

\* Where byte k of an attribute of vertex i, or of index j, is read.
AttributeAt(view, geometry, attrib, i, k) ==
    view.offset + attrib.offset + i * geometry.stride + k
IndexAt(view, j, k) == view.offset + 4 * j + k

Within(view, b) == b >= view.offset /\ b < view.offset + view.length

\* repr(C): a field begins where the one before it ends, and the last one
\* ends with the vertex.
FollowsFields(kind, attributes) ==
    LET fields == Fields[kind]
        End(n) == attributes[n].offset + FormatSize[fields[n].format]
    IN  /\ Len(attributes) = Len(fields)
        /\ attributes[1].offset = 0
        /\ \A n \in 1 .. Len(fields) - 1 : attributes[n + 1].offset = End(n)
        /\ End(Len(fields)) = SizeOf[kind]
        /\ \A n \in 1 .. Len(fields) :
              /\ attributes[n].semantic = fields[n].semantic
              /\ attributes[n].format = fields[n].format

\* There is an attribute for each field of the vertex type, where the field
\* is, and every byte of it is read, for every vertex, from the bytes of that
\* vertex inside the view of the vertices.
VerticesReadBack(mesh, bytes, view, geometry) ==
    /\ FollowsFields(mesh.kind, geometry.attributes)
    /\ geometry.count = mesh.vertices
    /\ \A n \in 1 .. Len(geometry.attributes), i \in 0 .. mesh.vertices - 1 :
          LET attrib == geometry.attributes[n]
          IN  \A k \in 0 .. FormatSize[attrib.format] - 1 :
                 LET b == AttributeAt(view, geometry, attrib, i, k)
                 IN  /\ Within(view, b) /\ b \in DOMAIN bytes
                     /\ bytes[b] = [part |-> "vertex", of |-> i,
                                    at |-> attrib.offset + k]

\* So is every index that the geometry counts, and those are all of them if a
\* u32 can count them.
IndicesReadBack(mesh, bytes, view, geometry) ==
    /\ IndexCount(mesh) < U32Limit => geometry.indices = IndexCount(mesh)
    /\ \A j \in 0 .. geometry.indices - 1, k \in 0 .. 3 :
          LET b == IndexAt(view, j, k)
          IN  /\ Within(view, b) /\ b \in DOMAIN bytes
              /\ bytes[b] = [part |-> "index", of |-> j, at |-> k]
=============================================================================
