------------------------- MODULE MCMeshPublishing --------------------------
(* Three meshes: every vertex type, indexed and not, inline, in memory and *)
(* on disk.  The cube has more indices than U32Limit lets a u32 count, the *)
(* path has fewer.                                                         *)
EXTENDS MeshPublishing

Cube == [kind |-> "full", vertices |-> 2, shape |-> "triangles",
         indexed |-> TRUE, primitives |-> 2]
Path == [kind |-> "texture", vertices |-> 2, shape |-> "lines",
         indexed |-> TRUE, primitives |-> 2]
Cloud == [kind |-> "minimal", vertices |-> 3, shape |-> "points",
          indexed |-> FALSE, primitives |-> 0]

MCMeshes == {Cube, Path, Cloud}
MCInline == {Cloud}
MCOnDisk == {Path}
=============================================================================
