------------------------------ MODULE MCFrames ------------------------------
(***************************************************************************)
(* Frames with an offscreen target larger than the back buffers and with   *)
(* three pipelines of draws: mesh and line have one root signature and     *)
(* different vertices, views and topologies; post has another signature.   *)
(***************************************************************************)
EXTENDS Frames

CONSTANTS mesh, line, post, blur, small, large

MCExtent ==
  [t \in Colors \cup BackBuffers |-> IF t \in Colors THEN 2 ELSE 1]
MCStride == [p \in {mesh, line} |-> IF p = mesh THEN 2 ELSE 1]
MCRootOf ==
  [p \in Graphics \cup Compute |-> IF p = post THEN large ELSE small]
MCCount == [p \in Graphics \cup Compute |-> IF p \in {line, blur} THEN 2 ELSE 1]
MCPrimitiveOf ==
  [p \in Graphics |-> IF p = line THEN "LineList" ELSE "TriangleList"]
=============================================================================
