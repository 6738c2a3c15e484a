------------------------------ MODULE DrawState ------------------------------
(***************************************************************************)
(* The part of the state cache of a command context that is set on the list *)
(* without descriptors: render targets, viewport, scissor rectangle, vertex *)
(* and index buffers.  The renderer sets them at any time; the cache keeps   *)
(* the value with a flag, and the next draw sets on the list what is        *)
(* flagged.  The list is replaced whenever work is submitted, and a new list*)
(* has none of this state.                                                 *)
(*                                                                         *)
(* A target is a set of views with its depth view; viewport and scissor are *)
(* one number, the size of a square at the origin, 0 when there is none; a   *)
(* context has one vertex stream.                                          *)
(* A definition that says "mutant of" is the code with one plausible slip.  *)
(***************************************************************************)
EXTENDS Naturals

CONSTANTS Targets,                     \* what a pass may draw to
          FirstTargets, LastTargets,   \* of the first, last pass of a frame
          Extent,                      \* size of a target
          Pipelines, Stride,           \* their vertex stride
          VertexBuffers, IndexBuffers,
          Nothing                      \* a null view, buffer or pipeline

\* What the constants have to be
ShapesAllowed ==
  /\ FirstTargets \subseteq Targets /\ LastTargets \subseteq Targets
  /\ FirstTargets \cap LastTargets = {}
  /\ Extent \in [Targets -> Nat \ {0}] /\ Stride \in [Pipelines -> Nat]
  /\ Nothing \notin Targets \cup Pipelines \cup VertexBuffers \cup IndexBuffers

Parts == {"VB", "RTs", "Viewports", "ScissorRects"}
Rects == {"Viewports", "ScissorRects"}
Sizes == {0} \cup {Extent[t] : t \in Targets}
Views == [buffer : VertexBuffers, stride : {Stride[p] : p \in Pipelines}]
Unset == [p \in Parts |-> IF p \in Rects THEN 0 ELSE Nothing]

VARIABLES
  current,     \* CurrentRenderTargets, CurrentDepthStencilTarget
  pipeline,    \* Graphics.CurrentPipelineStateObject
  strides,     \* Graphics.StreamStrides
  cached,      \* State: PipelineState.Graphics, by part
  need,        \* the parts flagged bNeedSet...
  ibCache,     \* IBCache.CurrentIndexBufferView
  list, listIB,   \* what is set on the open command list
  work,        \* HasDoneWork
  asked        \* ghost: what the renderer asked for in this frame

vars == <<current, pipeline, strides, cached, need, ibCache, list, listIB,
          work, asked>>
-----------------------------------------------------------------------------
(* The state cache *)

\* The parts that new gives another value
Changed(new) == {p \in Parts : new[p] # cached[p]}

\* CommandContext::SetViewport sets both
SetViewportAndScissor(c, e) == [c EXCEPT !.Viewports = e, !.ScissorRects = e]

\* DirtyStateForNewCommandList: what differs from the defaults of a list
DirtyStateForNewCommandList == {p \in Parts : cached[p] # Unset[p]}

\* ApplyState: no vertex buffer is set when none is bound
AppliedTo(l) ==
  [p \in Parts |->
     IF p \in need /\ (p = "VB" => cached.VB # Nothing)
     THEN cached[p] ELSE l[p]]
ApplyState == list' = AppliedTo(list) /\ need' = {} /\ work' = TRUE

\* OpenCommandList, for the list that replaces the one just submitted
OpenCommandList ==
  /\ need' = need \cup DirtyStateForNewCommandList /\ ibCache' = Nothing
  /\ list' = Unset /\ listIB' = Nothing /\ work' = FALSE
-----------------------------------------------------------------------------
(* The calls of the renderer *)

\* SetRenderTargetsAndClear.  The state cache hears of targets that differ
\* from those of the last pass; a clear may flush a barrier, which is work.
BeginRenderPass(t) ==
  LET new == SetViewportAndScissor(
               [cached EXCEPT !.RTs = IF t # current THEN t ELSE @], Extent[t])
  IN /\ asked.RTs = Nothing => t \in FirstTargets
     /\ current' = t /\ cached' = new
     /\ need' = need \cup Changed(new)
                      \cup (IF t # current THEN {"RTs"} ELSE {})
     /\ asked' = [asked EXCEPT !.RTs = t, !.Viewports = Extent[t],
                               !.ScissorRects = Extent[t]]
     /\ work' \in {work, TRUE}
     /\ UNCHANGED <<pipeline, strides, ibCache, list, listIB>>

SetViewport(e) ==
  LET new == SetViewportAndScissor(cached, e)
  IN /\ cached' = new /\ need' = need \cup Changed(new)
     /\ asked' = [asked EXCEPT !.Viewports = e, !.ScissorRects = e]
     /\ UNCHANGED <<current, pipeline, strides, ibCache, list, listIB, work>>

\* With the constraint of ValidateScissorRect; disabling the test asks for the
\* whole viewport
SetScissorRect(e) ==
  LET new == [cached EXCEPT !.ScissorRects = e]
  IN /\ e \in 1 .. cached.Viewports
     /\ cached' = new /\ need' = need \cup Changed(new)
     /\ asked' = [asked EXCEPT !.ScissorRects = e]
     /\ UNCHANGED <<current, pipeline, strides, ibCache, list, listIB, work>>

\* The renderer sets its buffers after the pipeline: those set before stay
\* asked for only if they have the stride of the new one
SetGraphicsPipelineState(p) ==
  /\ pipeline' = p
  /\ strides' = IF p # pipeline THEN Stride[p] ELSE strides
  /\ asked' = IF asked.VB # Nothing /\ asked.VB.stride # Stride[p]
              THEN [asked EXCEPT !.VB = Nothing] ELSE asked
  /\ UNCHANGED <<current, cached, need, ibCache, list, listIB, work>>

\* The view InternalSetStreamSource makes of b
StreamSource(b) == [cached EXCEPT !.VB = [buffer |-> b, stride |-> strides]]

SetVertexBuffer(b) ==
  /\ pipeline # Nothing
  /\ cached' = StreamSource(b) /\ need' = need \cup Changed(cached')
  /\ asked' = [asked EXCEPT !.VB = [buffer |-> b, stride |-> Stride[pipeline]]]
  /\ UNCHANGED <<current, pipeline, strides, ibCache, list, listIB, work>>

DrawPrimitive ==
  /\ pipeline # Nothing /\ ApplyState
  /\ UNCHANGED <<current, pipeline, strides, cached, ibCache, listIB, asked>>

\* SetIndexBuffer sets a buffer that differs from the cached one at once
DrawIndexedPrimitive(b) ==
  /\ pipeline # Nothing /\ ApplyState
  /\ ibCache' = b /\ listIB' = IF b # ibCache THEN b ELSE listIB
  /\ UNCHANGED <<current, pipeline, strides, cached, asked>>

\* In the middle of a frame, after work
FlushCommands ==
  /\ work /\ OpenCommandList
  /\ UNCHANGED <<current, pipeline, strides, cached, asked>>

\* ClearState, which leaves the flags, the strides and the targets of the
\* context, and FlushCommands: nothing cached is left for a new list
EndFrame ==
  /\ current \in LastTargets \cup {Nothing}
  /\ cached' = Unset /\ pipeline' = Nothing /\ ibCache' = Nothing
  /\ asked' = Unset /\ work' = FALSE
  /\ IF work THEN list' = Unset /\ listIB' = Nothing
     ELSE UNCHANGED <<list, listIB>>
  /\ UNCHANGED <<current, strides, need>>

\* The flags are never initialised
Init ==
  /\ current = Nothing /\ pipeline = Nothing /\ strides = 0
  /\ cached = Unset /\ need \in SUBSET Parts /\ ibCache = Nothing
  /\ list = Unset /\ listIB = Nothing /\ work = FALSE /\ asked = Unset

Next ==
  \/ \E t \in Targets : BeginRenderPass(t)
  \/ \E e \in Sizes \ {0} : SetViewport(e) \/ SetScissorRect(e)
  \/ \E p \in Pipelines : SetGraphicsPipelineState(p)
  \/ \E b \in VertexBuffers : SetVertexBuffer(b)
  \/ DrawPrimitive \/ \E b \in IndexBuffers : DrawIndexedPrimitive(b)
  \/ FlushCommands \/ EndFrame

Spec == Init /\ [][Next]_vars
-----------------------------------------------------------------------------
(* Properties *)

PartValues == [VB : Views \cup {Nothing}, RTs : Targets \cup {Nothing},
               Viewports : Sizes, ScissorRects : Sizes]

\* The types, with the constraint of ValidateScissorRect: the scissor rectangle
\* never reaches out of the viewport, whichever of the two is set
TypeOK ==
  /\ current \in Targets \cup {Nothing} /\ pipeline \in Pipelines \cup {Nothing}
  /\ strides \in {0} \cup {Stride[p] : p \in Pipelines}
  /\ {cached, list, asked} \subseteq PartValues /\ need \subseteq Parts
  /\ {ibCache, listIB} \subseteq IndexBuffers \cup {Nothing}
  /\ work \in BOOLEAN
  /\ cached.ScissorRects <= cached.Viewports

\* A pass draws to, and clears, the targets it was begun with.  SetRenderTargets
\* of the context compares with "the old state", and the state cache relies on
\* that comparison
TargetsReachCache == asked.RTs # Nothing => cached.RTs = asked.RTs

\* Whatever was flushed in between: a draw made now has the targets of the pass
\* it is in, and the viewport and scissor rectangle last asked for, not those of
\* an earlier pass
TargetsAsAsked ==
  /\ TargetsReachCache
  /\ \A p \in Parts \ {"VB"} :
       asked[p] # Unset[p] => AppliedTo(list)[p] = asked[p]

\* Whatever was flushed in between: a draw made now reads the vertex buffer last
\* set, with the stride of the pipeline that is set, and the index buffer the
\* cache names is the one that is set on the open list
BuffersAsAsked ==
  /\ asked.VB # Nothing => AppliedTo(list).VB = asked.VB
  /\ ibCache # Nothing => listIB = ibCache
=============================================================================
