---------------------------- MODULE PipelineState ----------------------------
(***************************************************************************)
(* The part of the state cache of a command context that says how shaders   *)
(* run: the pipelines of draws and of dispatches, which share one place on  *)
(* the list, a root signature for each of the two, the topology, and the     *)
(* tables of shader resource views.  A draw or dispatch sets on the list what*)
(* is flagged; the list is replaced when work is submitted.                 *)
(*                                                                         *)
(* One shader stage stands for those of a draw, "graphics", and one is       *)
(* "compute"; a pipeline is named by its shader.  The blend factor, the      *)
(* stencil reference and the depth bounds have one value, and tessellation   *)
(* only sets the topology more often.                                      *)
(* A definition that says "mutant of" is the code with one plausible slip.  *)
(***************************************************************************)
EXTENDS Naturals, Sequences

CONSTANTS Graphics, Compute,     \* pipelines of draws, of dispatches
          RootOf, Count,         \* root signature, NumSRVs of a pipeline
          PrimitiveOf,           \* primitive type of a pipeline of draws
          Undefined,             \* the topology of ControlPoint_32
          Resources,             \* shader resource views
          MaxSlots,              \* MAX_SRVS
          Nothing                \* a null pipeline, root signature or view

Stages == {"graphics", "compute"}
Pipelines == Graphics \cup Compute
Slots == 1 .. MaxSlots

\* What the constants have to be
PipelinesAllowed ==
  /\ MaxSlots \in Nat /\ Count \in [Pipelines -> 0 .. MaxSlots]
  /\ DOMAIN RootOf = Pipelines /\ DOMAIN PrimitiveOf = Graphics
  /\ Nothing \notin Pipelines \cup Resources \cup {RootOf[p] : p \in Pipelines}

VARIABLES
  bound,          \* Graphics., Compute.CurrentPipelineStateObject
  pso,            \* Common.CurrentPipelineStateObject
  primitive,      \* Graphics.CurrentPrimitiveType; the topology follows from it
  needPSO, needRoot, needTopology,     \* flags; needRoot: the stages flagged
  count,          \* Common.CurrentShaderSRVCounts
  view, dirty,    \* SRVCache: Views and DirtySlotMask
  list,           \* what is set on the open command list
  work            \* HasDoneWork

flags == <<needPSO, needRoot, needTopology>>
vars == <<bound, pso, primitive, flags, count, view, dirty, list, work>>

NoTable  == <<>>
NewList  == [pso |-> Nothing, root |-> [s \in Stages |-> Nothing],
             table |-> [s \in Stages |-> NoTable], topology |-> Undefined]
AllDirty == [s \in Stages |-> Slots]
NoViews  == [s \in Stages |-> [i \in Slots |-> Nothing]]
Root(p)  == IF p = Nothing THEN Nothing ELSE RootOf[p]
-----------------------------------------------------------------------------
(* What a draw or dispatch sets *)

\* mutant of: the pipeline that is set is not compared
SetIfFlagged(p, l) == IF needPSO THEN [l EXCEPT !.pso = p] ELSE l
\* InternalSetPipelineState
InternalSetPipelineState(p, l) ==
  IF needPSO \/ pso # p THEN [l EXCEPT !.pso = p] ELSE l

\* "After setting a root signature, all root parameters are undefined"
SetRootSignature(s, l) ==
  IF s \in needRoot
  THEN [l EXCEPT !.root[s] = RootOf[bound[s]], !.table[s] = NoTable] ELSE l
DirtyForRoot(s) == IF s \in needRoot THEN [dirty EXCEPT ![s] = Slots] ELSE dirty

SetTopology(s, l) ==
  IF s = "graphics" /\ needTopology
  THEN [l EXCEPT !.topology = primitive] ELSE l

\* The slots of stage s that its shader reads
Read(s) == 1 .. count[s]

\* SetSRVs: what is bound behind the table is not in the list any more
DirtyOutside(s, d) == (d \ Read(s)) \cup (Slots \ Read(s))

SetSRVs(s, l, d) ==
  IF d[s] \cap Read(s) = {} THEN [list |-> l, dirty |-> d]
  ELSE [list |-> [l EXCEPT !.table[s] = [i \in Read(s) |-> view[s][i]]],
        dirty |-> [d EXCEPT ![s] = DirtyOutside(s, d[s])]]

\* ApplyState.  When the view heap rolls over to another heap, every table is
\* undefined and dirty, and the views needed are counted again
ApplyState(s, rolled) ==
  LET l == SetTopology(s,
             InternalSetPipelineState(bound[s], SetRootSignature(s, list)))
      d == DirtyForRoot(s)
  IN IF rolled /\ d[s] \cap Read(s) # {}
     THEN SetSRVs(s, [l EXCEPT !.table = [t \in Stages |-> NoTable]], AllDirty)
     ELSE SetSRVs(s, l, d)

Apply(s, rolled) ==
  /\ bound[s] # Nothing
  /\ list' = ApplyState(s, rolled).list /\ dirty' = ApplyState(s, rolled).dirty
  /\ pso' = bound[s] /\ needPSO' = FALSE /\ needRoot' = needRoot \ {s}

OpenCommandList ==
  /\ needPSO' = TRUE /\ needRoot' = Stages /\ needTopology' = TRUE
  /\ dirty' = AllDirty /\ list' = NewList /\ work' = FALSE
-----------------------------------------------------------------------------
(* The calls of the renderer *)

\* SetGraphicsPipelineState, SetComputeShader with SetComputePipelineState: a
\* pipeline that is new to its stage is set on the list at once
SetPipeline(s, p) ==
  /\ p # bound[s]
  /\ bound' = [bound EXCEPT ![s] = p] /\ pso' = p /\ needPSO' = FALSE
  /\ count' = [count EXCEPT ![s] = Count[p]]
  /\ needRoot' = IF Root(bound[s]) # RootOf[p] THEN needRoot \cup {s}
                 ELSE needRoot
  /\ list' = [list EXCEPT !.pso = p]
  /\ UNCHANGED <<view, dirty, work>>

SetGraphicsPipelineState(p) ==
  /\ SetPipeline("graphics", p)
  /\ primitive' = PrimitiveOf[p]
  /\ needTopology' = (needTopology \/ primitive # PrimitiveOf[p])

SetComputeShader(p) ==
  SetPipeline("compute", p) /\ UNCHANGED <<primitive, needTopology>>

SetShaderResourceView(s, i, v) ==
  /\ view[s][i] # v
  /\ view' = [view EXCEPT ![s][i] = v]
  /\ dirty' = [dirty EXCEPT ![s] = @ \cup {i}]
  /\ UNCHANGED <<bound, pso, primitive, flags, count, list, work>>

DrawPrimitive(rolled) ==
  /\ Apply("graphics", rolled) /\ needTopology' = FALSE /\ work' = TRUE
  /\ UNCHANGED <<bound, primitive, count, view>>

\* A dispatch is no work by itself, the barriers it flushes are
DispatchComputeShader(rolled) ==
  /\ Apply("compute", rolled) /\ work' \in {work, TRUE}
  /\ UNCHANGED <<bound, primitive, needTopology, count, view>>

FlushCommands ==
  /\ work /\ OpenCommandList
  /\ UNCHANGED <<bound, pso, primitive, count, view>>

\* CommandContextStateCache::ClearState, which leaves the flags
ClearState ==
  /\ bound' = [s \in Stages |-> Nothing] /\ pso' = Nothing
  /\ primitive' = Undefined
  /\ count' = [s \in Stages |-> 0] /\ view' = NoViews

\* A list without work stays open, with all that is set on it
EndFrame ==
  /\ ClearState /\ dirty' = AllDirty
  /\ IF work THEN OpenCommandList ELSE UNCHANGED <<flags, list, work>>

\* The state in which the first list has been opened
Init ==
  /\ bound = [s \in Stages |-> Nothing] /\ pso = Nothing
  /\ primitive = Undefined
  /\ needPSO = TRUE /\ needRoot = Stages /\ needTopology = TRUE
  /\ count = [s \in Stages |-> 0] /\ view = NoViews
  /\ dirty = AllDirty /\ list = NewList /\ work = FALSE

Next ==
  \/ \E p \in Graphics : SetGraphicsPipelineState(p)
  \/ \E p \in Compute : SetComputeShader(p)
  \/ \E s \in Stages, i \in Slots, v \in Resources \cup {Nothing} :
       SetShaderResourceView(s, i, v)
  \/ \E rolled \in BOOLEAN :
       DrawPrimitive(rolled) \/ DispatchComputeShader(rolled)
  \/ FlushCommands \/ EndFrame

Spec == Init /\ [][Next]_vars
-----------------------------------------------------------------------------
(* Properties *)

Lists ==
  [pso : Pipelines \cup {Nothing},
   topology : {PrimitiveOf[p] : p \in Graphics} \cup {Undefined},
   root : [Stages -> {RootOf[p] : p \in Pipelines} \cup {Nothing}],
   table : [Stages -> UNION {[1 .. n -> Resources \cup {Nothing}] :
                             n \in 0 .. MaxSlots}]]

\* The types; and the pipeline remembered as the one that is set is one of those
\* the renderer has set in this frame
TypeOK ==
  /\ bound.graphics \in Graphics \cup {Nothing}
  /\ bound.compute \in Compute \cup {Nothing}
  /\ pso \in {bound.graphics, bound.compute, Nothing}
  /\ primitive \in {PrimitiveOf[p] : p \in Graphics} \cup {Undefined}
  /\ needPSO \in BOOLEAN /\ needRoot \subseteq Stages /\ needTopology \in BOOLEAN
  /\ count \in [Stages -> 0 .. MaxSlots]
  /\ view \in [Stages -> [Slots -> Resources \cup {Nothing}]]
  /\ dirty \in [Stages -> SUBSET Slots] /\ list \in Lists /\ work \in BOOLEAN

\* However draws, dispatches and flushes follow each other: a draw or dispatch
\* made now runs the pipeline the renderer set for it, under the root signature
\* of that pipeline, and a draw with its topology
PipelineAsAsked ==
  \A s \in {t \in Stages : bound[t] # Nothing} :
    LET l == ApplyState(s, FALSE).list
    IN /\ l.pso = bound[s] /\ l.root[s] = RootOf[bound[s]]
       /\ s = "graphics" => l.topology = PrimitiveOf[bound[s]]

\* However pipelines with more and fewer views, other root signatures and other
\* heaps follow each other: every slot that the shader of a draw or dispatch
\* made now reads holds the view bound there
ViewsAsAsked ==
  \A s \in {t \in Stages : bound[t] # Nothing} :
    LET table == ApplyState(s, FALSE).list.table[s]
    IN \A i \in 1 .. Count[bound[s]] : i <= Len(table) /\ table[i] = view[s][i]
=============================================================================
