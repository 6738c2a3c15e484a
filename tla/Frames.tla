------------------------------- MODULE Frames -------------------------------
(***************************************************************************)
(* What the render thread keeps from draw to draw and from frame to frame: *)
(* the objects it deletes late (DeferredDeletion), the pipeline and views  *)
(* (PipelineState) and the rest of the state cache (DrawState), the tables *)
(* in the online heaps (OnlineDescriptors) and the states of textures      *)
(* (ResourceStates).                                                       *)
(*                                                                         *)
(* Each of these modules describes its part against a renderer that may do *)
(* anything, and they share no variable.  A step of one changes nothing    *)
(* for the others, so a behaviour follows the part it begins with and the  *)
(* others stand still; their interleavings would show nothing more.        *)
(***************************************************************************)
EXTENDS DeferredDeletion

CONSTANTS Nothing,                                      \* null
          Colors, BackBuffers, Depths, MaxBarriers,
          Extent, Stride, VertexBuffers, IndexBuffers,
          Graphics, Compute, RootOf, Count, PrimitiveOf, Undefined,
          Textures, MaxSlots,
          ViewStages, SamplerStages, Samplers, NoSampler, Garbage,
          Blocks, BlockSize, LocalSize, GlobalSize, MaxBatch, MaxTables,
          MaxLocal

VARIABLES
  part,
  bound, pso, primitive, needPSO, needRoot, needTopology, count, view, dirty,
  list, work,
  current, pipeline, strides, cached, need, ibCache, drawList, listIB,
  drawWork, asked,
  state, batch, numBarriers, drawn, pass, needSetRTs, planes, gpu, index,
  sound, rays,
  open, done, pc, inFrame, sampler, dirtyV, dirtyS, tabV, tabS, setV, setS,
  onBlocks, block, used, blockPool, localV, localS, onGlobal, localSet,
  samplerMap, unique, globalSet, globalDirty, memS, uses

pipelineVars == <<bound, pso, primitive, needPSO, needRoot, needTopology,
                  count, view, dirty, list, work>>
drawVars == <<current, pipeline, strides, cached, need, ibCache, drawList,
              listIB, drawWork, asked>>
barrierVars == <<state, batch, numBarriers, drawn, pass, needSetRTs, planes,
                 gpu, index, sound, rays>>
tableVars == <<open, done, pc, inFrame, sampler, dirtyV, dirtyS, tabV, tabS,
               setV, setS, onBlocks, block, used, blockPool, localV, localS,
               onGlobal, localSet, samplerMap, unique, globalSet, globalDirty,
               memS, uses>>

Binding == INSTANCE PipelineState WITH Resources <- Textures
Drawing == INSTANCE DrawState WITH
  Targets <- Colors \cup BackBuffers, FirstTargets <- Colors,
  LastTargets <- BackBuffers, Pipelines <- DOMAIN Stride,
  list <- drawList, work <- drawWork
Barriers == INSTANCE ResourceStates WITH list <- planes
Tables == INSTANCE OnlineDescriptors

ASSUME PartsAssumption ==
  /\ Binding!PipelinesAllowed /\ Drawing!ShapesAllowed
  /\ Barriers!ResourcesAllowed
  /\ Tables!SizesAllowed /\ Tables!ContentAllowed
-----------------------------------------------------------------------------
FramesInit ==
  /\ part \in {"deletion", "pipeline", "drawing", "barriers", "tables"}
  /\ Init /\ Binding!Init /\ Drawing!Init /\ Barriers!Init /\ Tables!Init
  \* what is not initialised matters to the part that moves only
  /\ part # "drawing" => need = {}
  /\ part # "barriers" =>
       index = (CHOOSE b \in BackBuffers : TRUE) /\ needSetRTs

DeletionStep ==
  /\ part = "deletion" /\ Next
  /\ UNCHANGED <<part, pipelineVars, drawVars, barrierVars, tableVars>>
PipelineStep ==
  /\ part = "pipeline" /\ Binding!Next
  /\ UNCHANGED <<part, vars, drawVars, barrierVars, tableVars>>
DrawingStep ==
  /\ part = "drawing" /\ Drawing!Next
  /\ UNCHANGED <<part, vars, pipelineVars, barrierVars, tableVars>>
BarrierStep ==
  /\ part = "barriers" /\ Barriers!Next
  /\ UNCHANGED <<part, vars, pipelineVars, drawVars, tableVars>>
TableStep ==
  /\ part = "tables" /\ Tables!Next
  /\ UNCHANGED <<part, vars, pipelineVars, drawVars, barrierVars>>

FramesNext ==
  DeletionStep \/ PipelineStep \/ DrawingStep \/ BarrierStep \/ TableStep

FramesSpec ==
  FramesInit /\ [][FramesNext]_<<part, vars, pipelineVars, drawVars,
                                barrierVars, tableVars>>
-----------------------------------------------------------------------------
(* Properties of each part while it moves; those of deletion are extended    *)

\* However draws, dispatches and flushes follow each other: a draw or dispatch
\* made now runs the pipeline set for it, with its root signature and topology,
\* and reads the views bound; a draw has the targets of its pass, the rectangles
\* last asked for, and the buffers last set with the strides of the pipeline.
DrawnAsAsked ==
  /\ part = "pipeline" =>
       Binding!TypeOK /\ Binding!PipelineAsAsked /\ Binding!ViewsAsAsked
  /\ part = "drawing" =>
       Drawing!TypeOK /\ Drawing!TargetsAsAsked /\ Drawing!BuffersAsAsked

\* An object its owners let go is in one place and deleted once; batches are in
\* the order of their frames and none is overdue, as frames are counted although
\* nothing is released in them.
DeletionOrderly == part = "deletion" => ReleasedInOnePlace /\ NoBatchOverdue

\* Barriers begin in the state the texture is in, and the tracked state is that
\* of all planes once the batch is flushed, whatever transitions cancelled.
TrackedIsReal == part = "barriers" => Barriers!TypeOK /\ Barriers!TrackedIsReal

\* A target that is drawn to or cleared is in the state for it on the list, and
\* a back buffer is in PRESENT on the queue when it is presented.
TargetsReady == Barriers!TargetsReady /\ Barriers!PresentedInPresent

\* The tables ApplyState will not touch are good, and those remembered by
\* content hold that content; every block of the view heap is in one place.
TablesValid ==
  part = "tables" =>
    /\ Tables!TypeOK /\ Tables!CleanTablesValid /\ Tables!SamplerTablesExact
    /\ Tables!BlocksInOnePlace

\* A descriptor is written only to a slot that no draw recorded or in flight
\* reads, and a heap is made only when everything in the pool is in flight.
SlotsReused == Tables!NoSlotRewritten /\ Tables!NoNeedlessHeap
=============================================================================
