--------------------------- MODULE ResourceStates ---------------------------
(***************************************************************************)
(* The states of the textures a frame draws to.  A texture has one tracked  *)
(* state, which changes when a transition is recorded; the barrier waits in *)
(* the batch of the open command list and reaches the list when the batch   *)
(* is flushed: before a clear, before a draw, before a build and at Close.  *)
(* A transition that reverts the last one of the batch removes it instead.  *)
(* The barriers of a list count as work, without which it is not submitted. *)
(*                                                                         *)
(* A list and the GPU know the state of every plane.  The barriers of one    *)
(* texture here name either all of its planes or one: ALL_SUBRESOURCES is   *)
(* the set of its planes.  Views for reading have no transitions in the code.*)
(* A definition that says "mutant of" is the code with one plausible slip.  *)
(***************************************************************************)
EXTENDS Naturals, SequencesExt

CONSTANTS Colors,        \* textures to draw to, off screen
          BackBuffers,   \* of the swap chain
          Depths,        \* depth buffers, with a plane of depth and of stencil
          Nothing,       \* a null view
          MaxBarriers    \* bound: barriers counted in one list

Resources == Colors \cup BackBuffers \cup Depths

\* What the constants have to be
ResourcesAllowed ==
  /\ Depths \cap (Colors \cup BackBuffers) = {} /\ Nothing \notin Resources
  /\ MaxBarriers \in Nat
\* D3D12_RESOURCE_STATE_PRESENT is the same state as COMMON
States == {"COMMON", "RENDER_TARGET", "DEPTH_WRITE", "DEPTH_READ"}
DepthPlane == 0
StencilPlane == 1
Planes(r) == IF r \in Depths THEN {DepthPlane, StencilPlane} ELSE {0}
NoPass == [color |-> Nothing, depth |-> Nothing]
Passes == [color : Colors \cup BackBuffers \cup {Nothing},
           depth : Depths \cup {Nothing}] \ {NoPass}
\* The state a target is drawn to or cleared in
Target(r) == IF r \in Depths THEN "DEPTH_WRITE" ELSE "RENDER_TARGET"
UAVBarrier == [resource |-> Nothing, planes |-> {},
               before |-> "COMMON", after |-> "COMMON"]

VARIABLES
  state,        \* curr_state of every ResourceHolder
  batch,        \* Barriers of the open list
  numBarriers,  \* of the context, since it opened the list
  drawn,        \* numDraws > 0
  pass,         \* the targets of the state cache
  needSetRTs,   \* bNeedSetRTs
  list,         \* the state of every plane, at the end of the open list
  gpu,          \* the same, at the end of the submitted lists
  index,        \* the back buffer at back_buffer_index
  sound,        \* ghost: barriers executed so far began in their before
  rays          \* ghost: the states the last DispatchRays found the depth in

context == <<state, batch, numBarriers>>
vars == <<state, batch, numBarriers, drawn, pass, needSetRTs, list, gpu, index,
          sound, rays>>
-----------------------------------------------------------------------------
(* Transitions.  A recording is the part of the context they change. *)

Recording == [state |-> state, batch |-> batch, count |-> numBarriers]

Reverts(b, last) ==
  /\ b.resource = last.resource /\ b.planes = last.planes
  /\ b.before = last.after /\ b.after = last.before

\* mutant of: a transition back is left out and the one before it is kept
CancelsOne(c, b) ==
  IF c.batch # <<>> /\ Reverts(b, Last(c.batch)) THEN c
  ELSE [c EXCEPT !.batch = Append(@, b), !.count = @ + 1]
\* ResourceBarrierBatcher::AddTransition, and the count of what it added
AddTransition(c, b) ==
  IF c.batch # <<>> /\ Reverts(b, Last(c.batch))
  THEN [c EXCEPT !.batch = Front(@), !.count = @ - 1]
  ELSE [c EXCEPT !.batch = Append(@, b), !.count = @ + 1]

\* TransitionResource, of the planes ps of r.  With several planes by index the
\* first takes the state of the whole resource and the others find it taken.
Transition(c, r, ps, after) ==
  IF r = Nothing \/ c.state[r] = after THEN c
  ELSE AddTransition([c EXCEPT !.state[r] = after],
                     [resource |-> r, planes |-> ps,
                      before |-> c.state[r], after |-> after])

\* DescriptorCache::SetRenderTargets: colour, then depth plane and stencil plane
SetRenderTargets(c) ==
  LET color == Transition(c, pass.color, {0}, "RENDER_TARGET")
      depth == Transition(color, pass.depth, {DepthPlane}, "DEPTH_WRITE")
  IN Transition(depth, pass.depth, {StencilPlane}, "DEPTH_WRITE")

\* The last of the first n barriers of bs that names plane p of r, if one does
LastOf(bs, n, r, p) ==
  LET names(i) == bs[i].resource = r /\ p \in bs[i].planes
  IN {i \in 1..n : names(i) /\ \A j \in (i + 1)..n : ~ names(j)}

\* The list l after the first n barriers of the batch bs: ResourceBarrier takes
\* the planes a barrier names from its before to its after
Executed(l, bs, n) ==
  [r \in Resources |-> [p \in Planes(r) |->
     IF LastOf(bs, n, r, p) = {} THEN l[r][p]
     ELSE bs[CHOOSE i \in LastOf(bs, n, r, p) : TRUE].after]]
Flushed(l, bs) == Executed(l, bs, Len(bs))

\* Each barrier of bs begins in its before, on the list l and those before it
Sound(l, bs) ==
  \A i \in DOMAIN bs : \A p \in bs[i].planes :
    Executed(l, bs, i - 1)[bs[i].resource][p] = bs[i].before

\* The batch bs goes to the list
FlushResourceBarriers(bs) ==
  /\ batch' = <<>> /\ list' = Flushed(list, bs)
  /\ sound' = (sound /\ Sound(list, bs))

\* The context takes the recording c and flushes it
Flush(c) ==
  state' = c.state /\ numBarriers' = c.count /\ FlushResourceBarriers(c.batch)

\* ... or stays where it is
Keep(c) ==
  /\ state' = c.state /\ batch' = c.batch /\ numBarriers' = c.count
  /\ UNCHANGED <<list, sound>>

Room(n) == numBarriers + n <= MaxBarriers   \* bound
-----------------------------------------------------------------------------
(* Submission *)

HasDoneWork(c) == drawn \/ c.count > 0

\* FlushCommands, with the recording c, for a cache that has the targets t: a
\* list with work is closed, which flushes it, and submitted; the new list
\* starts where the GPU will be, with the targets to set again
Submit(c, t) ==
  /\ state' = c.state /\ FlushResourceBarriers(c.batch)
  /\ IF HasDoneWork(c)
     THEN /\ gpu' = list' /\ numBarriers' = 0 /\ drawn' = FALSE
          /\ needSetRTs' = (needSetRTs \/ t # NoPass)
     ELSE /\ numBarriers' = c.count /\ UNCHANGED <<gpu, drawn, needSetRTs>>

\* In the middle of a frame.  Without work the batch is empty: TypeOK.
FlushCommands ==
  /\ HasDoneWork(Recording) /\ Submit(Recording, pass)
  /\ UNCHANGED <<pass, index, rays>>

\* EndFrame: the batch is flushed, the state cache cleared, the list submitted
EndFrame ==
  /\ pass' = NoPass /\ Submit(Recording, NoPass)
  /\ UNCHANGED <<index, rays>>

\* Display::SwapBuffers, after EndFrame or before the first pass; DXGI chooses
\* the next back buffer
SwapBuffers ==
  /\ pass = NoPass
  /\ Submit(Transition(Recording, index, {0}, "COMMON"), NoPass)
  /\ index' \in BackBuffers
  /\ UNCHANGED <<pass, rays>>
-----------------------------------------------------------------------------
(* Drawing *)

\* Transitions of a clear of the pass t: the colour, and both planes of depth
ClearTransitions(t) ==
  Transition(Transition(Recording, t.color, {0}, "RENDER_TARGET"),
             t.depth, Planes(t.depth), "DEPTH_WRITE")

\* mutant of: the clear comes before its barriers
ClearFirst(t) == Keep(ClearTransitions(t))
\* ClearMRT
ClearMRT(t) == Flush(ClearTransitions(t))

\* BeginRenderPass: its colour is off screen or the current back buffer.  The
\* targets differ from the last ones of the frame before (see DrawState).
BeginRenderPass(t, clear) ==
  /\ Room(2) /\ t.color \in Colors \cup {index, Nothing}
  /\ pass' = t /\ needSetRTs' = (needSetRTs \/ t # pass)
  /\ IF clear THEN ClearMRT(t) ELSE UNCHANGED <<context, list, sound>>
  /\ UNCHANGED <<drawn, gpu, index, rays>>

\* ApplyState and the draw
Draw ==
  /\ Room(3) /\ pass # NoPass
  /\ Flush(IF needSetRTs THEN SetRenderTargets(Recording) ELSE Recording)
  /\ needSetRTs' = FALSE /\ drawn' = TRUE
  /\ UNCHANGED <<pass, gpu, index, rays>>

\* DispatchComputeShader: ApplyState sets no targets and no draw is counted
DispatchComputeShader ==
  /\ batch # <<>> /\ Flush(Recording)
  /\ UNCHANGED <<drawn, pass, needSetRTs, gpu, index, rays>>
-----------------------------------------------------------------------------
(* Ray tracing *)

\* BuildAccelerationStructure: the transition of a new scratch buffer and a
\* barrier on all writes are flushed before the build, another one waits
BuildAccelerationStructure ==
  /\ Room(3) /\ batch' = <<UAVBarrier>> /\ list' = Flushed(list, batch)
  /\ sound' = (sound /\ Sound(list, batch)) /\ numBarriers' = numBarriers + 3
  /\ UNCHANGED <<state, drawn, pass, needSetRTs, gpu, index, rays>>

\* RayTraceShadow: the dispatch between the transitions is recorded on the list
RayTraceShadow(d) ==
  LET reading == Transition(Recording, d, Planes(d), "DEPTH_READ")
  IN /\ Room(2)
     /\ Keep(Transition(reading, d, Planes(d), "DEPTH_WRITE"))
     /\ rays' = {list[d][p] : p \in Planes(d)}
     /\ UNCHANGED <<drawn, pass, needSetRTs, gpu, index>>
-----------------------------------------------------------------------------
\* Depth buffers are created in DEPTH_WRITE, the others in COMMON; the flags of
\* the state cache are not initialised
Init ==
  /\ state = [r \in Resources |-> IF r \in Depths THEN "DEPTH_WRITE"
                                  ELSE "COMMON"]
  /\ batch = <<>> /\ numBarriers = 0 /\ drawn = FALSE
  /\ pass = NoPass /\ needSetRTs \in BOOLEAN
  /\ list = [r \in Resources |-> [p \in Planes(r) |-> state[r]]]
  /\ gpu = list /\ index \in BackBuffers /\ sound = TRUE /\ rays = {}

Next ==
  \/ \E t \in Passes, clear \in BOOLEAN : BeginRenderPass(t, clear)
  \/ Draw \/ DispatchComputeShader \/ BuildAccelerationStructure
  \/ \E d \in Depths : RayTraceShadow(d)
  \/ FlushCommands \/ EndFrame \/ SwapBuffers

Spec == Init /\ [][Next]_vars
-----------------------------------------------------------------------------
(* Properties *)

IsPlaneStates(l) ==
  /\ DOMAIN l = Resources
  /\ \A r \in Resources : l[r] \in [Planes(r) -> States]

\* Every variable has its type; a barrier in the batch is counted as work.
TypeOK ==
  /\ state \in [Resources -> States]
  /\ IsPlaneStates(list) /\ IsPlaneStates(gpu)
  /\ \A i \in DOMAIN batch :
       batch[i] = UAVBarrier \/
       batch[i] \in [resource : Resources, planes : SUBSET {0, 1},
                     before : States, after : States]
  /\ numBarriers \in Len(batch) .. MaxBarriers
  /\ {drawn, needSetRTs, sound} \subseteq BOOLEAN
  /\ pass \in Passes \cup {NoPass} /\ index \in BackBuffers
  /\ rays \subseteq States

\* Every barrier executed on a list, across flushes, cancelled transitions and
\* new lists, began in the state its planes were in; and the tracked state of a
\* texture is that of all its planes once the batch is flushed.  A transition
\* that removes the one before it must not break either.
TrackedIsReal ==
  /\ sound
  /\ \A r \in Resources : \A p \in Planes(r) :
       Flushed(list, batch)[r][p] = state[r]

\* A target of the pass that is drawn to or cleared is in the state for it on
\* the list at that point, whatever passes, rays and frames came between.
Ready(t, l) ==
  \A r \in {t.color, t.depth} \ {Nothing} : \A p \in Planes(r) :
    l[r][p] = Target(r)
TargetsReady ==
  [][/\ Draw => Ready(pass, list')
     /\ \A t \in Passes : BeginRenderPass(t, TRUE) => Ready(t, list')]_vars

\* A back buffer that is presented is in PRESENT once the GPU has executed what
\* was submitted by then: its last barrier does not wait in an open list.
PresentedInPresent == [][SwapBuffers => gpu'[index][0] = "COMMON"]_vars

\* Rays read the depth buffer in the state RayTraceShadow asks for.
RaysReadDepth == rays \subseteq {"DEPTH_READ"}
=============================================================================
