# LeoEngine: TLA+ models, checks and proofs

LeoEngine is a C++20 game engine for Windows and Direct3D 12. Most of it
translates data: asset files into meshes and textures, effect descriptions into
pipeline states, engine calls into D3D12 calls. The parts with a logic of their
own are the ones where several actors share something: the CPU records commands
while the GPU executes older ones out of the same memory; worker threads pass
operations to each other; the kernel completes file operations while their
coroutines are being suspended. That is what these modules are about.

All paths below are relative to `src/Engine/`, `D3D12/` stands for
`Render/D3D12/`; `LBase/`, `LFramework/` and `LTest/` are directories of `src/`.

## 1. Inventory

| Component | State it keeps | Operations | Why it is hard |
|---|---|---|---|
| **Command submission** `D3D12/Fence`, `CommandListManager`, `CommandList`, `D3DCommandList.h`, `CommandContext`, `Context` | fence values (submitted, cached, completed); allocators with a pending count and a sync point; a queue of allocators; lists with a queue of active generations; the context's allocator and open list | record, FlushCommands, EndFrame, obtain and release allocators and lists, IsComplete, WaitForFence, CommitCommandList, AdvanceFrameFence, Destroy | the GPU runs behind; loader threads submit on the same queue; memory is reset on the strength of counters and cached fence values |
| **Offline descriptor heaps** `D3D12/DescriptorCache.h` | heaps with a sorted list of free ranges; the heaps that have one | AllocateHeapSlot, FreeHeapSlot, AllocateHeap | splitting and merging of ranges |
| **Online descriptor heaps** `D3D12/DescriptorCache.*` | blocks free or in use with sync points; the current block; a context-local heap; a sampler map | ReserveSlots, RollOver, switch between heaps, NotifyCurrentCommandList | a block is reused behind the GPU's back; the heap changes in the middle of a list |
| **Recycling** `D3D12/Context.d3d12.cpp`, `GraphicsBuffer`, `RayTracing*` | free upload memory, the pool entry being filled, the reclaim pool | InnerResourceAlloc, InnerResourceRecycle, ResidencyResource, ClearPSOCache | ownership spread over a list, a pool and a sync point that only some callers set |
| **Ray tracing heaps** `D3D12/D3D12RayTracing` | cached heaps with fence values | Allocate and release of heaps, DispatchRays | sets heaps on a list that others record in |
| **Resource states** `D3D12/ResourceHolder`, `D3DCommandList.h` | the state of each resource; batched barriers | TransitionResource, AddTransition, Flush | the tracked state must be the one the GPU will see |
| **Task scheduler** `Core/Threading/TaskScheduler` | a local queue per thread, a remote list, sleeping flags and events | schedule, remote_enqueue, pop, sleep, wake | lock-free hand-over, lost wake-ups, growth of a queue |
| **I/O scheduler** `Core/Coroutine/IOScheduler`, `file_*_operation` | completion port, overflow list, state of an operation | schedule, post, process one event, start and resume of an operation | synchronous and pending completion, failed posts |
| **File stream** `Core/Coroutine/FileAsyncStream` | position, buffer, dirty range | Read, Write, Skip, Flush | offsets and unsigned remainders |
| **Coroutine combinators** `Core/Coroutine/Task`, `when_all_*`, `SyncWait`; `Core/Threading/ManualResetEvent` | a counter with the awaiting coroutine; an event on the waiter's stack | try_await, notify, set, wait | who resumes whom; lifetime of the event |
| **Asset scheduler** `Core/AssetResourceScheduler`, `LBase/cache.hpp` | a hash map into a list ordered by recent use | SyncLoad, AsyncLoad | a lookup under a shared lock changes the list; loads of one key overlap |
| **State cache** `D3D12/ContextStateCache`, `CommandContext` | what the renderer asked for, a flag for each part, what the open list has | Set..., ApplyState, DirtyStateForNewCommandList, ClearState | the list is replaced at any time; flags must cover every difference |
| **Deferred deletion** `Render/` (`RObject`), `D3D12/Display` | reference counts, objects to delete, batches with the frame they were queued in | AddRef, Release, FlushPendingDeletes, SwapBuffers, WaitOnSwapBuffers | no fence is asked: a fixed number of frames has to be enough |
| **Message loop** `LFramework/Helper/GUIApplication`, `LFramework/Core/LMessage` | a queue by priority, the current shell | PostMessage, DealMessage, PostQuitMessage | other threads and the handlers post while the loop holds an iterator |
| **Thread pool** `LBase/concurrency` | a queue, a stop flag, workers, two conditions | enqueue, wait, wait_for, reset | lost wake-ups, a pool destroyed and made again |
| **Built-in shaders** `Render/Shader.cpp`, `BuiltInShader.cpp` | a section for each source, the shaders in it by hash | CompileShaderMap, FindOrAddShader, GetShader | tasks on two threads look up and insert in separate critical sections |
| Everything else | | | Conversions, drivers and third-party code; `PROJECT.json` lists the parts with the reason |

How they interact. A render call records into the context's open list; a flush
closes it, executes it, signals the command list fence and gives list and
allocator back (**submission**). Descriptor blocks, upload buffers, ray tracing
heaps and allocators are all recycled by comparing a fence value with what the
GPU has reached: for them submission is only a sequence of numbered batches,
`open` being recorded and `done` finished. That is the abstract specification
`CommandTimeline`, and the interface between the modules about recycling and
the module about submission. Loader threads create textures and buffers and
commit the copies on the same queue (`Texture::DoHWCreate`,
`GraphicsBuffer::DoHWCreate` -> `Context::CommitCommandList`). Mesh and
shader loading start on the task scheduler (`Core/Mesh.cpp`,
`Asset/ShaderLoadingDesc.h`), read files through the I/O scheduler and the
file stream, and are awaited with `WhenAllReady` and `SyncWait`.

What makes each component correct:

* submission: memory is never reset under commands in flight; a wait returns
  when, and only when, its value was reached; a generation is reported complete
  exactly when it is; allocators are neither lost nor handed out twice; shutdown
  leaves nothing behind;
* offline heaps: no slot is handed out twice or lost; a heap is searched exactly
  when it has a free slot;
* online heaps and recycling: nothing is written that a batch in flight reads;
* resource states: a barrier's "before" state is the state the GPU is in, and a
  target is in its state when it is drawn to, cleared or presented;
* state cache: a draw has what was last asked for, on whatever list it lands;
* deferred deletion: what is deleted the GPU no longer uses; what is let go is
  deleted, once;
* task and I/O scheduler: everything queued runs, once; nobody sleeps while
  there is work;
* file stream: reads and writes through the buffer are those on a plain file;
* combinators: the awaiting coroutine is resumed once, after all tasks, and the
  event outlives its last use;
* asset scheduler: map and list are one cache ordered by use, bounded, and only
  the asset used least recently is given up;
* message loop: a message is handled once, in the order of its priority, and a
  quit request ends the loop;
* thread pool: what is accepted runs once, whoever waits returns, reset drains;
* built-in shaders: what was registered is found, and nothing else in its place.

The hazards behind these, each at its line, are in `PROJECT.json`; those no model
covers are told with their component or in section 17.

## 2. Plan, modules and runs

The blocks are done, in this order, and described in sections 3 to 16.

1. `CommandTimeline`, `CommandLists` and its proofs. Everything on the GPU side
   rests on them.
2. `OfflineDescriptors`: an abstract allocator (the set of slots held), the
   ranges as its refinement, and proofs that no slot is handed out twice.
3. `TaskScheduler`: workers, the render thread, threads outside, sleeping and
   waking step by step. One run for what holds, one for the bound the comments
   state for a local queue, one for its growth by two threads.
4. `IOScheduler` with the file operations as its clients and the kernel as the
   environment.
5. `ForkJoin`, `Coroutines`: the counter handshake of `WhenAllReady` and the
   event on the stack of `SyncWait`, as an implementation of a fork and join.
6. `OnlineDescriptors` on top of `CommandTimeline`.
7. `ResourceRecycling` on the same interface, under the frame of the test
   application, with its proofs.
8. `DrawState` and `PipelineState`: the state cache, in the two halves that share
   nothing but the list.
9. `DeferredDeletion` with its proofs.
10. `MessageLoop`, `AssetCache`, `ThreadPool`: the concurrent parts of the
    framework and of the libraries, outside the renderer.
11. `ShaderMap`: the start-up of the renderer on two threads.
12. `ResourceStates`: the batch of barriers between the state that is tracked and
    the one the GPU is in.
13. `Frames`, `Stores`, `HostThreads`: the modules of 6 to 12 put together.

### The three compositions

| Module | Parts | What they have in common |
|---|---|---|
| `Frames` | `DeferredDeletion`, `PipelineState`, `DrawState`, `ResourceStates`, `OnlineDescriptors` | what the render thread keeps from draw to draw and from frame to frame |
| `Stores` | `ResourceRecycling`, `AssetCache`, `ShaderMap` | what the program keeps for use again |
| `HostThreads` | `ThreadPool`, `MessageLoop` | the threads of the host program |

Each EXTENDS its first part and takes the others as instances. The parts share no
variable: each is written against users that may do anything at any time, so it
has no need of the others' state, and a step of one changes nothing a property of
another looks at. Their interleavings would multiply the states and show nothing
more. A variable `part` is therefore chosen at the beginning and never changes: the
part it names moves, the others stand still. An invariant of a composition says
`part = "..." =>` the invariants of that part, and its name stands for all of them
together; the action properties need no such guard, a part that stands still
satisfies them. What a constructor leaves uninitialised is arbitrary in the part
that moves and fixed in the others, where nobody reads it. Fairness in
`HostThreads` is that of its parts while they move. The invariants include the type
invariant of each part.

### The runs

| Run | Module | Section |
|---|---|---|
| `command_lists`, `command_lists_live` | `MCCommandLists` | 3 |
| `offline_descriptors` | `OfflineDescriptors` | 4 |
| `task_scheduler`, `local_queue_bound`, `render_queue_growth` | `TaskScheduler` | 5 |
| `io_scheduler` | `IOScheduler` | 6 |
| `coroutines` | `Coroutines` | 7 |
| `frames` | `MCFrames` | 8, 10, 11, 16 |
| `stores` | `MCStores` | 9, 13, 15 |
| `host_threads` | `HostThreads` | 12, 14 |
| `lookup_race` | `AssetCache` | 13 |

Three of them show a disagreement between the code and what it says of itself
(`local_queue_bound`, `render_queue_growth`, `lookup_race`) and end with a
counterexample. Beside the runs there are configurations of eight of the parts on
their own, which name every property singly and take larger bounds where the
run had to be smaller: `MCAssetCache`,
`MCDeferredDeletion`, `MCMessageLoop`, `MCOnlineDescriptors`, `MCResourceRecycling`,
`MCResourceStates`, `MCTaskPlaces`, `MCThreadPool`. Four more reproduce
counterexamples: `MCIOSchedule` and `MCQuitRace`, where the code fails what it says,
and `MCPoolReset` and `MCRayShadow`. Each runs with the module it is named for in its
section, `tlc -config MCRayShadow.cfg ResourceStates`.

Where a property that the code is meant to have is false, the model goes on to say how
much of it is true. Two ghost variables record that the case has happened
in which the code is not safe: `contended` of `TaskScheduler`, two threads in the queue
of the render thread at once, and `overlapped` of `AssetCache`, a lookup that reads the
list while another splices it. `OnePlace` and `CacheOrdered` hold until then
(and `OnePlace` of the coroutines that never come to that queue for ever); the runs
`render_queue_growth` and `lookup_race` show that they do not hold after it. Nothing in
the model prevents the case, and no action reads a ghost variable.

| In the composition | is, of its parts |
|---|---|
| `DeletionOrderly` | `ReleasedInOnePlace`, `NoBatchOverdue` |
| `DrawnAsAsked` | `PipelineAsAsked`, `ViewsAsAsked`, `TargetsAsAsked`, `BuffersAsAsked` |
| `TrackedIsReal` | `TrackedIsReal` of `ResourceStates` |
| `TargetsReady` | `TargetsReady`, `PresentedInPresent` |
| `TablesValid` | `CleanTablesValid`, `SamplerTablesExact`, `BlocksInOnePlace` |
| `SlotsReused` | `NoSlotRewritten`, `NoNeedlessHeap` |
| `CacheOrdered` | `ListMatchesCache`, `OrderedByUse`, `CacheBounded` |
| `ShadersFound` | `ReturnedIsFound`, `NothingDropped`, `LookupsSucceed` |
| `TasksKept` | `TasksInOnePlace`, `ResetDrains` |
| `EveryCallReturns` | `EveryWaiterReturns`, `ResetReturns` |
| `DispatchOrderly` | `HandledOnce`, `PostingOrderKept` |
| `EveryMessageHandled` | `EveryMessageHandled`, `QuitEndsLoop` of `MessageLoop` |

Instances stay small enough for a few minutes each: two or three threads, two or
three allocators, blocks or slots, and as many batches as it takes to go once
around every ring.

### The proofs

A module `XProofs` holds the theorems about the module `X`, and those of a
composition the theorems about its parts. No theorem uses fairness or the bounds of
an instance. Every invariant the runs check is the statement of a theorem, and so is
every property that speaks of steps: `RemoteFifo`, `TargetsReady`, `SlotsReused`,
`PoolSpec`, `JoinSpec`, and the steps of `TimelineSpec`. One more, `OldestGoes` of
`Stores`, is proved beside them.

| Module | Properties its theorems are about | Section |
|---|---|---|
| `CommandListsProofs` | `TypeOK`, `MemoryIntact`, `WaitReturnsComplete`, `GenerationExact`, `QueueFrontOldest`, `AllocatorsConserved`, `DestroyedIdle`; the steps of `TimelineSpec` | 3 |
| `OfflineDescriptorsProofs` | `FreeListsExact`, `FreeHeapsExact`, `PoolSpec` | 4 |
| `TaskSchedulerProofs` | `RemoteFifo`; `OnePlace` | 5 |
| `IOSchedulerProofs` | `OnePlace`, `ResultsOwn` | 6 |
| `CoroutinesProofs` | `AwaiterOnce`, `MemoryOutlivesUse`, `JoinSpec` | 7 |
| `StoresProofs` | `PooledIdle`, `UsedIsReferenced`, `ShadersFound`; `CacheOrdered`, `OldestGoes` | 9, 13, 15 |
| `FramesProofs` | `DeletedIdle`, `DeletionOrderly`, `DrawnAsAsked`, `TrackedIsReal`, `TargetsReady`, `TablesValid`, `SlotsReused` | 8, 10, 11, 16 |
| `HostThreadsProofs` | `DispatchOrderly`; `TasksKept` | 12, 14 |

Two theorems have a hypothesis beyond the assumptions of the module: `TasksKept` is for
a `reset` that is called alone (`ResetAlone`, as in the run; see `MCPoolReset.cfg`), and
`OneRenderNeverContends` for at most one coroutine that awaits the render thread
(`OneRender`), which is what it is about.

What stays with TLC: everything that must happen some day (`RenderReturns`,
`UploadReturns`, `LocalWorkRuns`, `SleeperServes`, `FileAwaitsReturn`,
`SyncWaitReturns`, `EveryTaskRuns`, `EveryCallReturns`, `EveryMessageHandled`, and the
fairness in `TimelineSpec`), since that rests on fairness, which the prover does not
treat.

Recursive definitions are functions, and theorems say of them only what follows
from their values below (`UsedListReads` for the walk of the ring, by the least
argument at which it would differ).

### What is left

The components without a model are in section 17, with the reasons; so are the parts
of the components that are modelled partly.

## 3. Command submission

### Modules

| Module | What it is |
|---|---|
| `CommandTimeline` | Abstract: batches numbered from 1, submitted, then finished in order, all of them some day |
| `CommandLists` | The code: render thread, loader threads, fences, allocators, the list, the GPU |
| `MCCommandLists` | Symmetry of the loaders, for TLC |
| `CommandListsProofs` | The proofs: types, memory, waits, generations, the queue of allocators, shutdown, the steps of the timeline |

### State

| Variables | Code |
|---|---|
| `todo`, `completed` | the direct `ID3D12CommandQueue` and `ID3D12Fence::GetCompletedValue` (external) |
| `event`, `armed` | the auto-reset event of a `FenceCore`, and the value it was armed for |
| `fence_val`, `last_completed` | `CurrentFence` / `FenceVal` and the cached `LastCompletedFence` |
| `numAllocs`, `pending`, `sync` | `CommandAllocators` and, of each, `PendingCommandLists` and its sync point |
| `queue`, `ctxAlloc` | `CommandAllocatorQueue`, `CommandContext::CommandAllocator` |
| `listAlloc`, `isClosed`, `curGen`, `lastGen`, `active` | `CommandListData`: current allocator, closed, `CurrentGeneration`, `LastCompleteGeneration`, `ActiveGenerations` |
| `work`, `mode`, `ending` | `HasDoneWork()`, and which call the render thread is in (flush, wait, destroy; from `EndFrame` or not) |
| `pc`, `signaled` | the place of each thread and the local `SignaledFenceValue` |
| `epoch`, `listEpoch`, fields `epoch` and `val` of an item | ghosts: resets of an allocator, and the batch an item belongs to |

Three fences exist: the manager's (`CommandList`), the resource fence of
uploads (`Resource`) and the frame fence (`Frame`). All items go through one
queue, as in the code, where uploads are executed on the device's direct queue.

### Actions

`Fence::Signal` is cut in two at the point where the GPU may already act on the
queued signal and the CPU has not yet incremented its value; the second half is
`FinishSignal` (uploads, shutdown) or the start of `TrackAndRelease` (a flush).
`Fence::WaitForFence` is `WaitCheck`, `WaitArm`, `WaitWake`: the test, the arming
of the event, the wait on it. The GPU may step in between all of them. The
render thread flushes with `FlushCommands` or `EndFrame`, continues with
`SignalFence`, `TrackAndRelease`, `ObtainAllocator`, `ObtainCommandList`, and
after `EndFrame` with `AdvanceFrameFence`. A loader goes through
`CommitExecute`, the fence steps, `CommitReset`, all under the mutex of
`Command_Resource`. `QueryGeneration` is a `CLSyncPoint` being asked, guarded
so that it only appears when it changes something. `Destroy` is the manager's.

Facts about the code that shape the model: one context exists, so one
`CommandListHandle` circulates between it and `ReadyLists`, and the list that was
released is the one obtained next. `CommandContext::EndFrame` releases the
allocator *before* it flushes, so the allocator is in the queue while a list is
still open on it; only the pending count and the order of the queue keep it from
being reused. A new allocator starts with a sync point of the frame fence
(`CreateAllocator`). `FlushCommands(true)` and `CommandListManager::Destroy`
have no caller in the repository; they are modelled as operations offered. The
model lets `Destroy` start only when no upload is in progress: the owner of the
device must see to that, the code does not.

### Runs

| Run | Bounds | Shows |
|---|---|---|
| `command_lists` | 2 loaders, 3 allocators, 3 batches, 1 upload, 2 frames | `TypeOK`, `MemoryIntact`, `GenerationExact`, `QueueFrontOldest`, `AllocatorsConserved`, `DestroyedIdle` |
| `command_lists_live` | 2 loaders, 2 allocators, 1 batch, 2 uploads, 1 frame | `WaitReturnsComplete`, `RenderReturns`, `UploadReturns`, refinement of `CommandTimeline` |

Three batches with three allocators reach every case of `ObtainCommandAllocator`
(kept, reused, front not ready, queue empty), a queue with two entries, and a
generation queue with several entries of which a part is complete. One upload
in the first run is enough to interleave a foreign batch with everything else;
the second run has two that contend for the mutex and share the event of the
resource fence. `MaxAllocs` bounds creation: a behaviour that needs one more
allocator stops there, so the runs do not say that three allocators suffice.
The counters of the fences are unbounded in the code up to 2^64, which no run
of the engine reaches, and are not wrapped.

The live run uses fairness of two kinds: the GPU works on a non-empty queue, and
a thread inside a call continues. Both are weak. The first is the driver's
promise, without which every wait of the engine would hang; the second is the
operating system's scheduling of a thread that is not blocked. Nobody is obliged
to begin a call, and no fairness is assumed of the mutex: an upload that has
begun is what `UploadReturns` speaks of.

Observations. With a single context, the pending count adds nothing to the sync
point in `IsReady`: an allocator returns to the queue while its list is open only
in `EndFrame`, and that list is closed and tracked before the next allocator is
looked for. The count is what would protect a second context. The event of a
fence is shared, but the mutex around uploads means it never has two waiters; the
mutant of `WaitReturnsComplete` removes the mutex, and the property fails at
once.

### Proofs

Assumptions: `ThreadsAssumption` (the render thread is not a loader) and
`BoundsAssumption` (bounds are natural numbers, at least one allocator). The
theorems hold for any set of loaders, any number of allocators, batches, uploads
and frames; they do not use fairness.

* `TypeCorrect`: `Spec => []TypeOK`. The type of `pending` is `Nat`, and that
  is not a local fact: a decrement must find a 1. `TypeInv` therefore adds
  `PendingExact` (the count is 1 for the allocator of the list the context holds
  and 0 for all others) and `ControlInv` (which places the render thread and the
  loaders can be at, and what the context then holds).
* `AllocatorsNeverResetInUse`: `Spec => []MemoryIntact`, and
  `WaitsAreTrue`: `Spec => []WaitReturnsComplete`. `MemoryIntact` alone is not
  inductive: nothing in it says why a fence value that was reached means that the
  commands before it are gone. The inductive invariant `IInv` adds

  | Conjunct | Says |
  |---|---|
  | `Created` | allocators in use were created, and indices are in range |
  | `MutexInv` | at most one loader is inside the mutex |
  | `FenceOrder` | the completed value and the cached copy stay below the next value |
  | `ItemOrder` | in the queue, signals of a fence ascend above what is completed, and a batch stands before its signal |
  | `WaitOrder` | a waiter waits for the value it signalled, the event and its armed value belong to it |
  | `Held` | what is queued from an allocator is covered by its sync point, or is the batch being tracked right now |

  From `ItemOrder` and `Held`: when the test in `IsReady` succeeds, the value of
  the sync point is completed, so no batch recorded in the allocator is left in
  the queue (`ReadyIsIdle`); when a loader's wait is over, its upload is not left
  in it either (`UploadIsIdle`). These two lemmas are the only places where a
  reset happens.

* `GenerationsExact`, `FrontIsOldest`, `NoAllocatorLost`, `DestroyDrains`
  (`GenerationExact`, `QueueFrontOldest`, `AllocatorsConserved`, `DestroyedIdle`):
  `QInv` is `IInv` and

  | Conjunct | Says |
  |---|---|
  | `GenInv` | generations are numbered like the values of the fence, and the active ones are a run of numbers that ends before the one being recorded |
  | `OwnInv` | every allocator created is the context's or in the queue, once |
  | `QueueInv` | the queue ascends in its sync points; the one under the held list, which has none yet, is its last |
  | `DestroyInv`, `EndInv` | once `Destroy` has signalled, its signal is the last item of the queue, and no loader is at work |
  | `RunInv` | the signal of every batch between the completed and the open one is in the queue |

  `QueueInv` holds although `EndFrame` queues an allocator before its sync point is
  known, because no other allocator is queued before it gets one.
* `ImplementsTimeline`: every step submits a batch of `CommandTimeline`, finishes the
  next one, or leaves it alone. `RunInv` is needed for "the next": a fence that jumps
  over a value would finish two batches at once.

Only model-checked: liveness, and the fairness in `CommandTimeline`.

### Not modelled

`WaitForCompletion` of a generation and `GpuWait` (no caller), `PendingCommandLists`
of the manager (never filled), barriers inserted while a list is executed (the
manager adds none; the barriers of a list are in section 16), the pool of fence
cores, failures of D3D12 calls (they throw and end the program), and a lost
device.

## 4. Offline descriptor heaps

`SlotPool` is what a user of `OfflineDescriptorManager` may rely on: slots with
at most one holder, and a further heap only when every slot is held.
`OfflineDescriptors` is the manager of `D3D12/DescriptorCache.h`.

| Variable | Code |
|---|---|
| `heaps` | `m_Heaps`: for each heap its `m_FreeList`, a sequence of `SFreeRange` |
| `freeHeaps` | `m_FreeHeaps` |
| `holders` | the views and samplers that keep a handle and its heap index |

`AllocateHeapSlot` takes the first slot of the first range of the first listed
heap, creating a heap when none is listed (`AllocateHeap`); `FreeHeapSlot` looks
for the range the slot belongs to and grows it, precedes it, or appends. Both
hold `CritSect` from beginning to end, so each is one step. Offsets are counted
in descriptors, not bytes; `Start` of a range is relative to its heap. A holder
gives a slot back once: views and samplers do it in their destructors. A slot
that is given back is merged with one neighbouring range only, so two adjacent
ranges can stay apart; that is the reason for the words "in order" in
`FreeListsExact`, where a maximal range would be too much.

Run `offline_descriptors`: 2 heaps of 5 slots, every sequence of allocations
and frees. Five slots are enough for three ranges in one heap, and so for a free
before, between and behind ranges, and one that closes a gap of one slot; two
heaps for a heap that fills, is taken off the list and comes back behind the
other. Properties: `FreeListsExact`, `FreeHeapsExact`, and `PoolSpec`, the
refinement of `SlotPool`; the types are proved. The system never stops (a held slot
can always be given back), and deadlock is checked.

Proved in `OfflineDescriptorsProofs`, for any number of slots and heaps, from
`SizesAssumption` (a heap has a slot):

* `SlotsExact`: `Spec => [](TypeOK /\ FreeListsExact)`;
* `HeapsExact`: `Spec => []FreeHeapsExact`;
* `ManagerIsPool`: `Spec => PoolSpec`.

The argument is in two layers. First what one operation does to one list:
`TakeFirstExact` and the lemmas about `FreedAt` and `Append` say that the result
is again in order and covers exactly the old slots without (or with) the one in
question. Then the inductive invariant `IInv`: `Lists` (lists in order, covering
the slots nobody holds), `Order` (a heap is listed, once, exactly while it has a
free slot) and `Unused` (heaps that do not exist yet have no holders: needed for
the step that creates one). `FreeListsExact` alone would not be inductive: that
an allocation finds a range in the heap it picks is `Order`, and that no heap is
created early in `SlotPool` needs both.

## 5. Task scheduler

`TaskScheduler` is `Core/Threading/TaskScheduler.cpp`: the pool threads, the
render thread, and threads outside (the main thread, the I/O thread), which
all run coroutines that await `schedule()` or `schedule_render()`.

| Variables | Code |
|---|---|
| `slots`, `head` | `queue` with its size, and `queue_head`, of each `thread_state`; `queue_tail` is never written |
| `remote`, `taken` | the lists at `Scheduler::queue_tail` (pushed at the front) and `Scheduler::queue_head` |
| `sleeping`, `event` | `thread_state::sleeping` and its auto-reset `wakeup_event` |
| `pc`, `cur`, `oper`, `target`, `seen`, `scan` | the place of a thread, the coroutine it runs, and the local variables of the call it is in |
| `hops`, `ended` | how often a coroutine awaited, and whether it ended |
| `contended` | ghost: a thread read the head of the render thread's queue while another was between reading and writing it |

| Actions | Code |
|---|---|
| `Schedule`, `ScheduleRender`, `End` | a coroutine awaits (`await_suspend`, `schedule_impl`) or ends; the thread's own code starts one |
| `ReadHead`, `Store`, `Publish`, `Grow` | `try_local_enqueue` |
| `PopHead`, `TakeLocal`, `GetRemote` | `try_local_pop`, `get_remote`, in the loop of `run` |
| `RemoteEnqueue` | the compare-exchange of `remote_enqueue` |
| `TryWakeUp` | one turn of `wake_one_thread`, or `wake_up` of the render scheduler |
| `AnnounceSleep`, `Woken` | `notify_intent_to_sleep`, `sleep_until_woken` |

`get_remote` holds its mutex, and the list it reverses is no longer shared; it is
one step. The copy of a queue and its replacement are one step too: what the runs
show does not need the two apart. Popping reads the head in one step and writes
it in the next. The initial state is that of threads that have started, with
the global `task_scheduler` set; a failed allocation of a larger queue ends the
program and is left out. Memory is sequentially consistent.

| Run | Bounds | Shows |
|---|---|---|
| `task_scheduler` | 2 pool threads, render thread, 1 outside, 2 coroutines of 2 awaits, one of them allowed `schedule_render()`; queues of 2 growing to 4 | `OnePlace` (with `TypeOK`), `RemoteFifo`, `LocalWorkRuns`, `SleeperServes` |
| `local_queue_bound` | 1 pool thread, 5 coroutines of 1 await, queues of 2, stated maximum 4 | violates `LocalQueueBounded` |
| `render_queue_growth` | 2 threads outside, 3 coroutines of 1 await, all on the render thread, queue of 2 | violates `GrowthKeepsOperations` |

In the first run a coroutine started by another fills a queue beyond its first
size, so growth happens; a coroutine comes back to a queue it has left; an
operation reaches the remote list from outside and from the render thread, while
workers go to sleep. Deadlock is not checked: when all coroutines have ended, all
threads sleep.

Every load of a mesh awaits `schedule_render()`, so any number of coroutines may await
it, and two threads do come to be in the queue of the render thread at once.
From then on (`contended`) an operation of the coroutines that use it may be lost or
resumed twice, as `render_queue_growth` shows. `OnePlace` is therefore about the
coroutines in `Tracked`: all of them before, and for ever those that only go to the pool,
which nothing that happens in the render thread's queue may harm. In `task_scheduler` one
coroutine awaits the render thread, because liveness with more states takes too long;
`MCTaskPlaces.cfg` has two of them and one that stays in the pool, reaches the contended
states (`contended = FALSE` is violated there), and checks `OnePlace` and `RemoteFifo`
through them. `CoroutineInOnePlace` below proves it for any number.
A pool thread whose `try_local_pop` returned an operation that was overwritten (null)
has nothing to resume: the model leaves it where it is.

Fairness: a pool thread and the render thread always continue, inside the
scheduler and in the coroutine they run, which awaits or ends some time; a
thread outside finishes the call it is in, and need not begin another. `MaxHops`
is more than a bound of the state space: a worker takes its newest operation
first, so a coroutine that schedules itself for ever would keep older ones in the
same queue waiting for ever. `LocalWorkRuns` holds for coroutines that await
finitely often.

Findings.

* `local_queue_bound`: growth is refused when `queue_mask` equals
  `max_local_queue_size` (line 89). A mask is a power of two less one and the
  maximum is a power of two; the comparison is never true, and the stated limit
  of 1 MB does not exist.
* `render_queue_growth`: `schedule_render()` pushes on the queue of the render
  thread from whichever thread awaits it (`Core/Mesh.cpp`, line 147), but the
  queue is written for one writer, and the lock the comments of its growth speak
  of (lines 97 and 110) is not taken. Two threads that find the queue full both
  replace it, and an operation is lost.

Observation. A worker looks at the queues, announces that it sleeps, and sleeps
without looking again. An operation put on the remote list in between, when no
other worker sleeps, wakes nobody and stays there until somebody schedules again.
Neither the code nor a comment claims otherwise, so no run is about it;
`SleeperServes` is the promise that is kept, for an operation whose wake-up finds
a worker asleep.

### Proofs

`TaskSchedulerProofs`, for any number of threads and coroutines and any sizes, from
`SizesAssumption` (also: the render thread is not one of the pool).
`RemoteIsFifo` (`RemoteFifo`): the two lists are one queue, which every step leaves
alone, extends at its end or shortens at its front. `CoroutineInOnePlace`
(`OnePlace`) is for any set of coroutines that await the render thread. It needs the
invariant `IInv`: `TypeOK` and

| Conjunct | Says |
|---|---|
| `ThreadInv` | what a thread holds in each call; while it pushes on a sound queue, the head it read is still that of the queue |
| `AloneInv` | while the render thread's queue is sound, one thread at most is in it |
| `SlotInv` | the slots below the head of a sound queue hold coroutines, a tracked one in one slot of one queue, and those of the render thread may be there |
| `OnceInv` | no tracked coroutine is twice in the remote queue, in two hands, or run by two threads |
| `PartInv` | local queues, remote queue, hands and threads have no tracked coroutine in common, and together those that have begun and not ended |

A queue is sound (`Sound`) if it is that of a pool thread, or nothing was contended yet.
In an unsound one every step writes what it likes, but only coroutines that are no
longer tracked are in it (`SlotInv`), so no conjunct is disturbed (`SlotsLost`).
`Tracked` only shrinks (`TrackedFacts`), and a step that contends shrinks it before it
spoils anything. `OneRenderNeverContends` says when it never does: one coroutine is in
one hand only, so with one that awaits the render thread no second thread gets there.
Liveness is model-checked only.

## 6. I/O scheduler

`IOScheduler` is `Core/Coroutine/IOScheduler.cpp` with the awaitable file
operations (`io_state.h`, `file_read_operation.cpp`, `file_write_operation.cpp`,
which differ in the system call only).

| Variables | Code |
|---|---|
| `port`, `kernel`, `outcome` | the completion port, the operations the kernel has accepted, how they ended (external) |
| `overflow`, `rest` | `operations_head`, and the local list of a thread in `try_reschedule_overflow_operations` |
| `result` | `error_code` and `bytes_transferred` of the operation a coroutine awaited last |
| `pc`, `cur`, `oper`, `error` | the place of a thread, the coroutine it runs, the operation it starts, `errorCode` in `try_start` |
| `awaits`, `ended`, `dropped` | progress of the coroutines; the last is a ghost for what `schedule()` loses |

| Actions | Code |
|---|---|
| `Schedule`, `PushOverflow` | `await_suspend` and `schedule_impl`; a post can always fail |
| `StartFileOperation`, `ReturnFromStart` | `await_suspend` and `try_start` up to and after the return of `ReadFile` or `WriteFile` |
| `KernelCompletes` | completion of a pending operation |
| `TakeOverflow`, `Repost`, `PutBack` | `try_reschedule_overflow_operations`: the exchange, one post, the compare-exchange |
| `TakeEvent` | `GetQueuedCompletionStatus`, `on_operation_completed` |

The kernel may complete a pending operation, and the I/O thread resume the
coroutine and run it to its next await, before the thread that started the
operation returns from `ReadFile`: that is why starting is two steps.
`ResultsOwn` says that thread then leaves the operation alone. Files are opened
with `FILE_SKIP_COMPLETION_PORT_ON_SUCCESS`; `EventAtOnce` is that mode.

| Run | Bounds | Shows |
|---|---|---|
| `io_scheduler` | 1 I/O thread as in the engine, 2 threads outside, 2 coroutines of 3 awaits | `OnePlace` (with `TypeOK`), `ResultsOwn`, `FileAwaitsReturn` |

Two coroutines suffice for an overflow list of two of which one is posted and one
put back, and for a push by a third party during a put-back; three awaits let a
coroutine resumed early start another operation while its first starter is still
in `try_start`. Deadlock is not checked: when nothing is left the I/O thread waits
at the port. Fairness: threads continue what they are in (a coroutine ends or
awaits some time), and the kernel completes what it accepted.

Disagreement (`MCIOSchedule.cfg`, one of each and one await): `await_suspend` assigns its parameter to itself
(`IOScheduler.cpp`, line 240). The member stays empty, so the posted event has key
0 and is taken for a wake-up request; the coroutine is never resumed, although
`IOScheduler.h`, lines 18 to 19, says that it is. TLC refutes `ScheduleResumes`. The
engine itself awaits only `TaskScheduler::schedule()`, which is not affected.

Not modelled: `process_one_pending_event` and `cancel` (no caller), the stop flag
(never set), opening files.

### Proofs

`IOSchedulerProofs` proves `StaysInOnePlace` (`OnePlace`) and `ReadsOwnResult`
(`ResultsOwn`) for any number of I/O threads, although the engine has one, of threads
outside and of coroutines, from `CorosAssumption` (names differ, the two kinds of
threads too). The invariant `IInv` is `TypeOK` and

| Conjunct | Says |
|---|---|
| `ThreadInv` | what a thread holds at each place of its code |
| `PortInv` | an event is of one file operation or of one post |
| `PlaceInv` | of all places, with thread and index, a coroutine has exactly one while it is on its way |
| `ResultInv` | what a starter is about to store is how the operation ended; a pending one it does not store at all |

A starter whose operation is pending is not a place: the kernel may have completed it,
and the coroutine gone on, while the thread is still in `try_start`. `ResultInv` is
why it does no harm there. `FileAwaitsReturn` is liveness and model-checked only.

## 7. Coroutine tasks: WhenAllReady and SyncWait

`ForkJoin` is what the caller of `SyncWait(WhenAllReady(tasks))` relies on: the
call comes back once, after every task. `Coroutines` is how `Core/Coroutine`
does it: a thread starts the tasks in turn, each of which runs until it suspends;
then it awaits the counter and sleeps on an event. Suspended tasks go on and end
on threads of the schedulers, where the last to end resumes the awaiting
coroutine, whose end sets the event and wakes the sleeper.

| Variables | Code |
|---|---|
| `started`, `task`, `awaits` | the loop over the tasks in `when_all_ready_awaitable::try_await`, the tasks |
| `count`, `coroutine` | `when_all_counter::count` and the coroutine it resumes |
| `value` | `manual_reset_event::value` |
| `pc`, `cur` | the place of a thread, the task it runs or ends |
| `resumes` | ghost: how often the awaiting coroutine went on |

| Actions | Code |
|---|---|
| `StartTask`, `StoreAwaiting`, `TryAwait` | `try_await`: one turn of the loop, the store of the coroutine, the decrement |
| `Suspend`, `ResumeTask`, `EndTask` | a task awaits an operation of a scheduler, is resumed (external), is at its final suspension |
| `Notify`, `ResumeAwaiting` | `notify_awaitable_completed`: the decrement, the resumption |
| `SetEvent`, `Wake` | `manual_reset_event::set`: the store, `WakeByAddressAll` |
| `LoadValue`, `WaitOnAddress`, `SpuriousWake` | `manual_reset_event::wait` |

Every atomic operation is a step of its own, so a task may end before the
coroutine is stored, between the store and the decrement, or while the waiter is
between its look at the value and its sleep. `WaitOnAddress` compares the value
and sleeps in one step; that is what the operating system guarantees.
`Wake` may come after the waiter has returned and destroyed the event: that is
allowed, `WakeByAddressAll` takes the address and never looks at the memory.
`MemoryOutlivesUse` says that this is the only thing another thread may still
have before it.

| Run | Bounds | Shows |
|---|---|---|
| `coroutines` | the waiter, 2 pool threads, 3 tasks of 2 suspensions | `AwaiterOnce`, `MemoryOutlivesUse`, `JoinSpec`, `SyncWaitReturns` |

Three tasks on three threads: one can end while the next starts on the waiter and
a third is in `Notify`. Deadlock is not checked, the system stops when the
call has returned. Fairness: every thread goes on, and a task that awaits is
resumed some time, which is the promise of the schedulers of sections 5 and 6 for
coroutines that await finitely often; `MaxAwaits` makes them so. It is
`TaskScheduler::schedule()` that is meant: the same promise does not hold for
`IOScheduler::schedule()` (section 6).

### Proofs

`CoroutinesProofs` proves the safety of the handshake for any number of tasks,
threads and suspensions, from `CoroutinesAssumption`. The invariant `IInv` is

| Conjunct | Says |
|---|---|
| `TypeOK` | types |
| `Places` | which places of the code the pool threads and the waiter can be in |
| `Started` | tasks are started in turn: those behind the last one are new, the others are not |
| `OneRunner` | a thread that runs or ends a task has that task, and no other thread has it |
| `CountExact` | the count is the number of tasks that have not counted down, and one more until the awaiting coroutine has |
| `LastOne` | who has counted to zero is alone on the way from the resumption to the event |

`CountExact` is the heart: two that count down cannot both find zero, and whoever
does finds the coroutine stored, because its own share is given up only after the
store. `TypeCorrect`, `ResumedOnce` (`AwaiterOnce`), `NothingOutlived`
(`MemoryOutlivesUse`) and `ImplementsForkJoin` (`JoinSpec`, every step is a step of
the fork and join or a stutter) follow from it. `SyncWaitReturns` is only
model-checked.

## 8. Online descriptor heaps

`OnlineDescriptors` is the `DescriptorCache` of a command context with the state
cache that drives it. The CPU writes descriptors while it records, the GPU reads
them when the batch executes; `CommandTimeline` is the GPU.

| Variables | Code |
|---|---|
| `open`, `done` | the batch being recorded and the last one finished; a `CLSyncPoint` is a batch |
| `onBlocks`, `block`, `used`, `blockPool` | `SubAllocatedOnlineHeap`: current view heap or not, `CurrentSubAllocation`, `NextSlotIndex`, `DescriptorBlockPool` |
| `localV`, `localS` | `LocalViewHeap`, `LocalSamplerHeap`, each with the pool of its `ReclaimPool` |
| `onGlobal`, `localSet`, `samplerMap`, `unique` | `bUsingGlobalSamplerHeap`, `LocalSamplerSet`, `SamplerMap`, `UniqueTables` |
| `globalSet`, `globalDirty` | the table set of the `GlobalOnlineHeap` and whether it changed |
| `setV`, `setS` | `pPreviousViewHeap`, `pPreviousSamplerHeap`: the heaps set on the open list |
| `dirtyV`, `dirtyS`, `tabV`, `tabS`, `sampler` | dirty slot masks, root tables and bound samplers of the state cache |
| `memS`, `uses` | what is in the sampler heaps; ghost: slots read by draws not finished |
| `pc`, `inFrame` | how far the draw is, whether a frame is open |

A draw is `Bind`, then `ApplySamplers` (`FindGlobalTables`, or `MissGlobalTable`
and `SetSamplers` with `RollOverSamplers`), then the view loop of `ApplyState`
(`RollOverBlock`, `RunOutOfBlocks`, `RollOverLocalViews`) until the slots fit, and
`DrawOnBlock` or `DrawOnLocalHeap`. The GPU may finish a batch in between.
`FlushCommands`, `EndFrame` with `GatherUniqueSamplerTables`, and `BeginFrame` are
the calls of the context. The flag `globalDirty` is set once and never reset, so from
then on every frame copies the table set. `Stop` is the renderer doing nothing between draws; with
it deadlock is checked, so a draw that has begun never gets stuck.

Abstracted: a stage has one slot, its table is that slot. `Bind` says which
stages get another view and which sampler each has; what a view is matters to
nothing here. The map from samplers to tables keeps what it is given until it is reset;
the code's `ConservativeMap` has one entry for each value of its hash and may forget
one for another, whose table is then written again to a new slot. A sampler heap or slot that is
reused is modelled as garbage (`Forget`). A table in the view heap stays valid when
only the sampler heap is replaced, and the other way round, as the code assumes.

The run `frames` has 2 view stages, 1 sampler stage, 2 samplers, 2 blocks and local
heaps of 2 slots, a global sampler heap of 1, and 3 batches of at most 4 tables.
`TablesValid`: a table `ApplyState` will not touch again is good on the open list
(`CleanTablesValid`), a table remembered by its content holds that content
(`SamplerTablesExact`), and a block is free, current, or waiting, in one place
(`BlocksInOnePlace`). `SlotsReused`: a descriptor is written only to a slot that no
draw recorded or in flight reads (`NoSlotRewritten`), and a heap is made only when
all in the pool are in flight (`NoNeedlessHeap`). `MCOnlineDescriptors.cfg` checks
the five alone.

Two blocks of two slots roll over at the second draw of two views; three batches
let the front of the pool be complete, in flight, or of the open list, and the
cache gives up its blocks. The global sampler heap has room for one table of two,
so some are found there and some not, and the context goes on with its local heap
and comes back at the next frame. `MaxLocal` bounds the heaps a context makes
(`MayRollOver`): a draw that needed one more would be stuck, and TLC, which checks
deadlock, finds none.

### Proofs (`FramesProofs`, theorems `TablesStayValid` and `SlotsNotRewritten`)

That a slot is not written while it is read is not inductive: the slot written is the
next of a heap, and what matters is where all the others are. `TableInv` says it of
every place a table can be in. The readers of a heap are the draws not finished and
the tables set on the open list (`ViewRefs`, `SamplerRefs`). `HeapsPlaced`, for the
local view heap and the local sampler heap, and `BlocksPlaced`, for the blocks: what
reads the current one is below its next slot; what reads one in the pool has a batch
no later than the sync point it was given back with; no two entries are the same heap;
and sync points ascend (`InTurn`). So when the front of the pool is complete, nobody
reads it, and when it is not, nothing behind it is either, which is why a heap is made
only then. `GlobalWritten` and `MapWritten` say that a remembered sampler table names
a slot already written, `CurrentSet` that the heaps of the cache are those set on the
list.

A change of heap is proved once for both kinds (`RollOverPlaced`), the taking of slots
too; the lemmas about an action then add what it does to flags, tables and contents.
`MaxLocal` is used as a guard only: the theorems hold for every value of it.

Left out: the dispatch of rays between draws. `DispatchRays` (`D3D12RayTracing.cpp`,
lines 724 and 738) sets the heaps of ray tracing on the open list and then the
previous ones, on the list itself. The state cache is not told, although its own
comment (`ContextStateCache.d3d12.cpp:557`) says that tables are undefined after the
heaps of a list were changed: a draw after the dispatch that finds nothing dirty
reads tables that are undefined. `CleanTablesValid` is a statement about lists
without such a dispatch.

## 9. Recycling of buffers

`ResourceRecycling` follows the memory of a buffer the CPU writes: free in
`upload_resources`, bound to a buffer, in the entry `ResidencyPool`, in
`ReclaimPool`, free again.

| Variables | Code |
|---|---|
| `resource` | `GraphicsBuffer::resource` of the buffers the application maps |
| `upload_resources` | the multimap of that name in `Device` |
| `residencyPool`, `reclaimPool` | `Device::ResidencyPool` and `Device::ReclaimPool`; an entry has a sync point, residents and uploads |
| `phase` | where `OnCreate` and `DoUpdate` of the application are |
| `open`, `done`, `lastUse` | the timeline; ghost: the last unfinished batch that uses a resource |

| Actions | Code |
|---|---|
| `BuildGeometry`, `BuildScene` | `BuildAccelerationStructure` of a geometry and of the scene |
| `Map`, `Draw` | `GraphicsBuffer::Map` for writing, a draw that reads the buffer |
| `SyncCPUGPU`, `EndFrame` | `Context::SyncCPUGPU`, `Context::EndFrame`, both with `ClearPSOCache` |
| `Present` | the submissions of `CommandContext::EndFrame` and `Display::SwapBuffers` |
| `Finish` | the GPU |

The order of the calls is that of `LTest/EngineTest/wWinMain.cpp`, and it matters.
`ResidencyResource` sets the sync point of the entry, `InnerResourceRecycle` does
not, so upload memory comes back under whatever sync point the last ray tracing
build has set. That is enough because every frame builds the scene after its early
draws and before `EndFrame`, in the same list; memory mapped and recycled late in
the frame is under the sync point of that list, which was not submitted in between.
`SyncAssumption` is part of it: `SyncCPUGPU` comes from the mapping of textures,
which only loading does, and from the mapping of buffers for reading, which
nothing does. With a call of it early in a frame (`SyncPhases`
containing "early") TLC finds `PooledIdle` violated in eight steps: a draw, the
mapping of its buffer, and `SyncCPUGPU` puts the memory in an entry whose sync
point is of the frame before. Likewise `ClearPSOCache` before any ray tracing build
asks a sync point that has no list; the actions are guarded by that, since the
application builds geometry before.

The run `stores` has 2 buffers, 10 resources, 2 recycled between entries, 2 entries by
`SyncCPUGPU` and 6 batches, and checks `PooledIdle` and `UsedIsReferenced`.
`MCResourceRecycling.cfg` has the same bounds and checks `UploadsInOnePlace` and
`ReadyIsGivenBack`, which are proved too.

Six batches are a load, two frames of two submissions and the start of a third; ten
resources let both frames be in flight with new memory for everything. A new resource
is any one nobody refers to, chosen in a fixed way: names carry no meaning. Deadlock
is not checked, the model stops at its bounds; there is no fairness, nothing here
waits.

Left out: sizes (memory of another size is passed over, so one size stands for each),
readback buffers (no caller recycles one; `ClearPSOCache` clears the upload list twice
and the readback list never, `Context.d3d12.cpp:139`), the branch of
`UpdateSubresource` for default-heap buffers of another size (no caller), and buffers
deleted by their owner while frames that read them are in flight. The last does
happen: `Renderer/imgui/imgui_context.cpp` deletes its vertex and index buffers when
they are too small (lines 74 and 87), and the destructor releases the resource at
once.

### Proofs

`StoresProofs` proves type correctness and all four properties, without the
bounds of the instance, from `ResourcesAssumption` (a buffer starts with a resource),
`BoundsAssumption` and `SyncAssumption`. The invariant `IInv` is `TypeOK`, the
properties `PooledIdle` and `UsedIsReferenced`, and

| Conjunct | Says |
|---|---|
| `BoundOnce`, `KeptOnce` | a resource is bound to one buffer, or free, or kept by one entry: stronger than `UploadsInOnePlace`, which is about upload memory |
| `Covered` | the sync point of an entry covers the last use of all it keeps; of the entry being filled it does for uploads only late in the frame, after the scene was built in the open list |
| `SyncOrder` | sync points ascend along the pool to the entry being filled |
| `UseExact` | the ghost names unfinished batches only |

`Covered` is why the invariant is needed: `PooledIdle` alone does not say under
which sync point memory comes back. The complete entries are the first of the pool
(`CompleteFacts`, from `SyncOrder`). Theorems: `TypeCorrect`, `UploadMemoryIdle`
(`PooledIdle`), `NothingReleasedInUse` (`UsedIsReferenced`), `OnePlaceEach`
(`UploadsInOnePlace`), `NothingHeldBack` (`ReadyIsGivenBack`).

## 10. State cache

The renderer sets state on a command context at any time; the state cache keeps
it with a flag, and the next draw or dispatch sets what is flagged on the open
list. Whenever work is submitted the list is replaced by one that has nothing set.
Two modules follow the two halves of the cache that meet only at the list.

| `DrawState` | Code |
|---|---|
| `current` | `CommandContext::CurrentRenderTargets`, `CurrentDepthStencilTarget` |
| `cached`, `need`, `ibCache`, `strides`, `pipeline` | `PipelineState.Graphics` of the cache, its `bNeedSet...` flags, `IBCache`, `StreamStrides`, the pipeline that has them |
| `list`, `listIB`, `work` | what the open list has, `HasDoneWork` |
| `asked` | ghost: what the renderer asked for in this frame |

| `PipelineState` | Code |
|---|---|
| `bound`, `pso`, `primitive` | current pipelines of draws and of dispatches, the one set last, the primitive type |
| `needPSO`, `needRoot`, `needTopology` | flags |
| `count`, `view`, `dirty` | `CurrentShaderSRVCounts`, `SRVCache` |
| `list`, `work` | as above |

The actions are the calls: `BeginRenderPass`, `SetViewport`, `SetScissorRect`,
`SetVertexBuffer`, `SetGraphicsPipelineState`, `SetComputeShader`,
`SetShaderResourceView`, draws and dispatches with their `ApplyState`, and
`FlushCommands` and `EndFrame`, which open a new list (`OpenCommandList` with
`DirtyStateForNewCommandList`) and, at the end of a frame, clear the cache first.

The run `frames` has, for `DrawState`, 3 targets of 2 sizes, 2 pipelines of 2 strides,
2 vertex and 2 index buffers, in frames that begin off screen and end on a back
buffer as in the test application; for `PipelineState`, 3 pipelines of draws, 1 of
dispatches, 2 root signatures, 1 or 2 views read from 2 slots, and 1 view.
`DrawnAsAsked` says of a draw or dispatch made now that it runs the pipeline set for
it with its root signature and topology (`PipelineAsAsked`), reads the views bound
(`ViewsAsAsked`), and, of a draw, that it has the targets of its pass, the rectangles
(`TargetsAsAsked`) and the buffers with the strides (`BuffersAsAsked`) asked for last.

Two values of every part tell "set again" from "still set"; the pipelines of draws
agree and differ in root signature, topology and number of views, and the one of
dispatches leaves another pipeline on the list than the next draw wants. Deadlock is checked: the renderer can always go on. There is no
fairness, nothing here waits.

The flags are not initialised by the constructor, so they start arbitrary. The
targets of a context are not either; they are taken as null. The renderer sets
buffers after the pipeline, as all callers do: `InternalSetStreamSource` takes the
stride of the pipeline that is current. `Convert` gives no topology for
`ControlPoint_32`; the topology otherwise follows the primitive type.

Two disagreements lie just outside the two models. `EndFrame` clears the targets of
the cache and not those of the context, with which `SetRenderTargets`
(`CommandContext.d3d12.cpp:555`) compares: a frame that begins with the targets the
last one ended with draws to none. That is why the frames of the model begin with
other targets (`FirstTargets`, `LastTargets`). `DispatchRays` sets the root signature
and the state object on the list itself (`D3D12RayTracing.cpp:734`), although the
cache relies on knowing when the application switches
(`ContextStateCache.d3d12.cpp:914`): the next draw or dispatch finds its pipeline set
and runs with another. `PipelineState` has no dispatch of rays.

Left out: constant buffers, unordered access views, samplers (section 8), blend
factor, stencil reference, depth bounds, stream out, tessellation factors.

### Proofs

`DrawsAsAsked` in `FramesProofs` is `DrawnAsAsked` for any targets, sizes, buffers,
pipelines and views, and for any flags at the start, from `PipelinesAllowed` and
`ShapesAllowed`. The invariants are about the cache between two draws; that the draw
made now has what was asked for follows from them and from what `ApplyState` does.

| Conjunct | Says |
|---|---|
| `PipelineKnown`, `RootsKnown`, `TopologyKnown` | what is not flagged is on the list as the cache remembers it; a topology that is not flagged was set by a draw, which is work |
| `CountsKnown`, `ClearSlotsHeld` | a slot that is not dirty holds, on this list, the view bound to it |
| `AskedCached` | what was asked for in this frame is cached |
| `CachedSet`, `IndexBufferSet` | what is cached, is no default and is not flagged, is on the list |
| `TargetsRemembered` | the targets the context compares with are those of the pass, or the last of the frame before |
| `StridesOfPipeline` | the strides are those of the pipeline |

`TargetsRemembered` is where the frames of the application matter: `ShapesAllowed`
says that the targets a frame begins with are not those one ends with
(`FirstTargets \cap LastTargets = {}`), for the reason told above.

## 11. Deferred deletion

A render object without owners is not deleted at once: the GPU may still use it.
It is queued, collected into a batch at the end of the frame, and deleted when the
batch has waited `NumFramesToExpire` frames. No fence is asked; what keeps the
program from running further ahead is the wait on the frame latency object of the
swap chain after each present, which gives up after a second.

| Variables | Code |
|---|---|
| `numRefs`, `pendingDeletes`, `deferredDeletionQueue`, `currentFrame` | the members of `RObject` of these names |
| `phase` | where `DoUpdate` of the application is |
| `slots`, `timeouts` | the count of `frame_waitable_object` (external), waits that gave up |
| `made`, `deleted`, `unfinished`, `inUse` | ghosts: objects created and deleted, how far the GPU is behind, in frames |

| Actions | Code |
|---|---|
| `Create`, `AddRef`, `Release`, `Use` | the renderer, anywhere in a frame |
| `EndFrame` | `CommandList::EndFrame`, that is `FlushPendingDeletes` |
| `SwapBuffers`, `WaitOnSwapBuffers`, `WaitTimesOut` | `Display`; the wait ends with a frame, or after its second |
| `FinishFrame` | the GPU |

The run `frames` has 2 objects of up to 2 owners, latency 1 and 2 timeouts, and checks
`DeletedIdle` and `DeletionOrderly`: an object let go is in one place
(`ReleasedInOnePlace`) and no batch stays longer than its frames
(`NoBatchOverdue`). `MCDeferredDeletion.cfg` has 3 objects, so two batches and one
being queued, and adds the liveness `ReleasedIsDeleted`.

`LatencyAssumption` says what
the constant 3 is enough for: latency and timeouts together at most three. The bound
is tight: with a third timeout TLC finds an object deleted while the GPU uses it.
Fairness: the frame goes on (`EndFrame`, `SwapBuffers`, `WaitOnSwapBuffers`) and the
GPU finishes frames. A frame number does not wrap here (`uint32` in the code), and
`Release` is called on one thread, as the stack of pending objects has no lock.
Objects held by `share_raw` pointers are deleted by their last owner at once and are
not in this module.

`FramesProofs` proves `TypeCorrect` and `DeletedAreIdle` (`DeletedIdle`)
for any objects, latency and number of timeouts under `LatencyAssumption`. `IInv` is
`TypeOK`, `DeletedIdle` and

| Conjunct | Says |
|---|---|
| `Ahead` | free slots and unfinished frames add up to the latency and the timeouts |
| `OwnersGone` | what is queued, in a batch or deleted has no owner, so nobody uses it any more |
| `BatchesAge` | of a batch that waited k frames, an object in use is needed by a frame at least k before the newest |
| `UsesBounded` | a use is of a frame not finished |

When a batch expires it has waited four frames, `BatchesAge` puts its uses so far
back that by `Ahead` they would be of frames that must be finished.
`DeletionInOrder` (`DeletionOrderly`) adds `Apart` and `NotDeletedYet` (no
object is in two batches, and none in a batch is deleted), `NoneLost`
(what was let go is pending, in a batch or deleted), and `NoBatchOverdue` itself. The liveness
of `MCDeferredDeletion.cfg` is model-checked only.

## 12. Message loop

`MessageLoop` is the loop of `GUIApplication` over the `MessageQueue`, run as in
`LTest/EngineTest` beside the thread of the window. Each access to the queue is one step
under its mutex. `DealMessage` takes it three times: is the queue empty, an iterator to
the first message, and, after the message was dispatched without the lock, the erasure
through the iterator. Other threads, and the handler itself, post in between.

| Variables | Code |
|---|---|
| `qMain` | the `multimap` of the queue, in its order |
| `hShell`, `pc`, `current` | the shell handle is set, where the loop is, its iterator |
| `window`, `attached` | the window's thread, the handler of `WM_DESTROY` that posts the quit |
| `posted`, `nested`, `handled` | messages posted, by handlers, and dispatched (ghost) |

In the run `host_threads` one thread posts 2 messages at priorities 1 to 3 around the
response limit 2, a handler posts 1, and the quit has priority 4. `DispatchOrderly`: a
message is dispatched once (`HandledOnce`) and those of one thread in their order
unless priorities say otherwise (`PostingOrderKept`). `EveryMessageHandled` is liveness,
with the end of the loop by the quit message (`QuitEndsLoop`): in a behaviour in which
the loop dispatches nothing to a null shell, each message posted is handled, or the quit
message ends the loop first. `MCMessageLoop.cfg` has 3 messages and adds
`OnlyHandledLeave`.

Priorities below, at and above the limit reach the three ways a message is dealt with,
and a message posted while another is handled can land before, behind or at the
iterator. Deadlock is not checked: the loop ends with the quit message. Fairness: the
main thread and the window's thread go on. `EveryMessageHandled` ends with "or the loop
has ended", by the quit message (`Ended`): what is queued behind it stays there. It says
nothing of behaviours with the failure that `MCQuitRace.cfg` finds, in which
messages are not handled. Idle messages are not
told apart and not in `handled`. If the window is closed before its handler is attached
the loop goes on for ever; no promise speaks of that.

`LoopKeepsOrder` in `HostThreadsProofs` proves `DispatchOrderly` for any threads,
priorities and numbers of messages, from `LoopAssumption` (priorities are numbers).
The invariant is `MessagesInv`: the queue is sorted, and of two messages of one thread
the earlier is in front unless the later is more urgent (`QueueOrder`); so they were
dispatched (`HandledOrder`); what was dispatched is before all that is queued, but for
the message that is yet to be erased (`SplitInv`); and the message at the iterator is
still in the queue, with only newer ones of its thread in front of it (`CurrentInv`).
The last is the iterator that is used after the lock was released.
`EveryMessageHandled` is model-checked only.

Disagreement (`MCQuitRace.cfg`, one message of one other thread): `PostQuitMessage` posts two
messages under the lock in turn, the first of which empties the shell handle. A loop
that runs in between finds the queue empty and dispatches an idle message to the empty
handle, which `GUIApplication.h:111` asserts it never does; what is still queued is not
handled, whatever `LShell.h:38` says. TLC refutes `ShellValid`.

## 13. Asset cache

`AssetCache` is `AssetResourceScheduler::AsyncLoad` over `used_list_cache`. A lookup
holds the mutex shared, but a hit moves its node to the front of the list, pointer by
pointer (`Unlink`, `LinkNode`, `LinkFront`, `LinkBack`, the order of the library's
`splice`, external). A miss loads the asset without the mutex and inserts it with the
mutex exclusive (`Emplace`), which gives up the oldest entries first.

| Variables | Code |
|---|---|
| `cache`, `next`, `prev` | `used_cache`, and `used_list` as a ring |
| `pc`, `key` | each call of `AsyncLoad` and what it loads |
| `running`, `splice` | the call inside the shared lock on each thread, what its splice has read |
| `recency` | ghost: keys, most recently used first |
| `overlapped` | ghost: a lookup read the list while another was splicing it |

Two threads look up in both runs, as in the engine: tasks of `CompileShaderMap` run on
the main and the I/O thread, loads of entities on the pool.

The run `stores` has 5 loads of 4 keys that overlap, and room for 2, and
checks `CacheOrdered`: until two lookups overlap in the list, it holds the nodes of the
map (`ListMatchesCache`) in the
order of their use (`OrderedByUse`), one more than the limit at most
(`CacheBounded`). Lookups on two threads alternate, loads of one key overlap, and an
entry is inserted between two lookups. `MCAssetCache.cfg` checks the three alone, and
the action property `OnlyOldestGoes`: what leaves the map was used least recently, and
no asset is replaced
by one that was loaded later under its key. `OldestGoes` of `Stores` is the same
property.

The run `lookup_race` (5 loads of 3 keys on two threads, room for 2) is the case left
out above: two hits splice one list at once. `CountsMatch`, the invariant that the cache
states of its list (`cache.hpp:167`), is violated: two hits of one key leave its node
leading to itself, and the other node of the map is not met. The splices go pointer by pointer to their end; an insertion that finds the torn
list empty at its back would pop the end of the list, which is undefined, and is not
taken (the bound in the guard of `Emplace`).

Five loads fill the cache, hit the middle of it, insert a key that was inserted while
it was loading, and give up an entry. Two loads of one key both load; nothing in the
code says they should not, and the second finds the first one's asset at insertion.
Deadlock is not checked, calls are bounded; there is no fairness.

### Proofs (`StoresProofs`, theorems `CacheStaysOrdered` and `OnlyOldestLeaves`)

`OrderedByUse` reads the ring by walking it, and holds only between lookups. The
inductive invariant `AssetInv` states the ring pointer by pointer instead: `ByUse` is
the list of the nodes of `recency`, and `Forward` and `Backward` say that `next` and
`prev` lead from each of its nodes, the sentinel at both ends, to its neighbour
(`Pointers`). While a splice is under way each pointer is the one of the old order or
of the new one, according to the step the splice has come to (`Splices`);
`SpliceBegins`, `SpliceGoesOn` and `SpliceEnds` are the three parts of that argument.
`UseMatches` says that `recency` has each key of the map once, and at most `MaxUse`
plus one, `CacheMapped` that the node of a key has that key and its call has returned,
so that no later call overwrites it, `HitInFront` that a node under way is that of the
key used last, and `Apart` that one at most is under way. `BackPopped` and `FrontPushed` are the two halves
of `Emplace`, and `UsedListReads` turns pointers back into what the walk returns.

Both theorems are for any number of loads, keys, places and threads that look up. The
invariant holds until `overlapped`: a thread whose lookup begins finds every other one
before its splice or after it, so while nothing overlaps one thread at most is between
two pointers (`Splicing`), and a second lookup that only reads changes nothing. What a
lookup does to the list after that no invariant says.

## 14. Thread pool

`ThreadPool` is `thread_pool` and `task_pool` of `LBase/concurrency`: workers, callers
that enqueue at once, wait for a place, or wait with a limit, and `reset`, which
destroys the pool and makes it again. What is done under the mutex is one step; a
thread in a condition has released it; notifications are steps of their own, given
without it. The engine itself does not use the pool.

The run `host_threads` has 2 workers, room for 2 tasks, 2 callers of 2 calls and 1 reset
that is called alone. `TasksKept`: a task is queued or held by one worker, or was run,
once (`TasksInOnePlace`), and a reset leaves none behind (`ResetDrains`).
`EveryTaskRuns` and `EveryCallReturns` (`EveryWaiterReturns`, `ResetReturns`) are
liveness. `MCThreadPool.cfg` has 3 callers and room for one task.

Three callers for one place: one has it, one waits for it, and one whose wait runs out
can take a notification meant for the other. Two callers of two calls on two places
reach the wait as well, with workers that hold tasks of both. Deadlock is not checked,
callers stop. Fairness: workers run, tasks end, callers and reset proceed once they
can; waits that time out and spurious wakes have none.

`PoolKeepsTasks` in `HostThreadsProofs` proves `TasksKept` for any number of workers,
callers and places when `ResetAlone` holds, from `PoolAssumption`. The invariant adds
`HeldInv` (a task is held by the worker that runs it), `FreshInv` (the task a caller is
about to push was not accepted before) and `StopInv`: a worker leaves only a stopped
pool with an empty queue, and there is a worker to empty it. Liveness is model-checked
only.

Disagreement (`MCPoolReset.cfg` with `ThreadPool`, 1 worker, 2 callers, reset at any
time, TLC refutes `NobodyInside`): the header says all members are thread safe and
excepts none, but `reset` destroys the mutex on which another thread may be waiting.

## 15. Built-in shaders

`ShaderMap` is `CompileShaderMap` with one task per shader type, and the map that the
tasks register their shaders in. A task loads its source (from the asset cache or by a
read that ends on the I/O thread), compiles, writes an archive, and adds its shaders:
the lookups of section and shader under a shared lock and the insertions under an
exclusive one are separate steps.

| Variables | Code |
|---|---|
| `pc`, `permutation`, `running` | each task, its `PermutationId`, the task on each thread |
| `loaded` | sources in the asset cache |
| `sectionMap`, `section`, `content` | `SectionMap`, `section_itr` of a task, the shaders of each section |
| `returned` | ghost: what `FindOrAddShader` returned, and to whom |

The run `stores` has 3 types of 3, 2 and 1 permutations, one not compiled, in 2 sources;
hashes collide within a type and between types. `ShadersFound`: what `FindOrAddShader`
returned is what `GetShader` finds (`ReturnedIsFound`), nothing is in the map twice or
in a section that was dropped (`NothingDropped`), and no later lookup of a type that
did not fail meets the assertion (`LookupsSucceed`).

Two types share a source and two have colliding hashes, so both races between lookup
and insertion happen. Tasks may fail; deadlock is not checked, everything stops when
they have ended. There is no fairness. A task uses the iterator to its section after the
lock is released (`BuiltInShader.cpp:33` and `40`), while the other may insert a section.
The standard lets a rehash of an `unordered_map` invalidate it; in the library the engine
is built with an insertion does not move nodes, and the iterator stays good. The model
has what it points at (`section`), so a failure by that use is outside it. There are no archives from an earlier start: the
first small read of one leaves the buffer of its caller (the file stream, section 17).

### Proofs

`ShadersAreFound` in `StoresProofs` proves `ShadersFound` for any types, permutations,
sources and hash, from `ShadersAllowed`. `ShaderInv` is the types of the variables and

| Conjunct | Says |
|---|---|
| `RunsOnce` | a task that neither waits nor is over is on one thread, once |
| `Permutations` | a task is at a permutation to compile, or past the last |
| `SectionFound` | a task that looks into a section looks into the one the map has for its source |
| `AddedInOrder` | shaders of a type have permutations up to that of the task, and below it until it has added its own |
| `ReturnedPresent`, `PassedPresent` | what was returned is in the section of its source, and so is every permutation a task has passed |
| `SectionsClean` | a section that is not in the map is empty, and none holds a shader twice |

`AddedInOrder` answers what the insertion leaves open by not looking again: a task is
the only one to add shaders of its type and adds them in ascending order, so the look
before finds nothing (`FindFails`) and no look after would.

## 16. Resource states

A texture has one tracked state; `TransitionResource` sets it and puts a barrier in the
batch of the open list, which reaches the list before a clear, before a draw, before a
ray tracing build, and when the list is closed. A transition that reverts the last of
the batch removes it.

| Variables | Code |
|---|---|
| `state` | `ResourceHolder::curr_state` |
| `batch` | `ResourceBarrierBatcher::Barriers` of the open list |
| `numBarriers`, `drawn` | the counts behind `HasDoneWork`, the second up to "some" |
| `pass`, `needSetRTs` | the targets of the state cache and their flag |
| `index` | `Display::back_buffer_index` |
| `list`, `gpu` | the state of each plane after what is recorded, and after what is submitted |
| `sound`, `rays` | ghosts: barriers executed so far began in the real state; what the last dispatch of rays found |

| Actions | Code |
|---|---|
| `BeginRenderPass`, `Draw`, `DispatchComputeShader` | `CommandContext`, with `ClearMRT`, and `ApplyState` with `DescriptorCache::SetRenderTargets` |
| `BuildAccelerationStructure`, `RayTraceShadow` | `RayTracingScene`, `RayContext` |
| `FlushCommands`, `EndFrame`, `SwapBuffers` | `CommandContext`, `Display` |

The run `frames` has 1 colour texture, 2 back buffers, 1 depth buffer of 2 planes and 8
barriers counted in a list; `MCResourceStates.cfg` has a second colour texture.
`TrackedIsReal`: barriers begin in the real state, and after a flush the tracked state
is that of every plane. `TargetsReady`: a target is in the state for it on the list
when it is drawn to or cleared, and a back buffer in PRESENT when it is presented
(`PresentedInPresent`).

Eight barriers are more than a frame of every kind of pass needs in one list. Frames
present after `EndFrame`, or before the first pass, as the test application does.
Deadlock is checked; there is no fairness, nothing waits.

`PresentedInPresent` rests on barriers being counted as work: after `EndFrame` the
transition to PRESENT is all there is in the new list.

Disagreement (`MCRayShadow.cfg` with `ResourceStates`, TLC refutes `RaysReadDepth`):
`RayTraceShadow` puts the transition to DEPTH_READ in the batch,
dispatches without a flush, and transitions back; the two cancel each other and the rays
read the depth buffer in DEPTH_WRITE. The barrier on writes that the scene build leaves
in the batch also comes after the dispatch.

Left out: textures of several mips or slices (a transition of several subresources but
not all emits one barrier and marks the whole resource, `D3DCommandList.h:388`; depth
buffers, whose planes are transitioned one by one, are saved by starting in
DEPTH_WRITE), buffers on the upload lists, which nobody else sees, and views for
reading: their `TransitionResource` is empty in the code (`D3DCommandList.h:359`), so
a texture that was drawn to is read in RENDER_TARGET.

### Proofs

`StatesTracked` (`TrackedIsReal`) and `TargetsAreReady` (`TargetsReady`) in
`FramesProofs`, for any textures, depth buffers, back buffers and number of barriers,
from `ResourcesAllowed` (kinds of textures differ). What a list does to a plane is
stated without recursion: `LastOf` names the last barrier of the batch on it, `Executed`
its state after the batch. The invariant `StateInv` is

| Conjunct | Says |
|---|---|
| `TypeOK` | types |
| `IsReal` of the recording | each barrier of the batch begins where the one before it on the same plane ended, or where the list is, and the last one ends in the tracked state |
| `sound` | so it was for those executed |
| `ListUntouched` | when no barrier but those of the batch was counted, the list is where the GPU is |
| `TargetSet` | targets that are set are tracked as RENDER_TARGET |

Removing the last barrier when the next reverts it keeps `IsReal`, since the barrier
removed began where the new one ends. `ListUntouched` is for the present: a transition
to PRESENT that removes the one before leaves a list without work, which is not
submitted, and the GPU is in PRESENT all the same.

## 17. Not modelled

* Ray tracing descriptor heaps: a cached heap is handed out when its fence value is
  complete, and no code ever sets that value.
* File stream: a read asks for a whole buffer of 4096 bytes into the memory of its
  caller, from the first header field on (`FileAsyncStream.cpp:103`); no behaviour
  is defined after it.
* Archives of compiled shaders, metadata, materials, asset formats, renderer, platform
  layer, the rest of LFramework and LBase, LScheme, tools, vendored code: conversions,
  start-up registries, wrappers or general-purpose libraries, listed in `PROJECT.json`.

Hazards met while reading that none of the models covers, beside those named in the
sections above:

* `Core/Coroutine/IOScheduler.cpp:226`: an operation that could not be posted is pushed
  after the I/O thread looked at the overflow list; without another event the thread
  never looks again. The event names no coroutine in any case (section 6).
* `Core/Coroutine/FileAsyncStream.cpp:146`: after the flush of a partly filled buffer the
  source offset goes on at the buffer size.
* `D3D12/D3D12RayTracing.cpp:183`: the cached heaps of ray tracing, as above.
* `D3D12/CommandContext.h:131`: a dispatch does not count as work; one that needs no
  barrier stays in the open list when the context is flushed.
* `D3D12/ContextStateCache.h:242`: `bNeedSetDepthBounds` has no initial value, and when the
  garbage says true the first draw uses a null command list.
* `Core/AssetResourceScheduler.h:41`: `SyncLoad` changes the cache without the lock.
* `Render/Shader.cpp:217` and `312`: the time of a source is stored before its archive is
  complete, and once for all types of the source.
* `LBase/concurrency.cpp:103`: `reset(0)` makes a pool without workers. No caller.
* `LTest/EngineTest/TestFramework.cpp:60`: a window closed before its handler is attached
  leaves the loop running; `MessageLoop` includes it, no promise speaks of it.
