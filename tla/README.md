# Omulator in TLA+

A verification project for Omulator, a C++20 emulator shell: a main loop, a
graphics thread and an interpreter thread that talk through mailboxes, wired
together by a dependency injector. The specifications are translated from the
C++ sources; `PROJECT.json` names, for every definition that models code, the
lines it stands for.

## 1. The system

| Part | State | Operations | Talks to |
|---|---|---|---|
| `Message`, `MessageQueue` (`msg/`) | a vector of messages owned by nobody in particular; per handle `sealed_`, `valid_` | `push`, `push_managed_payload`, `seal`, `clear`, `release`, `pump_msgs` | callbacks of a mailbox |
| `MessageQueueFactory` | a lock-free pool of vectors, `numActiveQueues_` | `get`, `submit`, destructor | every thread that sends or receives |
| `MailboxEndpoint` | `queue_`, `callbacks_`, `claimed_`, `mtx_`, `cv_` | `send`, `recv`, `on`, `off`, `claim`, destructor | senders, one receiver, the factory |
| `MailboxRouter`, `MailboxSender`, `MailboxReceiver` | the endpoints by token | `claim_mailbox`, `get_mailbox`, forwarding | owners of endpoints |
| `Subsystem` | a `jthread`, `startSignal_`, the stop token | constructor, `start`, `stop`, `thrd_proc_`, destructor | its mailbox; the derived class's hooks and callbacks |
| `Interpreter`, `CoreGraphicsEngine` | Lua state; the backend | callbacks | send to `App` and to the graphics mailbox |
| main loop, `InputHandler`, windows | `done`; the size of the window | start-up, frame loop, events, shutdown | all mailboxes; the injector, which destroys everything |
| `CLIInput`, `KillableThread` | a fence on the input thread's stack | read a line, send it, wait; be killed | the Interpreter's mailbox |
| `Injector`, `TypeMap`, `TypeContainer` | recipes, instances, `isInCycleCheck_`, `typeHashStack_`, `invocationList_` | `get`, `creat`, `addRecipe`, `bindImpl`, destructor | itself, recursively, and its upstream |
| `PropertyMap`, `PropertyValue`, `Spinlock` | values by name, a lock per type and per value | `get_prop`, `set`, variants | Lua, graphics, main |
| `System`, `Component` | lists, two flags | `make_*_list`, `step` | a child injector; the application does not use them yet |
| `VulkanBackend`, `Frame`, `Swapchain`, `Pipeline`, `Shader`, `Allocator`, `SimpleMesh` | frame index, fences, semaphores, `needsResizing_`, `pipelineDirty_` | `render_frame`, `handle_resize`, `set_vertex_shader` | the GPU and the window |
| `CLIParser` | none | `parse_args`, before any thread starts | `PropertyMap` |
| loggers, clock, ImGui, type utilities | none that matters | I/O | |

What is hard in it:

* **Concurrency.** Any thread sends; `recv()` tests for emptiness without the
  mutex; callbacks run with the mutex held and send to other mailboxes; handles
  are copied while both copies are valid; the pool is shared.
* **Ownership by convention.** Vectors and managed payloads are raw pointers; who
  deletes or returns them is decided by flags, message by message.
* **Life cycle.** A `Subsystem`'s thread exists before the derived class does and
  is joined after the derived class is gone.
* **Injection.** Recursive, from several threads, with exceptions half-way.
* **The GPU.** A second actor that uses buffers, semaphores and images after the
  calls that handed them over have returned, in a window that changes meanwhile.
* **Shutdown.** Everything is destroyed in the reverse order of its creation while
  three other threads still run, one of which waits for another.

What makes each part correct:

* `MessageQueue`, the factory: a vector has one owner; a payload is deleted once;
  nothing that was allocated is lost.
* `MailboxEndpoint`: a FIFO channel of batches; no lost wakeup; nothing undefined;
  no deadlock in the wiring of the application; what is sent is handled.
* `Subsystem`: no message before construction, nothing after the join, and the
  destructor returns.
* `Injector`: one instance per type, no false cycle, destruction in reverse order,
  also with threads and exceptions.
* `PropertyMap`: one value and one type per name, never torn and never uninitialized.
* The application: a prompt after every line, a fence that is there when it is set, and
  a shutdown that ends.
* `VulkanBackend`: nothing is destroyed or recorded again while the GPU has it, a frame
  is drawn with what was asked for last, and a new size of the window takes effect.

`PROJECT.json` lists every hazard at its line, with the properties that cover it or
the reason why none does.

## 2. Modules

| Module | Models |
|---|---|
| `MessageQueue` | messages and handles: constants and operators only |
| `MessageQueueFactory` | the pool and the payloads' heap: variables, and operators that are parts of other modules' actions |
| `MailboxEndpoint` | threads that fetch, fill, send, abandon and receive MessageQueues; its `Spec` is the core of the project |
| `MailboxChannel` | the abstract specification: a mailbox is a FIFO channel of batches |
| `MailboxRefinement` | the refinement mapping from `MailboxEndpoint` to `MailboxChannel` |
| `MailboxWiring` | callbacks that send to other mailboxes: `Rank`, lock order, wait cycles |
| `Subsystem` | a `Subsystem` on top of the whole of `MailboxEndpoint` |
| `Injector` | `Injector` with its `TypeMap`: threads, recipes, children, exceptions, destruction |
| `PropertyValues` | the values of properties and the conversions of `extract_variant_`: operators only |
| `PropertyMap` | `PropertyMap`, `PropertyValue` and `Spinlock`, step by step |
| `PropertyRegisters` | the abstract specification: one register per name |
| `VulkanBackend` | the graphics thread: `VulkanBackend`, `Frame`, `Swapchain`, `Pipeline`, allocations; the GPU, the user and main |
| `ApplicationRules` | the rules that the application installs in its injector: operators only |
| `Application` | `oml_main`, the input thread and the Interpreter's thread |
| `MailboxEndpoint_proofs` | theorems and proofs: types and control, storages, payloads |
| `MailboxRefinement_proofs`, `MailboxWiring_proofs`, `Subsystem_proofs` | the same, on top of `MailboxEndpoint_proofs`: the implementation of `MailboxChannel`; waiting and locks; the life of a `Subsystem` |
| `PropertyMap_proofs`, `Injector_proofs`, `VulkanBackend_proofs`, `Application_proofs` | the same for the module of that name |
| `MCMailboxEndpoint`, `MCMailboxWiring`, `MCSubsystem`, `MCInjector`, `MCPropertyMap`, `MCVulkanBackend`, `MCApplication` | instances for TLC |

`MessageQueue` <- `MessageQueueFactory` <- `MailboxEndpoint` by EXTENDS; then
`MailboxWiring`, `MailboxRefinement` and `Subsystem` each EXTEND `MailboxEndpoint`.
`PropertyMap` EXTENDS `PropertyValues`, and `MCInjector` EXTENDS `Injector_proofs` (hence `Injector`) and `ApplicationRules`, so
that the injector is checked with the application's own rules, and these are checked to be rules that the theorems speak of. `Application` and `VulkanBackend` are about the
threads around the mailboxes and take a mailbox for what `MailboxChannel` promises, which `mailbox_channel`
checks, and `MailboxesAreChannels` proves, that it is: a sequence of MessageQueues.

### How state and actions correspond to the code

A **storage** (`MessageQueue::Storage_t`) is a number: the n-th one allocated.
`heap[s]` is its vector, `cQueue` the pool (a bag, because `ConcurrentQueue` keeps
no order across producers and nothing in `submit` stops a double enqueue; a dequeue may
also fail on a pool that is not empty, and then a storage is allocated),
`numActiveQueues_` the counter of that name. A **handle** is a record of a storage
and the two flags. Of a **message** the model keeps its type, the `MANAGED_PTR` flag and
the identity of the container its payload points to; `live` is the set of
containers that are not deleted. A trivial payload is 0.

Each **thread** has one handle in its client code (`mq[t]`), a place in `send()`
(`sendAt`) and a place in `recv()` (`recvAt`, `pos`). A callback is client code
again, with the mutex held. A call that the code rejects with a log message changes
nothing and is no step.

`send()` is three steps, because others run in between: seal; mutex, push, notify;
invalidate the original. `recv()` is: wait with the predicate (`RecvWait`,
`SpuriousWakeup`); the unlocked `empty()` (`RecvEmpty`, `RecvNonEmpty`); mutex and
`front()` (`RecvLock`); the messages one by one (`PumpSkip`, `PumpDrop`, `PumpCall`,
`CallbackReturn`, `CallbackThrow`); submit, pop and unlock (`PumpDone`).

The unlocked `empty()` is a data race with `push()`. It may return what is true now
or, until the thread has synchronised with the sender, what was true when the thread
last held the mutex: `readEmpty[t]` says whether *true* is still possible. It cannot
return *false* for a queue nobody has pushed to. `front()` on an empty queue is
undefined behaviour; the model sends the thread to the state `"undefined"`, from which
nothing follows, and `NoUndefinedFront` says it is not reached.

`Recreate` is `~MailboxEndpoint` followed by a new endpoint of the same name. It waits
until no thread is in the mailbox, as C++ requires of the caller.

A `Subsystem` adds its owner, which constructs, registers, starts, stops and destroys,
and `thrd_proc_`. A derived constructor may end with `start()` (`Complete`). `InRecv` is the receiver's part of `MailboxEndpoint` unchanged, and
the final POKE takes the same steps as any other send. `DerivedThrows` is a derived
constructor that throws; `Exit` is the `catch(...)` of `thrd_proc_`, which ends the
process.

In `Injector` a thread has a stack of **frames**, one per nested `get()` or `creat()`, and each
frame has a place in the code: `has` and `upstream` are the lookups of `get()`; `make`, `lock`,
`release` and `record` are `makeDependency_`; `find`, `recipe`, `emplace`, `insert` and `create`
are `inject_`, the recipe it runs and the `TypeMap`; `ref` and `value` are the returns. `Rules` holds
the recipes as data: the dependencies in the order in which the constructor takes
them, each by reference (`get`) or by value (`creat`), or the implementation that an interface is
bound to. `Depend` asks the injector the recipe was added to, as the closure of `addRecipe` does.
`Throw` unwinds all frames of a thread and releases its locks; it does not put the flag and the
stack of types back, because the code does not. An **instance** is named by the injector that
manages it and its type; `alive` and `refs` record which exist and what each refers to, which
the code does not keep but its destructor has to respect. A value that `creat()` made has no name: it
lives in what it was made for, and hands on what it refers to. `Serves` ties a type to the thread
that its instance owns: the destructor joins the thread when it erases the instance. It does so in `TypeMap::erase()`, with
the mutex of the map: `mtx_[i]` is set by `LockTypeMap` and cleared when `Erase` is through, and whoever looks into the map of `i`
meanwhile waits (`MapIsFree`). In its other uses that mutex is held for the one step that has it. `ApplicationRules` has
an operator for each recipe function, of the same name, that lists what the recipe asks for in that order; of the
calls of the Vulkan API in them the model keeps only that they may throw.

In `PropertyMap` a thread is in one call (`op`), at a step of it: `lock` and `find` are `mtx_` and the
lookup; `emplace` the creation of an entry; `access` an atomic load or store; `spin`, `copy`, `assign` and
`assigned` the `Spinlock` and the copy or the assignment of a string, which has a middle in which it is `Torn`.
A call by a variant holds `mtx_` to its end. `ref` is the reference that `get_prop()` returned. Integers
have `Scale` values, doubles are halves, and a string is the text of a number or a word, which is what the conversions
tell apart: a conversion wraps, truncates, saturates or is undefined (any value) as the C++ does.

In `VulkanBackend` `at` is where the graphics thread is, or main before there is one (the constructor) and after (the
destructor). Images, framebuffers, the pipeline and what a command buffer holds are represented by what they were made
from: dimensions, and the shader, bindings and push constants (`Inputs`). `memory` counts the
allocations, so that an allocation with two owners, or none, shows. `queue` is what was
submitted and not executed; `Execute` waits for the semaphore of the image and signals the fence.
`ResizeWindow` changes the window at any time, and main hears of it with its next `PumpMsgs`. A reset of the swapchain asks
for the size twice: `AskForDimensions` is `dimensions()`, which `surface` keeps and the depth image and the framebuffers get;
`BuildSwapchain` is `build()`, which takes what the surface has by then, or what was asked for. A fence that does not come
within the timeout, an acquire that times out or does not fit, and a missing shader file are choices of the steps
`Wait`, `Render` and `SetShader`. An acquire may return anything: the results that `render()` does not test for (`Tested`) count as
success, and a frame that is drawn for one of them without an image is in `unacquired` until the GPU has executed it, which
it can only when a later acquire signals the semaphore. `Throw` is an exception that leaves the thread, which ends the process. `joining` says
that main is in `TypeMap::erase()` and joins the graphics thread: `BeginDestroy` may come wherever the thread is, `Join` when it is
between two messages, and `AskForDimensions` waits for the mutex, as `injector_.get<vkb::Device>()` does.

In `Application` each thread has a place (`mainAt`, `inputAt`, `interpreterAt`). The injector's destructor appears as the order
in which main goes through the `dtor...` places, which is the reverse of that in which it got the objects. The fence of a line is
`fence`, alive while the input thread is in `send`, `wait` or `asleep`. A line is its effect: a script, or
`shutdown()`. `DestroyInput` is `pthread_kill`: before the handler is installed the signal kills the process, and a
`pthread_exit` out of code that must not throw ends it too. `UseLua` is a callback that uses `impl_` after
`~Interpreter` destroyed it: it goes on, ends the process, or never returns (`interpreterAt = "lost"`). A script that calls a Lua function
which asks the injector for something is at `"get"` until it has the mutex of the `TypeMap` (`GetInstance`), and main has that from
`DestroyStop` to `DestroyJoin` (`ErasesInterpreter`).

## 3. What the runs check

| Run | Question | Instance |
|---|---|---|
| `mailbox_safety` | Is every storage and payload owned once, and nothing undefined or lost? | 2 senders, 1 receiver whose callbacks may throw, 2 storages of 2 messages, 2 payloads |
| `mailbox_channel` | Is a mailbox a FIFO channel of batches, and is a callback's payload alive? | the same without exceptions, with pushes to sealed queues |
| `mailbox_live` | Is every queue pumped, and does every `send()` return? | 2 senders, 1 receiver, 2 storages of 1 message |
| `mailbox_wiring` | Can callbacks that send deadlock in the application? | main, graphics, interpreter and their three mailboxes |
| `subsystem` | Does the destructor return, and does the thread stay within the object's life? | worker, owner, one sender, 3 storages |
| `subsystem_early_run` (violation) | Is `onStart` kept from an object that was never constructed? | as `subsystem`, 2 storages |
| `injector` | Are instances made once and destroyed after their dependents, whatever throws? Do cycles, calls and destructors end? | the application's rules in the root, 6 of whose types may throw; 4 types of a child; main, and the Interpreter's thread |
| `injector_false_cycle` (violation) | Is a reported cycle a cycle? | 2 threads that create |
| `property_map` | Does each name have one type and one value, for references and variants? | main and the Interpreter, one name that is set and one that nobody created, integers of 2 bits |
| `application` | Is every line answered, and what may keep a shutdown from ending? | every combination of `--headless` and `--interactive`, 4 lines |
| `vulkan` | Is what the GPU uses left alone, does a new size take effect, and what may keep the destruction from ending? | 2 frames in flight, 2 sizes and a hidden window, 2 shaders, one without a file; acquires that succeed, do not fit, or fail untested |
| `vulkan_hidden` (violation) | Is a hidden window left alone? | the same, with eTimeout and eSuboptimalKHR too |

`mailbox_safety` leaves pushes to sealed queues out because they leak (see below); `mailbox_channel` leaves exceptions out because a message
whose callback throws stays in the queue, so it is not handled exactly once. No code of
the application catches such an exception and goes on: the process ends.

**Bounds.** `MaxStorages` bounds what the factory allocates: with two storages both
senders have a message queue in flight, the mailbox can hold two, one can be in the
pool while the other is being pumped, and a storage is reused, which is when aliasing
would show. `MaxBatch = 2` gives a queue with a first and a last message, one skipped
or dropped and one delivered. Two payloads let one be freed while the other is live and
an address be reused. A third sender or storage adds symmetric copies of the same
races; those invariants that could depend on the number are proved for any number
(section 4). `subsystem` has three storages so that the owner's POKE is never blocked by a
sender that keeps storages: `get()` allocates and never blocks, and `SenderClient` keeps
the bound from making it. The liveness runs use no symmetry.

`injector` has no bound but its types: those of the application, with all the rules of
`installMinimalRules`, `installDefaultRules` and `install_vk_initializer_rules`, and those of a child injector for what the
application's rules have not: a cycle that goes through `get()` and `creat()`, a concrete base class that is bound, a
dependency by value on a type of the parent, and a recipe that is added after the first `get()`. Six constructors of types that really may
throw (a window, a device, a pipeline, a fence, the `Interpreter`, a Vulkan context) may do so at any time. main
creates and the Interpreter's thread asks for what exists. `Ready` says that main asks in the order of `oml_main`.
It matters: the Interpreter's thread gets `PropertyMap` while it runs, the injector knows nothing of
that dependency, and in another order `PropertyMap` is destroyed before the thread is joined
(without `Ready` the run finds it). That each type is recorded for destruction once is a part of `InjectorTypeOK`.

`property_map`: `Scale = 4` gives the integers -2..1 and 0..3, and `MaxDouble = 9` the doubles up to 4.5, so that every
conversion meets values that fit, wrap, saturate and have a fraction. Two threads are all that the application has on
one property, and every race is between two. `Preset` are the names that `CLIParser` sets before there is a thread.
`vulkan`: `MaxInbox = 2` bounds the messages under way; the mailbox of the code has no bound, and main would be
ahead by more, but a third message only delays what the first two can already reorder. `NumFrames` is 2, for the 3 of the code
(Initializer.hpp:22): one frame is drawn while another is with the GPU, and the theorems have any number. `AcquireResults` has one result of
each kind that `Render` tells apart: an image; none, and the frame is given up; none, and it is drawn all the same. eTimeout
is of the second kind; eSuboptimalKHR, the remaining kind (an image, and the frame is given up), is left to the theorems, since it would double the states.
`application`: `MaxLines = 4` lets a line follow one whose fence was late, and one be read while main shuts down; `ReadLine` counts
empty lines too.

**Fairness.** `Progress(t)` and the owner's `RecvCall` are strongly fair. A thread inside
`send()` or `recv()` is running code, not deciding. Strong and not weak, because
it competes for a mutex that others take again and again: `std::mutex` promises no
fairness, and the model assumes the platform's scheduler provides it. `CallbackReturn`
is fair: callbacks terminate. `RecvNonEmpty` is fair on its own because the store of another
thread becomes visible to an unlocked read in the end. Client code is not fair: a thread may stop
sending at any time, or never send. In `FairSubsystemSpec` a destructor that has begun goes
on and so does the worker; nobody is obliged to begin a destructor, to start, or to
stop. In `PropertyMap` threads are scheduled (weak fairness), but neither lock is fair: `CallsReturn` therefore speaks of
a thread that the others leave alone in the end, and would find a lock that is kept. In `VulkanBackend`
main's loop, the graphics thread and the GPU go on, the latter with work whose image was acquired; nobody has to resize. In `Application` each of the three
threads goes on, strongly for the input thread, whose `send()` competes for a mutex; nobody has to type. In `Injector` a thread that is in a call goes on, and so does a destructor; one thread
takes each lock, so weak fairness is enough. `DestructorReturns` assumes senders that fall silent in the end: `recv()` returns only
when it finds the mailbox empty, so against a sender that always has the next queue there
in time the property does not hold, of the code either. It also assumes callbacks that return, as any join does; a callback that
asks the injector for something while main erases its `Subsystem` does not (below), and no `Subsystem` alone can know that.

**Liveness with exceptions.** Four properties name a case in which the code waits for ever, and say that there is no other:
`EveryCallEnds` and `EveryDestructorEnds` (`WaitsForJoiner`), `ShutdownEnds` (`JoinsInVain`) and `DestructionEnds` (`WaitsForMain` and
`unacquired`). Without the exceptions the runs find them violated. `ResizeIsApplied` has the exception of `unacquired`, too.

**Deadlock** is checked in the mailbox runs. In `subsystem` the process may exit and the
owner is done after the join, in `injector` both injectors end up destroyed, and in `vulkan` and `application` the process
ends, so there it is off. In `property_map` it is checked.

**Disagreements found** (`findings` in `PROJECT.json`), each with a run that shows it:

1. When a derived constructor throws, `~Subsystem` lets the thread run the derived class's
   `onStart` before it looks at the stop token (`subsystem_early_run`).
2. `isInCycleCheck_` is read without the mutex, so a second thread takes itself for a nested call
   and is told of a cycle that does not exist, or injects without the lock (`injector_false_cycle`). An exception
   has the same effect on the thread that sees it: the flag stays set and the types
   stay in the stack, so `get()` of a type whose recipe failed once reports a cycle ever after.
3. `handle_resize()` looks at the size of the window in order not to resize a hidden one, but `do_resize_()` asks
   the window again later and may build a swapchain of 0 x 0 (`vulkan_hidden`).

What else the models say of the code, without a run of its own:

* `TypeMap::erase()` keeps its mutex while the destructor of the instance runs (TypeMap.hpp:197-200), and that of a `Subsystem` joins its
  thread there. A thread that asks the injector for something by then waits for the mutex, and main for the thread: the process hangs.
  In `Injector` it is any call of the Interpreter's thread (`WaitsForJoiner`); in `Application` a script that calls `get_prop`, `set_prop` or `shutdown`
  (or `set_vertex_shader`, whose `get()` is of the same injector) while main shuts down (`JoinsInVain`); in `VulkanBackend` a reset of the
  swapchain, which gets the device (`WaitsForMain`). The last can also hold up a script, whose `send()` waits for the mailbox
  of a graphics thread that waits for the mutex which main has while it joins the script's thread.
* An acquire that fails with a result that `Frame::render()` does not test for (Frame.cpp:69), such as a lost surface, does not throw: the frame is
  recorded with an image index that is not initialized, its fence is reset, and what is submitted waits for a semaphore that nobody
  signals. Either a call with that index throws, or the wait for the fence times out, and the `waitIdle()` after it never returns (`unacquired`).
* `build_swapchain_()` takes the size of the window at Swapchain.cpp:147, and `build()` that of the surface at 165: when the window changes in
  between, the framebuffers and the images have different sizes, until the thread handles the message about the change (`FramesAreConsistent`).
* `recv()` looks at `empty()` before it locks and does not look again; two threads that
  receive from one mailbox reach `front()` of an empty queue, although the header calls
  the class entirely threadsafe. With the one receiver the router hands out it is
  safe, which `FrontIsDefined` proves from `SingleReceiverAssumption`.
* `push_managed_payload()` on a sealed queue leaks what it allocates (`PushManagedSealed`).
* `TypeMap::emplace()` enters an empty container before it constructs the instance in it. If
  that constructor throws, the entry stays, and the next `get()` returns a null reference. No type
  that the application gets by reference has a default constructor that throws.
* The closure of `addRecipe` ignores the injector that it is
  called with, so a child that asks for an interface bound in its parent, of which the parent has no
  instance yet, has it entered in the parent's map and then throws `std::out_of_range`;
  the documentation (Injector.hpp:36-38, 76-79) has the recipe receive the child. A concrete base class that
  is bound in the parent gets, when the child asks for it, a null entry in the child's map.
* A coercion of a string to a number that does not fit gives the end of the range, not the default that
  PropertyMap.hpp:178-181 speaks of (`Extracted`); one of a double that does not fit is undefined (`Cast`).
* A frame that is given up for eSuboptimalKHR leaves its semaphore signalled, and the next acquire gets it so (`Acquired`).
* At the end of the input `readline()` returns a null pointer, of which a string is made (`ReadLine`).
* `~Interpreter` destroys the Lua state while its thread may still run a script (`UseLua`).

## 4. What is proved

Every invariant of a passing run is a theorem, and so are the two refinements, for any values of the constants: any sets of threads, mailboxes,
types, payloads, names, injectors, rules and scripts, any wiring, widths and bounds. Where a theorem needs more than the assumptions
of its module, the table says what.

| Theorem | Property | Needs |
|---|---|---|
| `MailboxEndpoint_proofs`: `TypeCorrect` | `TypeOK` | |
| `StorageIsNotAliased` | `NoStorageAliased` | |
| `StorageIsNotLeaked` | `NoStorageLeaked` | |
| `PayloadsHaveOneOwner` | `PayloadsOwnedOnce` | `ManagedIsTaken` |
| `CallbacksFindPayloads` | `CallbackHasPayload` | `ManagedIsTaken`, `Throwers = {}` |
| `MailboxRefinement_proofs`: `MailboxesAreChannels` | `ImplementsChannel` | `Throwers = {}`, `NoMessageAssumption` |
| `MailboxWiring_proofs`: `FrontIsDefined` | `NoUndefinedFront` | `SingleReceiverAssumption` |
| `WakeupsAreNotLost` | `NoLostWakeup` | the same |
| `LocksAreOrdered` | `LockOrder` | `RankAssumption` |
| `LocksNeverCycle` | `NoLockCycle` | `RankAssumption` |
| `Subsystem_proofs`: `SubsystemIsClient` | (`SubsystemSpec` implies `Spec` of `MailboxEndpoint`) | |
| `SubsystemTypeCorrect` | `SubsystemTypeOK` | |
| `MessagesAwaitConstruction` | `NoMessageBeforeConstruction` | |
| `JoinIsFinal` | `NothingAfterJoin` | |
| `PropertyMap_proofs`: `PropertiesAreTyped` | `PropertyMapTypeOK` | |
| `StringsAreNotRaced` | `NoDataRace` | |
| `NamesKeepTheirType` | `OneTypePerName` | |
| `ReadsSeeValues` | `ReadsAreInitialized` | `PropertyMapAssumption` |
| `PropertiesAreRegisters` | `ImplementsRegisters` (safety) | `PropertyMapAssumption` |
| `Injector_proofs`: `InvariantHolds` | (the inductive invariant) | `Hypotheses` |
| `TypesAreCreatedOnce` | `InjectorTypeOK` | `Hypotheses` |
| `DestructionFollowsDependencies` | `DependenciesOutliveDependents` | `Hypotheses` |
| `ReferencesStayAlive` | `ReferencesAreAlive` | `Hypotheses` |
| `RecursionEnds` | `NoEndlessRecursion` | `Hypotheses` |
| `VulkanBackend_proofs`: `AllocationsHaveOneOwner` | `VulkanTypeOK` | |
| `WorkInFlightIsSafe` | `NothingInUseIsTouched` | |
| `FencesAreNotOrphaned` | `FencesWillSignal` | |
| `FramesAreDrawnAsAsked` | `FramesAreConsistent` | |
| `Application_proofs`: `MailboxStaysShort` | `ApplicationTypeOK` | |
| `PromptComesLast` | `PromptAfterOutput` | |
| `FenceOutlivesCallback` | `FenceIsAlive` | |

### Assumptions

The `ASSUME`s of the modules are evaluated by TLC in each run, so the instances satisfy them. Those that carry weight:

* `SingleReceiverAssumption`: no two threads receive from one mailbox, which is what `claim()` is for.
* `RankAssumption`: callbacks send to mailboxes of a lower rank only (graphics and the Interpreter's to the main loop's, and so on).
* `PropertyMapAssumption`: `get_prop()` names strings, or names that were set before the threads started; and no caller sets a
  property to a half assigned string, `Torn`, which only the model can write down.

The hypotheses of single theorems:

* `ManagedIsTaken`: no thread pushes a managed payload to a queue that it has sealed, which leaks it (section 3), and no managed type is
  one that `pump_msgs()` skips. `Throwers = {}`: after an exception the messages stay in the queue, those already handled without their
  payloads, and the next `recv()` delivers them again.
* `Hypotheses` of `Injector_proofs`, which `MCInjector` ASSUMEs of the application's rules (`RulesAreAsProved`):
  `TwoGenerations`, because a child asks only its parent whether it has an instance, so that with
  three generations an interface that is bound in a grandparent is recorded twice in a grandchild;
  `MainCreates`, because two threads that create break the injector (finding 2), and because the injector does not know what the
  Interpreter's thread asks for while it runs: it must have been created before the thread;
  `NullIsNotUsed`, because a constructor that throws out of `TypeMap::emplace()` leaves a null pointer behind. It says that
  a type with such a constructor has one dependent, in a root injector, that no child asks for: the type `vk::raii::Context` is of this
  kind. It does not say that nobody finds the null pointer; that is what `NullsInv` proves.

### Arguments

**Mailboxes.** The argument has four layers, each on the one before.

* `TypedControl` is `TypeOK` with `ControlInv`: a thread that pumps or is in a callback holds
  the mutex of its inbox, whose queue is not empty; the holder of a mutex is such a
  thread; a thread inside `send()` has a valid, sealed handle and a destination. `TypeOK`
  alone is not inductive: `Head(queue_[...])` is typed only if the queue is not empty.
* `WaitInv`: who is asleep has an empty mailbox, and who is between its unlocked `empty()` and
  its `front()` has a non-empty one. The second part is where the single receiver is used:
  nobody else pops in between. The first is inductive because `RecvWait` decides with the
  mutex free and `SendPush` wakes everyone. `LocksNeverCycle` takes a thread of the least rank in the set
  that waits for each other (`SmallestExists`, on the naturals only, so the set may be infinite): the mutex it wants is held by one of a lower rank.
* `StorageInv` is `NoStorageAliased` and `NoStorageLeaked` with two strengthenings: a storage that
  was not allocated yet is nowhere, and queued handles are valid and sealed. Without
  the second `PumpDone` might not submit what it pops; without the first `Get` might
  hand out what a thread already has. The window in `send()` in which two valid handles are on one
  storage is covered by `Holds`, which does not count a handle after its push: the proof
  shows that such a handle is never used before it is invalidated.
* `PayloadInv`: `OwnersMatch` says that the payloads that are alive and the messages that own one correspond one to one, and `PumpedBehind`
  that a thread that pumps has left no owner behind its place in the queue, so that `PumpDone` may clear it. `EmptiedBehind`, without
  exceptions, is the converse: a message whose payload is deleted is behind such a place, so no callback gets it.
  That no two threads pump one storage comes from `StorageInv`. `PayloadsOwnedOnce` counts places; the theorem maps
  them to the owners.

`MailboxesAreChannels` is on top of these. The channel of a mailbox is the sequence of its pending batches, the first without what
its receiver has taken; the message under way is the one at `pos` while a callback runs. `DeliveryInv` is what the steps need
besides: what is neither in use nor queued has been cleared (`UnusedIsEmpty`), or `get_mq()` would hand out old messages; and a callback
runs on a message that is there. A step touches one outbox (`ClientTouchesOutbox`) or one mailbox (`RecvTouchesInbox`,
`UntouchedStays`), since no storage is in two places. `RecvLock` is a stutter because what is queued can be read, so that
`pump_msgs()` starts with its first message. The freed payload of a message is not seen: it is behind `pos` by then.

**Subsystem.** `SubsystemIsClient` shows that each step of a `Subsystem` is a step of `MailboxEndpoint` or leaves its
variables alone; so every theorem about mailboxes is one about a `Subsystem` with its owner and senders. `LifeInv` relates the owner's
place to the worker's: the worker receives in its loop only (`LoopInv`), and without a derived class there is no start signal before the
stop request, so that the thread, which waits for the one, never passes the test for the other (`ConstructionInv`).

**PropertyMap.** One inductive invariant, `Inv`, of five parts.

* `Shape` types the state; that what a variant becomes has the type asked for is `CoercedFits`,
  which rests on the arithmetic of each conversion (`WrappedIsIntegral`, `ExtractedFits`) and on nothing
  about the state.
* `Locked`: who looks up or creates, or works through a variant, holds `mtx_`; who is at a string holds its
  `Spinlock`; and conversely. `NoDataRace` follows at once.
* `Decided`: a name found absent remains absent until its finder creates it, and no entry changes its type, so
  that what a thread decided under `mtx_` still holds when it uses a reference without it.
* `Referenced`: whoever got a reference by type got one to a string or to a name that was set before the
  threads started. This is where the assumption on `Typed` is used.
* `Valued`: an entry has a value, or the thread that created it is about to set one and holds `mtx_`. A reader
  that goes through a variant holds `mtx_` itself, and one with a reference cannot be at such an entry.

`PropertiesAreRegisters` shows that each step maps to a step of `PropertyRegisters` or to a stutter, with three more invariants: a string is `Torn`
exactly while one thread assigns it (`TornInv`); an entry that `set_prop_variant()` creates has no
reference to it, and nobody else at it, until it is set (`CreatedInv`), so that it may appear to the clients with its value; and who copies a string reads (`CopyInv`).
A write takes effect when its assignment begins, not when it ends, since the thread that assigns is then the only one that can
look (`SeenOnce` says that the value the clients see is unique).

**Injector.** `InjectorInv` relates the stack of calls to the maps and to the orders of creation.

* `CallsInv`: each frame by itself (`FrameInv`: what it is at is not in the map before it is made and is
  not recorded before `record`; what it has taken as arguments is recorded; `typeHashStack_` and `isInCycleCheck_` are
  set where it injects), and each pair of frames of which one called the other (`PairInv`: the caller is in its recipe, and they do not inject the same type).
* `LockInv`: who holds `injectionMtx_` has the frame that locked it on its stack, so only main does.
  (`mtx_` makes threads wait, and is in no safety property.)
* `WorkersInv`: the thread of a `Subsystem` calls only for what `Ready` had created before it, so it has one frame and makes nothing.
* `PhasesInv`: a child is destroyed before its parent, and main is in no call while it destroys.
* `MapInv`: entries point to what exists, or to null for a type whose constructor throws.
* `OrderInv`: whatever exists is recorded, except the instance that is being returned, and all it uses is recorded before
  it, or in the parent. `DependenciesOutliveDependents` is this order read backwards. What the thread of a `Subsystem` fetches
  counts as used by the `Subsystem` from the beginning (`Fetched`).

`NullsInv` is on top of these: when a constructor has thrown and left a null pointer, the one type that takes a
reference to it was being injected, is still in `typeHashStack_`, and `isInCycleCheck_` is still set (`Abandoned`), so that every
call for it throws before it can find the null pointer. The marks that an exception leaves behind, which make `get()` report false cycles,
are thus what keeps the null references from being used.

**VulkanBackend.** `VulkanInv`: `MeshesWhere` and `ImagesFit` say what exists at each place of the constructor, of `reset()` and of
the destructor; `PipelineFits` that a pipeline that is not marked dirty is the one asked for; `QueueFits` that a frame is in the GPU's
queue at most once, with its fence unsignaled, so that a wait for the fence says the frame is out of it, and that `waitIdle`
emptied the queue before the images are replaced. `FencesWillSignal` is inductive with it: an image is acquired with the semaphore of the frame
that is submitted next, and nothing takes the signal back but the execution of that frame; a frame drawn without an image is in `unacquired`.
`SizesFit` follows a change of the window: when the swapchain has another size than the framebuffers, the change is under way
(`resized`, or a message), or was handled and left `needsResizing_` set or `shouldRender_` unset, so that no frame is drawn before the swapchain
is built anew. `AtSubmit` has what follows at the one place where `FramesAreConsistent` looks.

**Application.** `ApplicationInv`: at most one line is under way (`OneLine`), from `SendLine` until the Interpreter sets the fence,
and all that time the input thread waits with the fence unset, or is killed; the one POKE is the destructor's (`OnePoke`);
and the Interpreter's thread is joined before the input thread is killed (`JoinedFirst`), which is why the fence on that thread's
stack is still there when it is set. `HandlingFits` includes the callbacks that are waiting for the injector or lost in `impl_`: the line stays
under way for as long as they are. That the mailbox never holds more than two queues, which `ApplicationTypeOK` says, follows.

Each inductive proof has one step per action. TLC checked each invariant on the instance of the run before it was proved.

**What the proofs found in the models.** `InjectorTypeOK` did not type `left` as a function, so it was not inductive. The rule that
main creates the dependencies of a thread before the thread (`Ready`) has to look for them where `get()` would find them, in the injector or its parent
(`Lineage`). Nothing else had to change.

**Only model-checked.** All liveness properties, which
are outside what the prover's temporal reasoning reaches. The properties of the three runs that expect a
violation do not hold.

## 5. What is not modelled, and the plan

Not modelled:

* loggers, `Clock`, `PrimitiveIO`, ImGui, the type utilities: there is nothing to check in them that the rest depends on;
* `System` and `Component`: the application does not use them (the TODOs of main.cpp:51 and main.cpp:57), only tests do. No definition maps to them;
* the Windows versions of the window and of `KillableThread`: those of SDL and of POSIX are modelled;
* failures of the Vulkan API, except of an acquire (any), of a swapchain or a depth image for a hidden window, and of what follows a failed
  acquire: the code checks each of the others and throws, which ends the process as those that are modelled do. The double free
  after an allocation that fails in the constructor (Swapchain.cpp:95, a hazard in `PROJECT.json`) is not modelled, since it happens while
  the exception unwinds main;
* what the fixed state of the pipeline is, what the vertices are, memory orders weaker than sequential consistency
  (the code's atomics have the default or acquire and release around one flag), and the pace of the clock.

Left out of what is modelled: the lazy creation of endpoints in `MailboxRouter::get_entry_` (under one mutex),
several factories (the id check in `submit`), the values of trivial payloads, the creation of child
injectors (they exist from the start), recipes that override others, the order in which a compiler evaluates
the arguments of a constructor (the rules list them from left to right), and what a `notify_all()` does to a fence that is no
longer there: the store is always to one that is (`FenceIsAlive`), but the input thread may see it and leave before the notification (the hazard at
Interpreter.cpp:86).

What is left of the plan: the components that `PROJECT.json` lists as partly modelled (the creation of endpoints in the router, the
window), as far as the rest comes to depend on what is left out of them. Every safety property that a passing run checks, and both
refinements, have a theorem.

## 6. Running it

    tlc -workers 2 -config MCMailbox_safety.cfg MCMailboxEndpoint
    tlc -workers 2 -config MCMailbox_wiring.cfg MCMailboxWiring
    tlc -workers 2 -config MCSubsystem.cfg MCSubsystem
    tlc -workers 2 -config MCInjector.cfg MCInjector
    tlc -workers 2 -config MCPropertyMap.cfg MCPropertyMap
    tlc -workers 2 -config MCVulkan.cfg MCVulkanBackend
    tlc -workers 2 -config MCApplication.cfg MCApplication
    tlapm MailboxEndpoint_proofs.tla
    tlapm MailboxWiring_proofs.tla
    tlapm MailboxRefinement_proofs.tla
    tlapm Subsystem_proofs.tla
    tlapm PropertyMap_proofs.tla
    tlapm Injector_proofs.tla
    tlapm VulkanBackend_proofs.tla
    tlapm Application_proofs.tla

The operators whose comment begins with "Mutation" are plausible bugs: each replaces the definition
that follows it, and `PROJECT.json` says which property then fails.
