---- MODULE VulkanBackend ----
(***************************************************************************)
(* omulator::VulkanBackend with its Frames, Swapchain and Pipeline: the      *)
(* thread of the CoreGraphicsEngine, which handles the messages that main    *)
(* and the Interpreter send, while the user resizes the window, main reports *)
(* it later, and the GPU executes what was submitted in its own time.        *)
(***************************************************************************)
EXTENDS Naturals, Sequences, FiniteSets

CONSTANTS
  NumFrames,      \* NUM_FRAMES_IN_FLIGHT
  Sizes,          \* the dimensions of a window that can be seen
  Hidden,         \* those of one that cannot, 0 x 0
  Shaders,        \* the vertex shaders that scripts name ...
  Missing,        \* ... of which these have no file
  DefaultShader, MeshShader,
  AcquireResults, \* what acquiring an image may return
  MaxInbox,       \* bounds the mailbox
  Null

ASSUME VulkanAssumption ==
  /\ NumFrames \in Nat \ {0}
  /\ Hidden \notin Sizes /\ Null \notin Sizes \cup {Hidden}
  /\ Missing \subseteq Shaders
  /\ {DefaultShader, MeshShader} \cap Missing = {}
  /\ MaxInbox \in Nat \ {0}

Frames == 0..(NumFrames - 1)

VARIABLES
  window,            \* the dimensions that the window has
  resized,           \* an event says that they have changed
  mainAt,            \* the two halves of main's loop
  joining,           \* main is in ~Subsystem, and in TypeMap::erase(), whose mutex it has
  inbox,             \* the messages for the CoreGraphicsEngine
  at,                \* what the graphics thread does next
  then,              \* where it goes on after Swapchain::reset()
  needsResizing_, shouldRender_, frameIdx_,
  surface,           \* surfaceWidth and surfaceHeight
  swapchain_, depthImage_, framebuffers_,  \* the dimensions of each, or Null
  inputs,            \* what the next pipeline is to be built from
  pipeline_,         \* what the pipeline was built from, or Null
  pipelineDirty_,
  newMesh, meshes_,  \* whether a GPUBuffer is there, and has the allocation
  memory,            \* how many allocations of each kind the Allocator has out
  recorded,          \* what the command buffer holds that is to be submitted
  queue,             \* what the GPU has still to execute
  fence_,
  presentSemaphore_, \* signaled, or will be, since an image was acquired with it
  unacquired,        \* the frames that are recorded or submitted without an image
  exited

windowVars == <<window, resized, mainAt, joining>>
swapchainVars == <<surface, swapchain_, depthImage_, framebuffers_>>
pipelineVars == <<inputs, pipeline_, pipelineDirty_>>
meshVars == <<newMesh, meshes_>>
gpuVars == <<queue, fence_, presentSemaphore_, unacquired>>
flagVars == <<needsResizing_, shouldRender_, frameIdx_>>
vars == <<windowVars, inbox, at, then, flagVars, swapchainVars, pipelineVars,
          meshVars, memory, recorded, gpuVars, exited>>

Dimensions == Sizes \cup {Hidden}
Inputs == [shader : Shaders \cup {DefaultShader, MeshShader},
           bindings : BOOLEAN, pushConstants : BOOLEAN]
Messages == [type : {"RENDER_FRAME", "HANDLE_RESIZE"}]
            \cup [type : {"SET_VERTEX_SHADER"}, shader : Shaders]
Recording == [pipeline : Inputs \cup {Null}, viewport : Dimensions \cup {Null},
              framebuffer : Dimensions \cup {Null}]

Constructing == {"frames", "load", "move", "drop", "bind", "shader", "upload", "push"}
Resetting == {"build", "extent", "depth"}
Rendering == {"rebuildIdle", "rebuild", "wait", "resizeIdle", "render", "submit"}
Destroying == {"dtorIdle", "dtorMeshes", "dtorPipeline", "dtorSwapchain", "gone"}

ControlTypes ==
  /\ window \in Dimensions /\ resized \in BOOLEAN /\ mainAt \in {"pump", "render"}
  /\ joining \in BOOLEAN
  /\ inbox \in Seq(Messages) /\ Len(inbox) <= MaxInbox
  /\ at \in {"idle"} \cup Constructing \cup Resetting \cup Rendering \cup Destroying
  /\ then \in {"frames", "render"}
  /\ needsResizing_ \in BOOLEAN /\ shouldRender_ \in BOOLEAN /\ frameIdx_ \in Frames
  /\ exited \in BOOLEAN

ImageTypes ==
  /\ surface \in Dimensions
  /\ {swapchain_, depthImage_, framebuffers_} \subseteq Dimensions \cup {Null}

PipelineTypes ==
  /\ inputs \in Inputs /\ pipeline_ \in Inputs \cup {Null} /\ pipelineDirty_ \in BOOLEAN
  /\ recorded \in Recording \cup {Null}

GpuTypes ==
  /\ queue \in Seq(Frames) /\ Len(queue) <= NumFrames
  /\ fence_ \in [Frames -> BOOLEAN]
  /\ presentSemaphore_ \in [Frames -> BOOLEAN]
  /\ unacquired \subseteq Frames

\* Every allocation has one owner, across the moves of a GPUBuffer
\* (GPUBuffer.hpp:50-70) and the re-creation of the depth image: none is freed
\* twice, and none is left.
OneOwner ==
  /\ {newMesh, meshes_} \subseteq {"none", "valid", "moved"}
  /\ memory \in [{"depth", "mesh"} -> Nat]
  /\ ~exited => /\ memory.depth = IF depthImage_ # Null THEN 1 ELSE 0
                /\ memory.mesh = IF {newMesh, meshes_} \cap {"valid"} # {} THEN 1 ELSE 0

\* One type invariant: what the variables hold, and who owns what is allocated.
VulkanTypeOK == ControlTypes /\ ImageTypes /\ PipelineTypes /\ GpuTypes /\ OneOwner

\* The Allocator's two alloc() and its two free().
Allocated(kind) == [memory EXCEPT ![kind] = @ + 1]
Freed(kind) == [memory EXCEPT ![kind] = @ - 1]

\* Swapchain's constructor, which builds what reset() builds.
SwapchainInit ==
  /\ surface = window /\ swapchain_ = window
  /\ depthImage_ = window /\ framebuffers_ = window
  /\ memory = [depth |-> 1, mesh |-> 0]

\* Pipeline's constructor: no vertex input and no push constants yet, the default
\* shaders, and a first pipeline of these.
PipelineInit ==
  /\ inputs = [shader |-> DefaultShader, bindings |-> FALSE, pushConstants |-> FALSE]
  /\ pipeline_ = inputs /\ pipelineDirty_ = FALSE

\* The Swapchain and the Pipeline have been constructed, and main, which has
\* shown the window, is at the beginning of VulkanBackend's constructor.
Init ==
  /\ window \in Sizes
  /\ resized = FALSE /\ mainAt = "pump" /\ joining = FALSE /\ inbox = <<>>
  /\ at = "build" /\ then = "frames"
  /\ needsResizing_ = FALSE /\ shouldRender_ = FALSE /\ frameIdx_ = 0
  /\ SwapchainInit
  /\ PipelineInit
  /\ newMesh = "none" /\ meshes_ = "none"
  /\ recorded = Null
  /\ queue = <<>>
  /\ fence_ = [f \in Frames |-> TRUE]
  /\ presentSemaphore_ = [f \in Frames |-> FALSE]
  /\ unacquired = {}
  /\ exited = FALSE

-----------------------------------------------------------------------------
(* The user, main and the Interpreter. *)

\* The window takes other dimensions at any time; main hears of it later.
ResizeWindow ==
  /\ at \notin Destroying
  /\ \E d \in Dimensions \ {window} : window' = d
  /\ resized' = TRUE
  /\ UNCHANGED <<mainAt, joining, inbox, at, then, flagVars, swapchainVars, pipelineVars,
                 meshVars, memory, recorded, gpuVars, exited>>

\* CoreGraphicsEngine has been constructed and started, and is not being destroyed.
Running == at \notin Constructing \cup Destroying /\ meshes_ = "valid" /\ ~joining

Send(message) ==
  /\ Running
  /\ Len(inbox) < MaxInbox
  /\ inbox' = Append(inbox, message)
  /\ UNCHANGED <<window, joining, at, then, flagVars, swapchainVars, pipelineVars, meshVars,
                 memory, recorded, gpuVars, exited>>

\* pump_msgs(), and the InputHandler.
PumpMsgs ==
  /\ mainAt = "pump"
  /\ mainAt' = "render"
  /\ \/ resized /\ Send([type |-> "HANDLE_RESIZE"]) /\ resized' = FALSE
     \/ /\ ~resized /\ Running
        /\ UNCHANGED <<window, resized, joining, inbox, at, then, flagVars, swapchainVars,
                       pipelineVars, meshVars, memory, recorded, gpuVars, exited>>

SendRenderFrame ==
  /\ mainAt = "render"
  /\ Send([type |-> "RENDER_FRAME"])
  /\ mainAt' = "pump"
  /\ UNCHANGED resized

\* The Lua function set_vertex_shader.  For MaxInbox not to keep main from
\* sending, one such message is under way at a time.
SendVertexShader ==
  /\ \A n \in DOMAIN inbox : inbox[n].type # "SET_VERTEX_SHADER"
  /\ \E s \in Shaders : Send([type |-> "SET_VERTEX_SHADER", shader |-> s])
  /\ UNCHANGED <<resized, mainAt>>

-----------------------------------------------------------------------------
(* The GPU and the presentation engine. *)

\* The submission at the head of the queue runs when the image of its semaphore is
\* available, and signals its fence.
Execute ==
  /\ queue # <<>>
  /\ LET f == Head(queue) IN
     /\ presentSemaphore_[f]
     /\ presentSemaphore_' = [presentSemaphore_ EXCEPT ![f] = FALSE]
     /\ fence_' = [fence_ EXCEPT ![f] = TRUE]
     /\ unacquired' = unacquired \ {f}
  /\ queue' = Tail(queue)
  /\ UNCHANGED <<windowVars, inbox, at, then, flagVars, swapchainVars, pipelineVars, meshVars,
                 memory, recorded, exited>>

-----------------------------------------------------------------------------
\* What the graphics thread, or main in the constructor, leaves to others.
Environment == <<windowVars, presentSemaphore_>>

\* What submitting to the GPU changes.
submitVars == <<queue, fence_, unacquired>>

Goto(from, to) == ~exited /\ at = from /\ at' = to /\ UNCHANGED Environment

\* An exception leaves the thread and ends the process.
Throw == ~exited /\ exited' = TRUE /\ UNCHANGED <<Environment, at>>

\* waitIdle().
WaitForIdle(from, to) ==
  /\ Goto(from, to)
  /\ queue = <<>>
  /\ UNCHANGED <<inbox, then, flagVars, swapchainVars, pipelineVars, meshVars, memory, recorded,
                 submitVars, exited>>

-----------------------------------------------------------------------------
(* Swapchain::reset(), which the constructor calls too. *)

\* clear_(), and the dimensions of the window at this moment.  Before it asks for these,
\* the thread gets the device from the injector, with the mutex that main has while it
\* joins this very thread.
AskForDimensions ==
  /\ Goto("build", "extent")
  /\ ~joining
  /\ surface' = window
  /\ swapchain_' = Null /\ framebuffers_' = Null
  /\ UNCHANGED <<inbox, then, flagVars, depthImage_, pipelineVars, meshVars, memory, recorded,
                 submitVars, exited>>

\* build(), and the image views: a swapchain of the dimensions that the surface has by
\* now, or of those asked for where the surface leaves the choice.  The driver may refuse
\* those of a window that is hidden.
BuildSwapchain ==
  /\ \/ /\ Goto("extent", "depth")
        /\ swapchain_' \in {surface, window}
        /\ UNCHANGED exited
     \/ /\ at = "extent" /\ Hidden \in {surface, window}
        /\ Throw
        /\ UNCHANGED swapchain_
  /\ UNCHANGED <<inbox, then, flagVars, surface, depthImage_, framebuffers_, pipelineVars,
                 meshVars, memory, recorded, submitVars>>

\* The image of other dimensions replaces the one that is there; the framebuffers
\* are made of it, and do_resize_() puts needsResizing_ back.  The Allocator
\* refuses an image without an extent, after the old one is gone.
BuildDepthImage ==
  /\ \/ /\ Goto("depth", then)
        /\ surface # Hidden
        /\ depthImage_' = surface /\ framebuffers_' = surface
        /\ needsResizing_' = FALSE
        /\ UNCHANGED <<memory, exited>>
     \/ /\ at = "depth" /\ surface = Hidden
        /\ Throw
        /\ memory' = Freed("depth")
        /\ UNCHANGED <<depthImage_, framebuffers_, needsResizing_>>
  /\ UNCHANGED <<inbox, then, shouldRender_, frameIdx_, surface, swapchain_, pipelineVars,
                 meshVars, recorded, submitVars>>

-----------------------------------------------------------------------------
(* The rest of VulkanBackend's constructor. *)

CreateFrames ==
  /\ Goto("frames", "load")
  /\ shouldRender_' = TRUE
  /\ UNCHANGED <<inbox, then, needsResizing_, frameIdx_, swapchainVars, pipelineVars, meshVars,
                 memory, recorded, submitVars, exited>>

\* load_obj(): a GPUBuffer of the size of the mesh, unless the file cannot be
\* parsed or has no vertex.
LoadMesh ==
  /\ \/ /\ Goto("load", "move")
        /\ newMesh' = "valid"
        /\ memory' = Allocated("mesh")
        /\ UNCHANGED exited
     \/ at = "load" /\ Throw /\ UNCHANGED <<newMesh, memory>>
  /\ UNCHANGED <<inbox, then, flagVars, swapchainVars, pipelineVars, meshes_, recorded,
                 submitVars>>

\* Mutation: the GPUBuffer that is moved from keeps its allocation.
MoveMeshShared ==
  /\ Goto("move", "drop")
  /\ meshes_' = "valid"
  /\ UNCHANGED <<inbox, then, flagVars, swapchainVars, pipelineVars, newMesh, memory, recorded,
                 submitVars, exited>>

\* GPUBuffer(GPUBuffer &&), into the vector.
MoveMesh ==
  /\ Goto("move", "drop")
  /\ meshes_' = "valid"
  /\ newMesh' = "moved"
  /\ UNCHANGED <<inbox, then, flagVars, swapchainVars, pipelineVars, memory, recorded,
                 submitVars, exited>>

\* ~GPUBuffer of the one that was moved from.
DropMesh ==
  /\ Goto("drop", "bind")
  /\ memory' = IF newMesh = "valid" THEN Freed("mesh") ELSE memory
  /\ newMesh' = "none"
  /\ UNCHANGED <<inbox, then, flagVars, swapchainVars, pipelineVars, meshes_, recorded,
                 submitVars, exited>>

\* The pipeline is not marked as changed.
SetVertexBindingAttrs ==
  /\ Goto("bind", "shader")
  /\ inputs' = [inputs EXCEPT !.bindings = TRUE]
  /\ UNCHANGED <<inbox, then, flagVars, swapchainVars, pipeline_, pipelineDirty_, meshVars,
                 memory, recorded, submitVars, exited>>

\* Mutation: the change of a shader is not marked.
SetShaderQuietly(s) ==
  /\ inputs' = IF s \in Missing THEN inputs ELSE [inputs EXCEPT !.shader = s]
  /\ UNCHANGED <<pipeline_, pipelineDirty_>>

\* Pipeline::set_shader(): a shader whose file cannot be read is dropped.
SetShader(s) ==
  /\ inputs' = IF s \in Missing THEN inputs ELSE [inputs EXCEPT !.shader = s]
  /\ pipelineDirty_' = TRUE
  /\ UNCHANGED pipeline_

SetFirstShader ==
  /\ Goto("shader", "upload")
  /\ SetShader(MeshShader)
  /\ UNCHANGED <<inbox, then, flagVars, swapchainVars, meshVars, memory, recorded, submitVars,
                 exited>>

\* upload() maps the memory of a GPUBuffer that is valid.
Upload ==
  /\ Goto("upload", "push")
  /\ meshes_ = "valid"
  /\ UNCHANGED <<inbox, then, flagVars, swapchainVars, pipelineVars, meshVars, memory, recorded,
                 submitVars, exited>>

SetPushConstant ==
  /\ Goto("push", "idle")
  /\ inputs' = [inputs EXCEPT !.pushConstants = TRUE]
  /\ pipelineDirty_' = TRUE
  /\ UNCHANGED <<inbox, then, flagVars, swapchainVars, pipeline_, meshVars, memory, recorded,
                 submitVars, exited>>

-----------------------------------------------------------------------------
(* The callbacks of the CoreGraphicsEngine. *)

Received(type) == at = "idle" /\ inbox # <<>> /\ Head(inbox).type = type

\* Mutation: a window that comes back is rendered to as it was before.
HandleResizeLate ==
  /\ Received("HANDLE_RESIZE")
  /\ Goto("idle", "idle")
  /\ inbox' = Tail(inbox)
  /\ shouldRender_' = (window # Hidden)
  /\ needsResizing_' = (needsResizing_ \/ (window # Hidden /\ shouldRender_))
  /\ UNCHANGED <<then, frameIdx_, swapchainVars, pipelineVars, meshVars, memory, recorded,
                 submitVars, exited>>

HandleResize ==
  /\ Received("HANDLE_RESIZE")
  /\ Goto("idle", "idle")
  /\ inbox' = Tail(inbox)
  /\ shouldRender_' = (window # Hidden)
  /\ needsResizing_' = (needsResizing_ \/ window # Hidden)
  /\ UNCHANGED <<then, frameIdx_, swapchainVars, pipelineVars, meshVars, memory, recorded,
                 submitVars, exited>>

SetVertexShader ==
  /\ Received("SET_VERTEX_SHADER")
  /\ Goto("idle", "idle")
  /\ inbox' = Tail(inbox)
  /\ SetShader(Head(inbox).shader)
  /\ UNCHANGED <<then, flagVars, swapchainVars, meshVars, memory, recorded, submitVars, exited>>

\* render_frame() after the test of dirty().
IfShown == IF shouldRender_ THEN "wait" ELSE "idle"

RenderFrame ==
  /\ Received("RENDER_FRAME")
  /\ Goto("idle", IF pipelineDirty_ THEN "rebuildIdle" ELSE IfShown)
  /\ inbox' = Tail(inbox)
  /\ UNCHANGED <<then, flagVars, swapchainVars, pipelineVars, meshVars, memory, recorded,
                 submitVars, exited>>

RebuildIdle == WaitForIdle("rebuildIdle", "rebuild")

RebuildPipeline ==
  /\ Goto("rebuild", IfShown)
  /\ pipeline_' = inputs
  /\ pipelineDirty_' = FALSE
  /\ UNCHANGED <<inbox, then, flagVars, swapchainVars, inputs, meshVars, memory, recorded,
                 submitVars, exited>>

\* Mutation: a frame whose fence timed out is rendered again.
WaitTolerant ==
  /\ Goto("wait", IF needsResizing_ THEN "resizeIdle" ELSE "render")
  /\ then' = "render"
  /\ UNCHANGED <<inbox, flagVars, swapchainVars, pipelineVars, meshVars, memory, recorded,
                 submitVars, exited>>

\* Frame::wait(): the fence, or a timeout, after which the swapchain is reset.
Wait ==
  /\ \/ fence_[frameIdx_] /\ Goto("wait", IF needsResizing_ THEN "resizeIdle" ELSE "render")
     \/ ~fence_[frameIdx_] /\ Goto("wait", "resizeIdle")
  /\ then' = "render"
  /\ UNCHANGED <<inbox, flagVars, swapchainVars, pipelineVars, meshVars, memory, recorded,
                 submitVars, exited>>

ResizeIdle == WaitForIdle("resizeIdle", "build")

\* The viewport and the scissor that update_dynamic_state() computes.
Viewport == surface

\* The end of the block in render_frame().
NextFrame(needsResizing) ==
  /\ needsResizing_' = needsResizing
  /\ frameIdx_' = (frameIdx_ + 1) % NumFrames
  /\ UNCHANGED shouldRender_

\* The results that render() tests for.
Tested == {"eTimeout", "eSuboptimalKHR", "eErrorOutOfDateKHR"}

\* Mutation: the image is acquired with a semaphore of which the submission knows nothing.
AcquiredElsewhere(f, result) == UNCHANGED presentSemaphore_

\* With an image the semaphore will be signaled, although the frame is given up if the
\* image does not fit; the semaphore of such a frame is handed out again as it is.
Acquired(f, result) ==
  presentSemaphore_' =
    IF result \in {"eSuccess", "eSuboptimalKHR"} THEN [presentSemaphore_ EXCEPT ![f] = TRUE]
    ELSE presentSemaphore_

GiveUpFrame(result) ==
  /\ result \in Tested
  /\ at' = "idle"
  /\ NextFrame(TRUE)
  /\ UNCHANGED <<recorded, unacquired>>

\* resetFences() and recordBuff_().  Whatever is not tested for counts as success;
\* without an image its index is not initialized.
RecordFrame(result) ==
  /\ result \notin Tested
  /\ at' = "submit"
  /\ recorded' = [pipeline |-> pipeline_, viewport |-> Viewport, framebuffer |-> framebuffers_]
  /\ unacquired' = IF result = "eSuccess" THEN unacquired ELSE unacquired \cup {frameIdx_}
  /\ UNCHANGED flagVars

\* Mutation: the fence is reset before the image is acquired.
RenderFenceFirst ==
  /\ ~exited /\ at = "render" /\ UNCHANGED windowVars
  /\ fence_' = [fence_ EXCEPT ![frameIdx_] = FALSE]
  /\ \E result \in AcquireResults :
       Acquired(frameIdx_, result) /\ (GiveUpFrame(result) \/ RecordFrame(result))
  /\ UNCHANGED <<inbox, then, swapchainVars, pipelineVars, meshVars, memory, queue, exited>>

\* Frame::render() up to submit_().
Render ==
  /\ ~exited /\ at = "render" /\ UNCHANGED windowVars
  /\ \E result \in AcquireResults :
       /\ Acquired(frameIdx_, result)
       /\ \/ GiveUpFrame(result) /\ UNCHANGED fence_
          \/ RecordFrame(result) /\ fence_' = [fence_ EXCEPT ![frameIdx_] = FALSE]
  /\ UNCHANGED <<inbox, then, swapchainVars, pipelineVars, meshVars, memory, queue, exited>>

\* submit_() and present_(), which tolerates a swapchain that does not fit.  Without an
\* image they may throw, as framebuffer() may have done before.
Submit ==
  /\ \/ /\ Goto("submit", "idle")
        /\ queue' = Append(queue, frameIdx_)
        /\ recorded' = Null
        /\ NextFrame(needsResizing_)
        /\ UNCHANGED exited
     \/ /\ at = "submit" /\ frameIdx_ \in unacquired
        /\ Throw
        /\ UNCHANGED <<queue, recorded, flagVars>>
  /\ UNCHANGED <<inbox, then, swapchainVars, pipelineVars, meshVars, memory, fence_,
                 unacquired>>

-----------------------------------------------------------------------------
(* The end: ~CoreGraphicsEngine, ~VulkanBackend and the destructors after it. *)

\* main has left its loop, and erases the CoreGraphicsEngine from the TypeMap, whose mutex
\* it keeps until the thread has ended.  The thread is asked to stop, wherever it is.
BeginDestroy ==
  /\ ~exited /\ Running /\ mainAt = "pump"
  /\ joining' = TRUE
  /\ UNCHANGED <<window, resized, mainAt, inbox, at, then, flagVars, swapchainVars,
                 pipelineVars, meshVars, memory, recorded, gpuVars, exited>>

\* The thread sees that it is to stop after it has emptied the mailbox, or between two
\* calls of recv(): what came since is dropped.
Join ==
  /\ ~exited /\ at = "idle" /\ joining
  /\ at' = "dtorIdle"
  /\ joining' = FALSE
  /\ inbox' = <<>> /\ resized' = FALSE
  /\ UNCHANGED <<window, mainAt, then, flagVars, swapchainVars, pipelineVars, meshVars,
                 memory, recorded, gpuVars, exited>>

DestroyIdle == WaitForIdle("dtorIdle", "dtorMeshes")

DestroyMeshes ==
  /\ Goto("dtorMeshes", "dtorPipeline")
  /\ memory' = IF meshes_ = "valid" THEN Freed("mesh") ELSE memory
  /\ meshes_' = "none"
  /\ UNCHANGED <<inbox, then, flagVars, swapchainVars, pipelineVars, newMesh, recorded,
                 submitVars, exited>>

DestroyPipeline ==
  /\ Goto("dtorPipeline", "dtorSwapchain")
  /\ pipeline_' = Null
  /\ UNCHANGED <<inbox, then, flagVars, swapchainVars, inputs, pipelineDirty_, meshVars, memory,
                 recorded, submitVars, exited>>

DestroySwapchain ==
  /\ Goto("dtorSwapchain", "gone")
  /\ memory' = IF depthImage_ # Null THEN Freed("depth") ELSE memory
  /\ depthImage_' = Null /\ framebuffers_' = Null /\ swapchain_' = Null
  /\ UNCHANGED <<inbox, then, flagVars, surface, pipelineVars, meshVars, recorded, submitVars,
                 exited>>

-----------------------------------------------------------------------------
ResetStep == AskForDimensions \/ BuildSwapchain \/ BuildDepthImage

ConstructorStep ==
  \/ CreateFrames
  \/ LoadMesh
  \/ MoveMesh
  \/ DropMesh
  \/ SetVertexBindingAttrs
  \/ SetFirstShader
  \/ Upload
  \/ SetPushConstant

RenderStep ==
  \/ RenderFrame
  \/ RebuildIdle
  \/ RebuildPipeline
  \/ Wait
  \/ ResizeIdle
  \/ Render
  \/ Submit

DestructorStep ==
  \/ Join
  \/ DestroyIdle
  \/ DestroyMeshes
  \/ DestroyPipeline
  \/ DestroySwapchain

GraphicsStep ==
  \/ ResetStep
  \/ ConstructorStep
  \/ HandleResize
  \/ SetVertexShader
  \/ RenderStep
  \/ DestructorStep

MainStep == ~exited /\ (PumpMsgs \/ SendRenderFrame)

Next ==
  \/ ~exited /\ (ResizeWindow \/ SendVertexShader)
  \/ MainStep
  \/ ~exited /\ Execute
  \/ GraphicsStep
  \/ BeginDestroy

\* main's loop and the graphics thread run, and the GPU makes progress.
Fairness ==
  /\ WF_vars(MainStep)
  /\ WF_vars(GraphicsStep)
  /\ WF_vars(Execute)

Spec == Init /\ [][Next]_vars /\ Fairness

-----------------------------------------------------------------------------
\* Nothing that the GPU may still use is destroyed or recorded anew: waitIdle()
\* and the fences cover a pipeline that is rebuilt, a swapchain that is reset,
\* timeouts, and the destructor (VulkanBackend.cpp:75, 145-149).
NothingInUseIsTouched ==
  /\ at \in {"rebuild", "dtorMeshes", "dtorPipeline", "dtorSwapchain"} \cup Resetting =>
       queue = <<>>
  /\ at \in {"render", "submit"} =>
       \A n \in DOMAIN queue : queue[n] # frameIdx_

\* The fence of a frame is only ever unsignaled while there is work that will signal it
\* (Frame.cpp:75), and the semaphore that the work waits for has been signaled or will be;
\* else every later wait() of the frame would time out, and every waitIdle() hang.  The
\* one exception is a frame whose acquire failed in a way that render() does not test for.
FencesWillSignal ==
  \A f \in Frames : ~fence_[f] =>
    /\ \/ \E n \in DOMAIN queue : queue[n] = f
       \/ at = "submit" /\ frameIdx_ = f
    /\ f \in unacquired \/ presentSemaphore_[f]

\* The window has changed, and the graphics thread has still to hear of it.
ResizeUnderWay == resized \/ \E n \in DOMAIN inbox : inbox[n].type = "HANDLE_RESIZE"

\* A frame is drawn with the pipeline that the messages so far ask for, for the
\* dimensions of its framebuffer and depth image, not those the window has by now
\* (Pipeline.cpp:208-210).  The images of the swapchain may have others (Swapchain.cpp:147
\* and 165 ask twice), but only until the thread hears of the change in between.
FramesAreConsistent ==
  at = "submit" => /\ recorded.pipeline = inputs
                   /\ recorded.viewport = recorded.framebuffer
                   /\ recorded.framebuffer = depthImage_
                   /\ recorded.framebuffer = swapchain_ \/ ResizeUnderWay

\* A window that keeps its dimensions is rendered to in these in the end, however
\* often it changed before, while messages were under way, or was hidden; unless the GPU
\* waits for an image that was never acquired.
ResizeIsApplied ==
  \A d \in Sizes :
    <>[](window = d /\ Running /\ ~exited /\ unacquired = {})
      => <>[]({framebuffers_, swapchain_} \subseteq {d, Null})

\* When main destroys the CoreGraphicsEngine everything is destroyed in the end,
\* whatever the thread was doing and the GPU has still to do; unless the GPU waits as
\* above, or the thread has begun to reset the swapchain and waits for the mutex that main
\* has while it joins it (Swapchain.cpp:144, TypeMap.hpp:198).
BeingDestroyed == ~exited /\ (joining \/ at \in Destroying \ {"gone"})
WaitsForMain == joining /\ at = "build"
DestructionEnds == ~<>[](BeingDestroyed /\ ~WaitsForMain /\ unacquired = {})

\* "The window is minimized or otherwise not visible; don't resize and don't
\* render" (VulkanBackend.cpp:87): a frame never has the swapchain built for such
\* a window.
HiddenWindowIsNotResized ==
  at = "depth" /\ then = "render" => Hidden \notin {surface, swapchain_}
=============================================================================
