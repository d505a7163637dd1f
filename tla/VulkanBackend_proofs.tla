---- MODULE VulkanBackend_proofs ----
(***************************************************************************)
(* Theorems about VulkanBackend, for any number of frames in flight, sizes   *)
(* of the window, shaders and results of the driver.                         *)
(***************************************************************************)
EXTENDS VulkanBackend, FiniteSetTheorems, TLAPS

-----------------------------------------------------------------------------
(* The inductive invariant. *)

\* Only the constructor, the reset of the swapchain and the submission throw.
ThrowsWhere == exited => at \in {"extent", "depth", "load", "submit"}

\* Which GPUBuffers there are, as the constructor and the destructor go on.
MeshesWhere ==
  /\ at \in {"frames", "load"} \/ (at \in Resetting /\ then = "frames") =>
       newMesh = "none" /\ meshes_ = "none"
  /\ at = "move" => newMesh = "valid" /\ meshes_ = "none"
  /\ at = "drop" => newMesh = "moved" /\ meshes_ = "valid"
  /\ \/ at \in {"bind", "shader", "upload", "push", "idle", "dtorIdle", "dtorMeshes"}
     \/ at \in Rendering
     \/ at \in Resetting /\ then = "render"
     => newMesh = "none" /\ meshes_ = "valid"
  /\ at \in {"dtorPipeline", "dtorSwapchain", "gone"} =>
       newMesh = "none" /\ meshes_ = "none"
  /\ at = "resizeIdle" => then = "render"

\* Outside reset() the framebuffers and the depth image have one size.
ImagesFit ==
  /\ depthImage_ # Null <=> at # "gone"
  /\ at \notin {"extent", "depth", "gone"} /\ ~exited =>
       framebuffers_ = depthImage_ /\ surface = depthImage_

\* The window, the swapchain and its framebuffers have the same size, or the thread has
\* still to hear of it, or it has heard and will not render before it has done something
\* about it.
SizesFit ==
  /\ at = "extent" /\ window # surface => ResizeUnderWay
  /\ at = "depth" /\ swapchain_ # surface => ResizeUnderWay
  /\ at \in Constructing /\ swapchain_ # framebuffers_ => ResizeUnderWay
  /\ at \in {"idle"} \cup Rendering /\ swapchain_ # framebuffers_ =>
       needsResizing_ \/ ~shouldRender_ \/ ResizeUnderWay
  /\ \/ at \in {"wait", "resizeIdle", "render", "submit"}
     \/ at \in Resetting /\ then = "render"
     => shouldRender_
  /\ at \in {"render", "submit"} => ~needsResizing_

\* A pipeline that is not marked is the one that was asked for, and it is not
\* marked any more when a frame begins.
PipelineFits ==
  /\ ~pipelineDirty_ /\ at \notin {"shader", "dtorSwapchain", "gone"} => pipeline_ = inputs
  /\ \/ at \in {"wait", "resizeIdle", "render", "submit"}
     \/ at \in Resetting /\ then = "render"
     => ~pipelineDirty_

\* A frame is at most once in the queue, and its fence is unsignaled until then.
QueueFits ==
  /\ \A i, j \in 1..Len(queue) : queue[i] = queue[j] => i = j
  /\ \A i \in 1..Len(queue) : ~fence_[queue[i]]
  /\ at = "submit" => ~fence_[frameIdx_]

VulkanInv ==
  /\ VulkanTypeOK
  /\ ThrowsWhere
  /\ MeshesWhere
  /\ ImagesFit
  /\ SizesFit
  /\ PipelineFits
  /\ QueueFits
  /\ NothingInUseIsTouched
  /\ FencesWillSignal
  /\ FramesAreConsistent

-----------------------------------------------------------------------------

LEMMA ThrowsStep ==
  ASSUME VulkanInv, Next
  PROVE  ThrowsWhere'
  <1> USE DEF VulkanInv, ThrowsWhere
  <1>1. CASE ResetStep
    BY <1>1
    DEF ResetStep, AskForDimensions, BuildSwapchain, BuildDepthImage, Goto, Throw,
        Environment, gpuVars
  <1>2. CASE ConstructorStep
    BY <1>2
    DEF ConstructorStep, CreateFrames, LoadMesh, MoveMesh, DropMesh,
        SetVertexBindingAttrs, SetFirstShader, SetShader, Upload, SetPushConstant,
        Goto, Throw, Environment, gpuVars
  <1>3. CASE HandleResize \/ SetVertexShader
    BY <1>3
    DEF HandleResize, SetVertexShader, SetShader, Received, Goto, Environment, gpuVars
  <1>4. CASE RenderStep
    BY <1>4
    DEF RenderStep, RenderFrame, RebuildIdle, RebuildPipeline, Wait, ResizeIdle,
        Render, Submit, GiveUpFrame, RecordFrame, NextFrame, WaitForIdle, IfShown, Throw,
        Received, Goto, Environment, gpuVars
  <1>5. CASE DestructorStep
    BY <1>5
    DEF DestructorStep, Join, DestroyIdle, DestroyMeshes, DestroyPipeline,
        DestroySwapchain, WaitForIdle, Goto, Environment, gpuVars
  <1>6. CASE BeginDestroy
    BY <1>6
    DEF BeginDestroy, gpuVars
  <1>7. CASE ResizeWindow \/ SendVertexShader \/ MainStep
    BY <1>7
    DEF ResizeWindow, SendVertexShader, MainStep, PumpMsgs, SendRenderFrame, Send, gpuVars
  <1>8. CASE Execute
    BY <1>8
    DEF Execute, gpuVars
  <1> QED
    BY <1>1, <1>2, <1>3, <1>4, <1>5, <1>6, <1>7, <1>8 DEF Next, GraphicsStep

LEMMA MeshesStep ==
  ASSUME VulkanInv, Next
  PROVE  MeshesWhere'
  <1> USE DEF VulkanInv, MeshesWhere, Resetting, Rendering, VulkanTypeOK, ControlTypes
  <1>1. CASE ResetStep
    BY <1>1
    DEF ResetStep, AskForDimensions, BuildSwapchain, BuildDepthImage, Goto, Throw,
        Environment, meshVars
  <1>2. CASE ConstructorStep
    BY <1>2
    DEF ConstructorStep, CreateFrames, LoadMesh, MoveMesh, DropMesh,
        SetVertexBindingAttrs, SetFirstShader, SetShader, Upload, SetPushConstant,
        Goto, Throw, Environment, meshVars
  <1>3. CASE HandleResize \/ SetVertexShader
    BY <1>3
    DEF HandleResize, SetVertexShader, SetShader, Received, Goto, Environment, meshVars
  <1>4. CASE RenderStep
    BY <1>4
    DEF RenderStep, RenderFrame, RebuildIdle, RebuildPipeline, Wait, ResizeIdle,
        Render, Submit, GiveUpFrame, RecordFrame, NextFrame, WaitForIdle, IfShown, Throw,
        Received, Goto, Environment, meshVars
  <1>5. CASE DestructorStep
    BY <1>5
    DEF DestructorStep, Join, DestroyIdle, DestroyMeshes, DestroyPipeline,
        DestroySwapchain, WaitForIdle, Goto, Environment, meshVars
  <1>6. CASE BeginDestroy
    BY <1>6
    DEF BeginDestroy, meshVars
  <1>7. CASE ResizeWindow \/ SendVertexShader \/ MainStep
    BY <1>7
    DEF ResizeWindow, SendVertexShader, MainStep, PumpMsgs, SendRenderFrame, Send, meshVars
  <1>8. CASE Execute
    BY <1>8
    DEF Execute, meshVars
  <1> QED
    BY <1>1, <1>2, <1>3, <1>4, <1>5, <1>6, <1>7, <1>8 DEF Next, GraphicsStep

LEMMA ImagesStep ==
  ASSUME VulkanInv, Next
  PROVE  ImagesFit'
  <1> USE DEF VulkanInv, ImagesFit, ThrowsWhere, Dimensions, VulkanTypeOK, ControlTypes,
              ImageTypes
  <1>1. CASE ResetStep
    BY <1>1, VulkanAssumption
    DEF ResetStep, AskForDimensions, BuildSwapchain, BuildDepthImage, Goto, Throw,
        Environment, swapchainVars
  <1>2. CASE ConstructorStep
    BY <1>2, VulkanAssumption
    DEF ConstructorStep, CreateFrames, LoadMesh, MoveMesh, DropMesh,
        SetVertexBindingAttrs, SetFirstShader, SetShader, Upload, SetPushConstant,
        Goto, Throw, Environment, swapchainVars
  <1>3. CASE HandleResize \/ SetVertexShader
    BY <1>3, VulkanAssumption
    DEF HandleResize, SetVertexShader, SetShader, Received, Goto, Environment, swapchainVars
  <1>4. CASE RenderStep
    BY <1>4, VulkanAssumption
    DEF RenderStep, RenderFrame, RebuildIdle, RebuildPipeline, Wait, ResizeIdle,
        Render, Submit, GiveUpFrame, RecordFrame, NextFrame, WaitForIdle, IfShown, Throw,
        Received, Goto, Environment, swapchainVars
  <1>5. CASE DestructorStep
    BY <1>5, VulkanAssumption
    DEF DestructorStep, Join, DestroyIdle, DestroyMeshes, DestroyPipeline,
        DestroySwapchain, WaitForIdle, Goto, Environment, swapchainVars
  <1>6. CASE BeginDestroy
    BY <1>6, VulkanAssumption
    DEF BeginDestroy, swapchainVars
  <1>7. CASE ResizeWindow \/ SendVertexShader \/ MainStep
    BY <1>7, VulkanAssumption
    DEF ResizeWindow, SendVertexShader, MainStep, PumpMsgs, SendRenderFrame, Send, swapchainVars
  <1>8. CASE Execute
    BY <1>8, VulkanAssumption
    DEF Execute, swapchainVars
  <1> QED
    BY <1>1, <1>2, <1>3, <1>4, <1>5, <1>6, <1>7, <1>8 DEF Next, GraphicsStep

LEMMA PipelineStep ==
  ASSUME VulkanInv, Next
  PROVE  PipelineFits'
  <1> USE DEF VulkanInv, PipelineFits, Resetting, VulkanTypeOK, ControlTypes,
              PipelineTypes
  <1>1. CASE ResetStep
    BY <1>1
    DEF ResetStep, AskForDimensions, BuildSwapchain, BuildDepthImage, Goto, Throw,
        Environment, pipelineVars
  <1>2. CASE ConstructorStep
    BY <1>2
    DEF ConstructorStep, CreateFrames, LoadMesh, MoveMesh, DropMesh,
        SetVertexBindingAttrs, SetFirstShader, SetShader, Upload, SetPushConstant,
        Goto, Throw, Environment, pipelineVars
  <1>3. CASE HandleResize \/ SetVertexShader
    BY <1>3
    DEF HandleResize, SetVertexShader, SetShader, Received, Goto, Environment, pipelineVars
  <1>4. CASE RenderStep
    BY <1>4
    DEF RenderStep, RenderFrame, RebuildIdle, RebuildPipeline, Wait, ResizeIdle,
        Render, Submit, GiveUpFrame, RecordFrame, NextFrame, WaitForIdle, IfShown, Throw,
        Received, Goto, Environment, pipelineVars
  <1>5. CASE DestructorStep
    BY <1>5
    DEF DestructorStep, Join, DestroyIdle, DestroyMeshes, DestroyPipeline,
        DestroySwapchain, WaitForIdle, Goto, Environment, pipelineVars
  <1>6. CASE BeginDestroy
    BY <1>6
    DEF BeginDestroy, pipelineVars
  <1>7. CASE ResizeWindow \/ SendVertexShader \/ MainStep
    <2>1. UNCHANGED <<at, then, pipelineVars>>
      BY <1>7
      DEF ResizeWindow, SendVertexShader, MainStep, PumpMsgs, SendRenderFrame, Send
    <2> QED
      BY <2>1 DEF pipelineVars
  <1>8. CASE Execute
    BY <1>8
    DEF Execute, pipelineVars
  <1> QED
    BY <1>1, <1>2, <1>3, <1>4, <1>5, <1>6, <1>7, <1>8 DEF Next, GraphicsStep

\* A change of the window is not forgotten before the thread has heard of it.
LEMMA ResizeStays ==
  ASSUME VulkanInv, Next, ResizeUnderWay, ~HandleResize, ~Join
  PROVE  ResizeUnderWay'
  <1> USE DEF VulkanInv, VulkanTypeOK, ControlTypes, ResizeUnderWay
  <1>1. inbox \in Seq(Messages)
    OBVIOUS
  <1>2. ASSUME NEW m, Send(m), UNCHANGED resized \/ m.type = "HANDLE_RESIZE"
        PROVE  ResizeUnderWay'
    <2>1. /\ DOMAIN inbox' = 1..(Len(inbox) + 1)
          /\ \A n \in DOMAIN inbox : n \in DOMAIN inbox' /\ inbox'[n] = inbox[n]
          /\ Len(inbox) + 1 \in DOMAIN inbox' /\ inbox'[Len(inbox) + 1] = m
      BY <1>1, <1>2 DEF Send
    <2> QED
      BY <1>2, <2>1
  <1>3. CASE /\ inbox # <<>> /\ Head(inbox).type # "HANDLE_RESIZE"
             /\ inbox' = Tail(inbox) /\ UNCHANGED resized
    <2>1. \A n \in DOMAIN inbox : n # 1 => n - 1 \in DOMAIN inbox' /\ inbox'[n - 1] = inbox[n]
      BY <1>1, <1>3
    <2>2. Head(inbox) = inbox[1]
      BY <1>1, <1>3
    <2> QED
      BY <1>3, <2>1, <2>2
  <1>4. CASE UNCHANGED inbox /\ (resized => resized')
    BY <1>4
  <1>5. CASE SendVertexShader
    BY <1>2, <1>5 DEF SendVertexShader
  <1>6. CASE MainStep
    <2>1. CASE SendRenderFrame
      BY <1>2, <2>1 DEF SendRenderFrame
    <2>2. CASE PumpMsgs
      BY <1>2, <1>4, <2>2 DEF PumpMsgs
    <2> QED
      BY <1>6, <2>1, <2>2 DEF MainStep
  <1>7. CASE SetVertexShader \/ RenderFrame
    BY <1>3, <1>7
    DEF SetVertexShader, RenderFrame, Received, Goto, Environment, windowVars
  <1> QED
    BY <1>4, <1>5, <1>6, <1>7
    DEF Next, GraphicsStep, ResizeWindow, Execute, BeginDestroy, ResetStep, AskForDimensions,
        BuildSwapchain, BuildDepthImage, ConstructorStep, CreateFrames, LoadMesh, MoveMesh,
        DropMesh, SetVertexBindingAttrs, SetFirstShader, Upload, SetPushConstant, RenderStep,
        RebuildIdle, RebuildPipeline, Wait, ResizeIdle, Render, Submit, DestructorStep,
        DestroyIdle, DestroyMeshes, DestroyPipeline, DestroySwapchain, WaitForIdle, Goto,
        Throw, Environment, windowVars

LEMMA SizesStep ==
  ASSUME VulkanInv, Next
  PROVE  SizesFit'
  <1> USE DEF VulkanInv, SizesFit, ImagesFit, MeshesWhere, ThrowsWhere, VulkanTypeOK,
              ControlTypes, Constructing, Resetting, Rendering, Destroying
  <1>1. CASE HandleResize
    BY <1>1 DEF HandleResize, Goto, Environment, windowVars, swapchainVars
  <1>2. CASE Join
    BY <1>2 DEF Join
  <1>3. CASE ~HandleResize /\ ~Join
    <2>a. ResizeUnderWay => ResizeUnderWay'
      BY <1>3, ResizeStays
    <2>1. CASE ResetStep
      BY <2>1, <2>a
      DEF ResetStep, AskForDimensions, BuildSwapchain, BuildDepthImage, Goto, Throw,
          Environment, windowVars, swapchainVars, flagVars
    <2>2. CASE ConstructorStep
      BY <2>2, <2>a
      DEF ConstructorStep, CreateFrames, LoadMesh, MoveMesh, DropMesh,
          SetVertexBindingAttrs, SetFirstShader, SetShader, Upload, SetPushConstant,
          Goto, Throw, Environment, windowVars, swapchainVars, flagVars
    <2>3. CASE SetVertexShader
      BY <2>3, <2>a
      DEF SetVertexShader, Goto, Environment, windowVars, swapchainVars, flagVars
    <2>4. CASE RenderStep
      BY <2>4, <2>a
      DEF RenderStep, RenderFrame, RebuildIdle, RebuildPipeline, Wait, ResizeIdle,
          Render, Submit, GiveUpFrame, RecordFrame, NextFrame, WaitForIdle, IfShown, Throw,
          Goto, Environment, windowVars, swapchainVars, flagVars
    <2>5. CASE DestructorStep
      BY <1>3, <2>5
      DEF DestructorStep, DestroyIdle, DestroyMeshes, DestroyPipeline, DestroySwapchain,
          WaitForIdle, Goto
    <2>6. CASE BeginDestroy \/ SendVertexShader \/ MainStep \/ Execute
      <3>1. UNCHANGED <<window, at, then, swapchainVars, flagVars>>
        BY <2>6
        DEF BeginDestroy, SendVertexShader, MainStep, PumpMsgs, SendRenderFrame, Send, Execute,
            windowVars
      <3> QED
        BY <2>a, <3>1 DEF swapchainVars, flagVars
    <2>7. CASE ResizeWindow
      BY <2>7 DEF ResizeWindow, ResizeUnderWay, swapchainVars, flagVars
    <2> QED
      BY <1>3, <2>1, <2>2, <2>3, <2>4, <2>5, <2>6, <2>7 DEF Next, GraphicsStep
  <1> QED
    BY <1>1, <1>2, <1>3

\* The two ways to be at a submission, and who leaves the recording as it is.
LEMMA AtSubmit ==
  ASSUME VulkanInv, Next, at' = "submit"
  PROVE  \/ Render
         \/ at = "submit" /\ UNCHANGED <<recorded, inputs, depthImage_>>
  <1> USE DEF VulkanInv, ThrowsWhere, VulkanTypeOK, ControlTypes
  <1>1. CASE ResetStep
    BY <1>1 DEF ResetStep, AskForDimensions, BuildSwapchain, BuildDepthImage, Goto, Throw
  <1>2. CASE ConstructorStep
    BY <1>2
    DEF ConstructorStep, CreateFrames, LoadMesh, MoveMesh, DropMesh,
        SetVertexBindingAttrs, SetFirstShader, Upload, SetPushConstant, Goto, Throw
  <1>3. CASE HandleResize \/ SetVertexShader
    BY <1>3 DEF HandleResize, SetVertexShader, Goto
  <1>4. CASE RenderStep
    BY <1>4
    DEF RenderStep, RenderFrame, RebuildIdle, RebuildPipeline, Wait, ResizeIdle, Submit,
        WaitForIdle, IfShown, Throw, Goto, pipelineVars, swapchainVars
  <1>5. CASE DestructorStep
    BY <1>5
    DEF DestructorStep, Join, DestroyIdle, DestroyMeshes, DestroyPipeline,
        DestroySwapchain, WaitForIdle, Goto
  <1>6. CASE BeginDestroy \/ ResizeWindow \/ SendVertexShader \/ MainStep \/ Execute
    BY <1>6
    DEF BeginDestroy, ResizeWindow, SendVertexShader, MainStep, PumpMsgs, SendRenderFrame, Send,
        Execute, pipelineVars, swapchainVars
  <1> QED
    BY <1>1, <1>2, <1>3, <1>4, <1>5, <1>6 DEF Next, GraphicsStep

LEMMA FramesStep ==
  ASSUME VulkanInv, Next
  PROVE  FramesAreConsistent'
  <1> SUFFICES ASSUME at' = "submit"
               PROVE  FramesAreConsistent'
    BY DEF FramesAreConsistent
  <1>1. SizesFit' /\ ImagesFit' /\ ThrowsWhere' /\ PipelineFits'
    BY SizesStep, ImagesStep, ThrowsStep, PipelineStep
  <1>2. recorded'.framebuffer = depthImage_'
        => recorded'.framebuffer = swapchain_' \/ ResizeUnderWay' \/ exited'
    BY <1>1 DEF SizesFit, ImagesFit, Rendering
  <1>3. CASE Render
    <2>1. /\ at = "render" /\ ~exited /\ ~exited'
          /\ UNCHANGED <<surface, swapchain_, depthImage_, framebuffers_, inputs, pipeline_>>
          /\ recorded' = [pipeline |-> pipeline_, viewport |-> surface,
                          framebuffer |-> framebuffers_]
      BY <1>3
      DEF Render, GiveUpFrame, RecordFrame, NextFrame, Viewport, swapchainVars, pipelineVars
    <2>2. pipeline_ = inputs /\ framebuffers_ = depthImage_ /\ surface = depthImage_
      BY <2>1 DEF VulkanInv, ImagesFit, PipelineFits
    <2> QED
      BY <1>2, <2>1, <2>2 DEF FramesAreConsistent
  <1>4. CASE ~Render
    <2>1. at = "submit" /\ UNCHANGED <<recorded, inputs, depthImage_>>
      BY <1>4, AtSubmit
    <2>2. UNCHANGED swapchain_ /\ (ResizeUnderWay => ResizeUnderWay')
      BY <2>1, ResizeStays DEF HandleResize, Join, Received, Goto, Next, GraphicsStep, ResetStep,
         ConstructorStep, RenderStep, DestructorStep, AskForDimensions, BuildSwapchain,
         BuildDepthImage, CreateFrames, LoadMesh, MoveMesh, DropMesh, SetVertexBindingAttrs,
         SetFirstShader, Upload, SetPushConstant, SetVertexShader, RenderFrame, RebuildIdle,
         RebuildPipeline, Wait, ResizeIdle, Render, Submit, DestroyIdle, DestroyMeshes,
         DestroyPipeline, DestroySwapchain, WaitForIdle, Throw, BeginDestroy, ResizeWindow,
         SendVertexShader, MainStep, PumpMsgs, SendRenderFrame, Send, Execute, swapchainVars
    <2> QED
      BY <2>1, <2>2 DEF VulkanInv, FramesAreConsistent
  <1> QED
    BY <1>3, <1>4

-----------------------------------------------------------------------------
(* The queue of the GPU. *)

QueuePart == QueueFits /\ NothingInUseIsTouched /\ FencesWillSignal

LEMMA ExecuteKeepsQueue ==
  ASSUME VulkanInv, Execute
  PROVE  QueuePart'
  <1> DEFINE f == Head(queue)
  <1> USE DEF VulkanInv, VulkanTypeOK, ControlTypes, GpuTypes
  <1>1. /\ queue # <<>> /\ queue \in Seq(Frames) /\ queue' = Tail(queue)
        /\ fence_' = [fence_ EXCEPT ![f] = TRUE]
        /\ presentSemaphore_' = [presentSemaphore_ EXCEPT ![f] = FALSE]
        /\ unacquired' = unacquired \ {f}
        /\ UNCHANGED <<at, frameIdx_>>
    BY DEF Execute, flagVars
  <1>2. /\ Len(queue) \in Nat /\ Len(queue) >= 1 /\ f = queue[1]
        /\ Len(queue') = Len(queue) - 1
        /\ \A i \in 1..Len(queue') : i + 1 \in 1..Len(queue) /\ queue'[i] = queue[i + 1]
        /\ DOMAIN queue' = 1..Len(queue')
    BY <1>1
  <1>3. QueueFits'
    <2>a. \A i \in 1..Len(queue') : i + 1 # 1 /\ 1 \in 1..Len(queue)
      BY <1>2
    <2>1. \A i \in 1..Len(queue') : queue'[i] # f /\ queue'[i] \in Frames
      BY <1>1, <1>2, <2>a DEF QueueFits
    <2>2. \A i \in 1..Len(queue') : ~fence_'[queue'[i]]
      BY <1>1, <1>2, <2>1 DEF QueueFits
    <2>3. ASSUME NEW i \in 1..Len(queue'), NEW j \in 1..Len(queue'), queue'[i] = queue'[j]
          PROVE  i = j
      <3>1. i + 1 \in 1..Len(queue) /\ j + 1 \in 1..Len(queue) /\ queue[i + 1] = queue[j + 1]
        BY <1>2, <2>3
      <3>2. i + 1 = j + 1
        BY <3>1 DEF QueueFits
      <3> QED
        BY <2>3, <3>2
    <2>4. at' = "submit" => ~fence_'[frameIdx_']
      BY <1>1, <1>2 DEF QueueFits, NothingInUseIsTouched
    <2> QED
      BY <1>1, <2>2, <2>3, <2>4 DEF QueueFits
  <1>4. NothingInUseIsTouched'
    <2>1. at \in {"render", "submit"} => \A i \in 1..Len(queue') : queue'[i] # frameIdx_
      BY <1>1, <1>2 DEF NothingInUseIsTouched
    <2>2. at \notin {"rebuild", "dtorMeshes", "dtorPipeline", "dtorSwapchain"} \cup Resetting
      BY <1>1 DEF NothingInUseIsTouched
    <2>3. DOMAIN queue' = 1..Len(queue')
      BY <1>2
    <2> QED
      BY <1>1, <2>1, <2>2, <2>3 DEF NothingInUseIsTouched
  <1>5. FencesWillSignal'
    <2> SUFFICES ASSUME NEW g \in Frames, ~fence_'[g]
                 PROVE  /\ \/ \E i \in 1..Len(queue') : queue'[i] = g
                           \/ at = "submit" /\ frameIdx_ = g
                        /\ g \in unacquired' \/ presentSemaphore_'[g]
      BY <1>1, <1>2 DEF FencesWillSignal
    <2>1. g # f /\ ~fence_[g]
      BY <1>1
    <2>a. g \in unacquired' \/ presentSemaphore_'[g]
      BY <1>1, <2>1 DEF FencesWillSignal
    <2>2. CASE \E i \in 1..Len(queue) : queue[i] = g
      <3>1. PICK i \in 1..Len(queue) : queue[i] = g
        BY <2>2
      <3>2. i - 1 \in 1..Len(queue') /\ queue'[i - 1] = g
        BY <1>2, <2>1, <3>1
      <3> QED
        BY <3>2, <2>a
    <2> QED
      BY <1>1, <2>1, <2>2, <2>a DEF FencesWillSignal
  <1> QED
    BY <1>3, <1>4, <1>5 DEF QueuePart

LEMMA SubmitKeepsQueue ==
  ASSUME VulkanInv, Submit
  PROVE  QueuePart'
  <1> USE DEF VulkanInv, VulkanTypeOK, ControlTypes, GpuTypes
  <1>0. /\ at = "submit" /\ queue \in Seq(Frames) /\ frameIdx_ \in Frames
        /\ UNCHANGED <<fence_, presentSemaphore_, unacquired>>
    BY DEF Submit, Goto, Throw, Environment
  <1>a. CASE exited'
    <2>1. UNCHANGED <<at, queue, frameIdx_>>
      BY <1>a DEF Submit, Goto, Throw, flagVars, ThrowsWhere, NextFrame
    <2> QED
      BY <1>0, <2>1 DEF QueuePart, QueueFits, NothingInUseIsTouched, FencesWillSignal
  <1>b. SUFFICES ASSUME ~exited' PROVE QueuePart'
    BY <1>a
  <1>1. at' = "idle" /\ queue' = Append(queue, frameIdx_)
    BY <1>b DEF Submit, Goto, Throw
  <1>2. /\ Len(queue) \in Nat /\ Len(queue') = Len(queue) + 1
        /\ \A i \in 1..Len(queue) : queue'[i] = queue[i]
        /\ queue'[Len(queue) + 1] = frameIdx_
    BY <1>0, <1>1
  <1>3. QueueFits'
    BY <1>0, <1>1, <1>2 DEF QueueFits, NothingInUseIsTouched
  <1>4. NothingInUseIsTouched'
    BY <1>1 DEF NothingInUseIsTouched, Resetting
  <1>5. FencesWillSignal'
    <2> SUFFICES ASSUME NEW g \in Frames, ~fence_[g]
                 PROVE  \E i \in 1..Len(queue') : queue'[i] = g
      BY <1>0, <1>1, <1>2 DEF FencesWillSignal
    <2> QED
      BY <1>0, <1>1, <1>2 DEF FencesWillSignal
  <1> QED
    BY <1>3, <1>4, <1>5 DEF QueuePart

LEMMA RenderKeepsQueue ==
  ASSUME VulkanInv, Render
  PROVE  QueuePart'
  <1> USE DEF VulkanInv, VulkanTypeOK, ControlTypes, GpuTypes
  <1>1. at = "render" /\ UNCHANGED queue
    BY DEF Render
  <1>2. PICK result \in AcquireResults :
          /\ Acquired(frameIdx_, result)
          /\ \/ GiveUpFrame(result) /\ UNCHANGED fence_
             \/ RecordFrame(result) /\ fence_' = [fence_ EXCEPT ![frameIdx_] = FALSE]
    BY DEF Render
  <1>3. \A g \in Frames : presentSemaphore_[g] => presentSemaphore_'[g]
    BY <1>2 DEF Acquired
  <1>4. CASE GiveUpFrame(result) /\ UNCHANGED fence_
    <2>1. at' = "idle" /\ UNCHANGED unacquired
      BY <1>4 DEF GiveUpFrame
    <2> QED
      BY <1>1, <1>3, <1>4, <2>1
      DEF QueuePart, QueueFits, NothingInUseIsTouched, FencesWillSignal, Resetting
  <1>5. CASE RecordFrame(result) /\ fence_' = [fence_ EXCEPT ![frameIdx_] = FALSE]
    <2>1. /\ at' = "submit" /\ UNCHANGED frameIdx_
          /\ unacquired \subseteq unacquired'
          /\ frameIdx_ \in unacquired' \/ presentSemaphore_'[frameIdx_]
      BY <1>2, <1>5 DEF RecordFrame, Acquired, flagVars
    <2>2. \A i \in 1..Len(queue) : queue[i] # frameIdx_ /\ queue[i] \in Frames
      BY <1>1 DEF NothingInUseIsTouched
    <2>3. QueueFits'
      BY <1>1, <1>5, <2>1, <2>2 DEF QueueFits
    <2>4. NothingInUseIsTouched'
      BY <1>1, <2>1, <2>2 DEF NothingInUseIsTouched, Resetting
    <2>5. FencesWillSignal'
      BY <1>1, <1>3, <1>5, <2>1 DEF FencesWillSignal
    <2> QED
      BY <2>3, <2>4, <2>5 DEF QueuePart
  <1> QED
    BY <1>2, <1>4, <1>5

LEMMA QueueStep ==
  ASSUME VulkanInv, Next
  PROVE  QueuePart'
  <1> USE DEF VulkanInv, VulkanTypeOK, ControlTypes, GpuTypes,
              QueuePart, QueueFits, NothingInUseIsTouched, FencesWillSignal,
              Resetting, submitVars, Environment
  <1>1. CASE ResetStep
    BY <1>1
    DEF ResetStep, AskForDimensions, BuildSwapchain, BuildDepthImage, Goto, Throw
  <1>2. CASE ConstructorStep
    BY <1>2
    DEF ConstructorStep, CreateFrames, LoadMesh, MoveMesh, DropMesh,
        SetVertexBindingAttrs, SetFirstShader, Upload, SetPushConstant, Goto, Throw
  <1>3. CASE HandleResize \/ SetVertexShader
    BY <1>3
    DEF HandleResize, SetVertexShader, Goto
  <1>4. CASE RenderFrame \/ RebuildIdle \/ RebuildPipeline \/ Wait \/ ResizeIdle
    BY <1>4
    DEF RenderFrame, RebuildIdle, RebuildPipeline, Wait, ResizeIdle, WaitForIdle,
        IfShown, Goto, flagVars
  <1>5. CASE DestructorStep
    BY <1>5
    DEF DestructorStep, Join, DestroyIdle, DestroyMeshes, DestroyPipeline,
        DestroySwapchain, WaitForIdle, Goto, gpuVars
  <1>6. CASE BeginDestroy
    BY <1>6
    DEF BeginDestroy, flagVars, gpuVars
  <1>7. CASE ResizeWindow \/ SendVertexShader \/ MainStep
    <2>1. UNCHANGED <<at, flagVars, gpuVars>>
      BY <1>7
      DEF ResizeWindow, SendVertexShader, MainStep, PumpMsgs, SendRenderFrame, Send
    <2> QED
      BY <2>1 DEF flagVars, gpuVars
  <1> QED
    BY <1>1, <1>2, <1>3, <1>4, <1>5, <1>6, <1>7,
       ExecuteKeepsQueue, SubmitKeepsQueue, RenderKeepsQueue
    DEF Next, GraphicsStep, RenderStep

-----------------------------------------------------------------------------
(* The types. *)

LEMMA InboxStep ==
  ASSUME VulkanInv, Next
  PROVE  inbox' \in Seq(Messages) /\ Len(inbox') <= MaxInbox
  <1>1. inbox \in Seq(Messages) /\ Len(inbox) <= MaxInbox
    BY DEF VulkanInv, VulkanTypeOK, ControlTypes
  <1>2. ASSUME NEW m \in Messages, Send(m)
        PROVE  inbox' \in Seq(Messages) /\ Len(inbox') <= MaxInbox
    BY <1>1, <1>2, VulkanAssumption DEF Send
  <1>3. CASE SendVertexShader \/ MainStep
    <2>1. \A s \in Shaders : [type |-> "SET_VERTEX_SHADER", shader |-> s] \in Messages
      BY DEF Messages
    <2>2. [type |-> "HANDLE_RESIZE"] \in Messages /\ [type |-> "RENDER_FRAME"] \in Messages
      BY DEF Messages
    <2> QED
      BY <1>1, <1>2, <1>3, <2>1, <2>2
      DEF SendVertexShader, MainStep, PumpMsgs, SendRenderFrame
  <1>4. CASE inbox # <<>> /\ inbox' = Tail(inbox)
    BY <1>1, <1>4, VulkanAssumption
  <1>5. CASE inbox' = <<>>
    BY <1>5, VulkanAssumption
  <1>6. CASE UNCHANGED inbox
    BY <1>1, <1>6
  <1> QED
    BY <1>3, <1>4, <1>5, <1>6
    DEF Next, GraphicsStep, ResizeWindow, Execute, BeginDestroy,
        ResetStep, AskForDimensions, BuildSwapchain, BuildDepthImage, ConstructorStep,
        CreateFrames, LoadMesh,
        MoveMesh, DropMesh, SetVertexBindingAttrs, SetFirstShader, Upload, SetPushConstant,
        HandleResize, SetVertexShader, Received, RenderStep, RenderFrame, RebuildIdle,
        RebuildPipeline, Wait, ResizeIdle, Render, Submit, DestructorStep, Join, DestroyIdle,
        DestroyMeshes, DestroyPipeline, DestroySwapchain, WaitForIdle

LEMMA PlaceStep ==
  ASSUME VulkanInv, Next
  PROVE  at' \in {"idle"} \cup Constructing \cup Resetting \cup Rendering \cup Destroying
         /\ then' \in {"frames", "render"}
  <1> USE DEF VulkanInv, VulkanTypeOK, ControlTypes, Constructing, Resetting, Rendering, Destroying
  <1>1. CASE ResetStep
    BY <1>1
    DEF ResetStep, AskForDimensions, BuildSwapchain, BuildDepthImage, Goto, Throw, Environment
  <1>2. CASE ConstructorStep
    BY <1>2
    DEF ConstructorStep, CreateFrames, LoadMesh, MoveMesh, DropMesh,
        SetVertexBindingAttrs, SetFirstShader, SetShader, Upload, SetPushConstant,
        Goto, Throw, Environment
  <1>3. CASE HandleResize \/ SetVertexShader
    BY <1>3
    DEF HandleResize, SetVertexShader, Goto, Environment
  <1>4. CASE RenderStep
    BY <1>4
    DEF RenderStep, RenderFrame, RebuildIdle, RebuildPipeline, Wait, ResizeIdle,
        Render, Submit, GiveUpFrame, RecordFrame, NextFrame, WaitForIdle, IfShown, Throw,
        Goto, Environment
  <1>5. CASE DestructorStep
    BY <1>5
    DEF DestructorStep, Join, DestroyIdle, DestroyMeshes, DestroyPipeline,
        DestroySwapchain, WaitForIdle, Goto, Environment
  <1>6. CASE BeginDestroy
    BY <1>6
    DEF BeginDestroy
  <1>7. CASE ResizeWindow \/ SendVertexShader \/ MainStep
    BY <1>7
    DEF ResizeWindow, SendVertexShader, MainStep, PumpMsgs, SendRenderFrame, Send
  <1>8. CASE Execute
    BY <1>8
    DEF Execute
  <1> QED
    BY <1>1, <1>2, <1>3, <1>4, <1>5, <1>6, <1>7, <1>8 DEF Next, GraphicsStep

LEMMA FlagsStep ==
  ASSUME VulkanInv, Next
  PROVE  /\ window' \in Dimensions /\ resized' \in BOOLEAN /\ mainAt' \in {"pump", "render"}
         /\ joining' \in BOOLEAN
         /\ needsResizing_' \in BOOLEAN /\ shouldRender_' \in BOOLEAN /\ frameIdx_' \in Frames
         /\ exited' \in BOOLEAN
  <1> USE DEF VulkanInv, VulkanTypeOK, ControlTypes
  <1>a. (frameIdx_ + 1) % NumFrames \in Frames
    BY VulkanAssumption DEF Frames
  <1>1. CASE ResetStep
    BY <1>1, <1>a
    DEF ResetStep, AskForDimensions, BuildSwapchain, BuildDepthImage, Goto, Throw,
        Environment, flagVars, windowVars
  <1>2. CASE ConstructorStep
    BY <1>2, <1>a
    DEF ConstructorStep, CreateFrames, LoadMesh, MoveMesh, DropMesh,
        SetVertexBindingAttrs, SetFirstShader, SetShader, Upload, SetPushConstant,
        Goto, Throw, Environment, flagVars, windowVars
  <1>3. CASE HandleResize \/ SetVertexShader
    BY <1>3, <1>a
    DEF HandleResize, SetVertexShader, Goto, Environment, flagVars, windowVars
  <1>4. CASE RenderStep
    BY <1>4, <1>a
    DEF RenderStep, RenderFrame, RebuildIdle, RebuildPipeline, Wait, ResizeIdle,
        Render, Submit, GiveUpFrame, RecordFrame, NextFrame, WaitForIdle, IfShown, Throw,
        Goto, Environment, flagVars, windowVars
  <1>5. CASE DestructorStep
    BY <1>5, <1>a
    DEF DestructorStep, Join, DestroyIdle, DestroyMeshes, DestroyPipeline,
        DestroySwapchain, WaitForIdle, Goto, Environment, flagVars, windowVars
  <1>6. CASE BeginDestroy
    BY <1>6, <1>a
    DEF BeginDestroy, flagVars, windowVars
  <1>7. CASE ResizeWindow \/ SendVertexShader \/ MainStep
    BY <1>7, <1>a
    DEF ResizeWindow, SendVertexShader, MainStep, PumpMsgs, SendRenderFrame, Send,
        flagVars, windowVars
  <1>8. CASE Execute
    BY <1>8, <1>a
    DEF Execute, flagVars, windowVars
  <1> QED
    BY <1>1, <1>2, <1>3, <1>4, <1>5, <1>6, <1>7, <1>8 DEF Next, GraphicsStep

LEMMA ImageTypesStep ==
  ASSUME VulkanInv, Next
  PROVE  ImageTypes'
  <1> USE DEF VulkanInv, VulkanTypeOK, ControlTypes, ImageTypes
  <1>1. CASE ResetStep
    BY <1>1
    DEF ResetStep, AskForDimensions, BuildSwapchain, BuildDepthImage, Goto, Throw,
        Environment, swapchainVars
  <1>2. CASE ConstructorStep
    BY <1>2
    DEF ConstructorStep, CreateFrames, LoadMesh, MoveMesh, DropMesh,
        SetVertexBindingAttrs, SetFirstShader, SetShader, Upload, SetPushConstant,
        Goto, Throw, Environment, swapchainVars
  <1>3. CASE HandleResize \/ SetVertexShader
    BY <1>3
    DEF HandleResize, SetVertexShader, SetShader, Received, Goto, Environment, swapchainVars
  <1>4. CASE RenderStep
    BY <1>4
    DEF RenderStep, RenderFrame, RebuildIdle, RebuildPipeline, Wait, ResizeIdle,
        Render, Submit, GiveUpFrame, RecordFrame, NextFrame, WaitForIdle, IfShown, Throw,
        Received, Goto, Environment, swapchainVars
  <1>5. CASE DestructorStep
    BY <1>5
    DEF DestructorStep, Join, DestroyIdle, DestroyMeshes, DestroyPipeline,
        DestroySwapchain, WaitForIdle, Goto, Environment, swapchainVars
  <1>6. CASE BeginDestroy
    BY <1>6
    DEF BeginDestroy, swapchainVars
  <1>7. CASE ResizeWindow \/ SendVertexShader \/ MainStep
    BY <1>7
    DEF ResizeWindow, SendVertexShader, MainStep, PumpMsgs, SendRenderFrame, Send, swapchainVars
  <1>8. CASE Execute
    BY <1>8
    DEF Execute, swapchainVars
  <1> QED
    BY <1>1, <1>2, <1>3, <1>4, <1>5, <1>6, <1>7, <1>8 DEF Next, GraphicsStep

LEMMA PipelineTypesStep ==
  ASSUME VulkanInv, Next
  PROVE  PipelineTypes'
  <1> USE DEF VulkanInv, VulkanTypeOK, ControlTypes, ImageTypes, PipelineTypes, Inputs, Recording,
              Messages, Viewport
  <1>1. CASE ResetStep
    BY <1>1, VulkanAssumption
    DEF ResetStep, AskForDimensions, BuildSwapchain, BuildDepthImage, Goto, Throw,
        Environment, pipelineVars
  <1>2. CASE ConstructorStep
    BY <1>2, VulkanAssumption
    DEF ConstructorStep, CreateFrames, LoadMesh, MoveMesh, DropMesh,
        SetVertexBindingAttrs, SetFirstShader, SetShader, Upload, SetPushConstant,
        Goto, Throw, Environment, pipelineVars
  <1>3. CASE HandleResize \/ SetVertexShader
    <2>1. CASE HandleResize
      BY <2>1 DEF HandleResize, pipelineVars
    <2>2. CASE SetVertexShader
      <3>1. Head(inbox) \in Messages /\ Head(inbox).type = "SET_VERTEX_SHADER"
        BY <2>2 DEF SetVertexShader, Received
      <3>2. Head(inbox).shader \in Shaders
        BY <3>1 DEF Messages
      <3>3. inputs' \in Inputs
        BY <2>2, <3>2 DEF SetVertexShader, SetShader
      <3> QED
        BY <2>2, <3>3 DEF SetVertexShader, SetShader
    <2> QED
      BY <1>3, <2>1, <2>2
  <1>4. CASE RenderStep
    <2>1. CASE Render
      <3>1. [pipeline |-> pipeline_, viewport |-> Viewport, framebuffer |-> framebuffers_]
              \in Recording
        OBVIOUS
      <3> QED
        BY <2>1, <3>1 DEF Render, GiveUpFrame, RecordFrame, pipelineVars
    <2>2. CASE RenderFrame \/ RebuildIdle \/ RebuildPipeline \/ Wait \/ ResizeIdle \/ Submit
      BY <2>2
      DEF RenderFrame, RebuildIdle, RebuildPipeline, Wait, ResizeIdle, Submit, WaitForIdle,
          pipelineVars
    <2> QED
      BY <1>4, <2>1, <2>2 DEF RenderStep
  <1>5. CASE DestructorStep
    BY <1>5, VulkanAssumption
    DEF DestructorStep, Join, DestroyIdle, DestroyMeshes, DestroyPipeline,
        DestroySwapchain, WaitForIdle, Goto, Environment, pipelineVars
  <1>6. CASE BeginDestroy
    BY <1>6, VulkanAssumption
    DEF BeginDestroy, pipelineVars
  <1>7. CASE ResizeWindow \/ SendVertexShader \/ MainStep
    BY <1>7, VulkanAssumption
    DEF ResizeWindow, SendVertexShader, MainStep, PumpMsgs, SendRenderFrame, Send, pipelineVars
  <1>8. CASE Execute
    BY <1>8, VulkanAssumption
    DEF Execute, pipelineVars
  <1> QED
    BY <1>1, <1>2, <1>3, <1>4, <1>5, <1>6, <1>7, <1>8 DEF Next, GraphicsStep

LEMMA OwnerStep ==
  ASSUME VulkanInv, Next
  PROVE  OneOwner'
  <1> USE DEF VulkanInv, VulkanTypeOK, ControlTypes, ImageTypes, OneOwner, MeshesWhere,
              ImagesFit, Rendering,
              Allocated, Freed
  <1>1. CASE ResetStep
    <2>1. CASE AskForDimensions \/ BuildSwapchain
      BY <2>1 DEF AskForDimensions, BuildSwapchain, Goto, Throw, meshVars
    <2>2. CASE BuildDepthImage /\ surface # Hidden
      BY <2>2, VulkanAssumption DEF BuildDepthImage, Throw, Goto, meshVars, Dimensions
    <2>3. CASE BuildDepthImage /\ surface = Hidden
      <3>1. at = "depth" /\ ~exited /\ exited' = TRUE /\ memory' = Freed("depth")
            /\ UNCHANGED meshVars
        BY <2>3 DEF BuildDepthImage, Throw
      <3>2. memory.depth = 1
        BY <3>1
      <3> QED
        BY <3>1, <3>2 DEF meshVars
    <2> QED
      BY <1>1, <2>1, <2>2, <2>3 DEF ResetStep
  <1>2. CASE ConstructorStep
    <2>1. CASE LoadMesh
      <3>1. at = "load" /\ newMesh = "none" /\ meshes_ = "none" /\ ~exited /\ memory.mesh = 0
        BY <2>1 DEF LoadMesh, Goto, Throw
      <3>2. CASE newMesh' = "valid" /\ memory' = Allocated("mesh")
        <4>1. memory' \in [{"depth", "mesh"} -> Nat] /\ memory'.mesh = 1
              /\ memory'.depth = memory.depth
          BY <3>1, <3>2
        <4> QED
          BY <2>1, <3>1, <3>2, <4>1 DEF LoadMesh, swapchainVars
      <3>3. CASE exited' /\ UNCHANGED <<newMesh, memory>>
        BY <2>1, <3>3 DEF LoadMesh
      <3> QED
        BY <2>1, <3>2, <3>3 DEF LoadMesh, Throw
    <2>2. CASE MoveMesh
      BY <2>2 DEF MoveMesh, Goto, swapchainVars
    <2>3. CASE DropMesh
      BY <2>3 DEF DropMesh, Goto, swapchainVars
    <2>4. CASE UNCHANGED <<meshVars, depthImage_, memory, exited>>
      BY <2>4 DEF meshVars
    <2> QED
      BY <1>2, <2>1, <2>2, <2>3, <2>4
      DEF ConstructorStep, CreateFrames, SetVertexBindingAttrs, SetFirstShader, Upload,
          SetPushConstant, swapchainVars
  <1>3. CASE HandleResize \/ SetVertexShader
    BY <1>3, VulkanAssumption
    DEF HandleResize, SetVertexShader, SetShader, Received, Goto, Environment, meshVars,
        swapchainVars
  <1>4. CASE RenderStep
    BY <1>4, VulkanAssumption
    DEF RenderStep, RenderFrame, RebuildIdle, RebuildPipeline, Wait, ResizeIdle,
        Render, Submit, GiveUpFrame, RecordFrame, NextFrame, WaitForIdle, IfShown, Throw,
        Received, Goto, Environment, meshVars, swapchainVars
  <1>5. CASE DestructorStep
    <2>1. CASE DestroyMeshes
      <3>1. /\ newMesh = "none" /\ meshes_ = "valid" /\ ~exited /\ memory.mesh = 1
            /\ memory' = Freed("mesh") /\ meshes_' = "none" /\ UNCHANGED newMesh
        BY <2>1 DEF DestroyMeshes, Goto
      <3>2. memory' \in [{"depth", "mesh"} -> Nat] /\ memory'.mesh = 0
            /\ memory'.depth = memory.depth
        BY <3>1
      <3> QED
        BY <2>1, <3>1, <3>2 DEF DestroyMeshes, swapchainVars
    <2>2. CASE DestroySwapchain
      BY <2>2 DEF DestroySwapchain, Goto, meshVars
    <2>3. CASE UNCHANGED <<meshVars, depthImage_, memory, exited>>
      BY <2>3 DEF meshVars
    <2> QED
      BY <1>5, <2>1, <2>2, <2>3
      DEF DestructorStep, Join, DestroyIdle, DestroyPipeline, WaitForIdle, swapchainVars
  <1>6. CASE BeginDestroy
    BY <1>6, VulkanAssumption
    DEF BeginDestroy, meshVars, swapchainVars
  <1>7. CASE ResizeWindow \/ SendVertexShader \/ MainStep
    BY <1>7, VulkanAssumption
    DEF ResizeWindow, SendVertexShader, MainStep, PumpMsgs, SendRenderFrame, Send,
        meshVars, swapchainVars
  <1>8. CASE Execute
    BY <1>8, VulkanAssumption
    DEF Execute, meshVars, swapchainVars
  <1> QED
    BY <1>1, <1>2, <1>3, <1>4, <1>5, <1>6, <1>7, <1>8 DEF Next, GraphicsStep

\* The queue never has a frame twice: the frames in flight bound it.
LEMMA GpuTypesStep ==
  ASSUME VulkanInv, Next
  PROVE  GpuTypes'
  <1> USE DEF VulkanInv, VulkanTypeOK, GpuTypes
  <1>1. queue' \in Seq(Frames)
    <2>1. CASE UNCHANGED queue
      BY <2>1
    <2>2. CASE Execute
      BY <2>2 DEF Execute
    <2>3. CASE Submit
      BY <2>3 DEF Submit, ControlTypes
    <2> QED
      BY <2>1, <2>2, <2>3
      DEF Next, GraphicsStep, ResizeWindow, SendVertexShader, MainStep, PumpMsgs,
          SendRenderFrame, Send, BeginDestroy, ResetStep, AskForDimensions, BuildSwapchain,
          BuildDepthImage, ConstructorStep, CreateFrames, LoadMesh, MoveMesh, DropMesh,
          SetVertexBindingAttrs, SetFirstShader, Upload, SetPushConstant, HandleResize,
          SetVertexShader, RenderStep, RenderFrame, RebuildIdle, RebuildPipeline, Wait,
          ResizeIdle, Render, DestructorStep, Join, DestroyIdle, DestroyMeshes, DestroyPipeline,
          DestroySwapchain, WaitForIdle, gpuVars, submitVars
  <1>2. Len(queue') <= NumFrames
    <2>1. /\ Len(queue') \in Nat /\ queue' \in [1..Len(queue') -> Frames]
          /\ \A i, j \in 1..Len(queue') : queue'[i] = queue'[j] => i = j
      BY <1>1, QueueStep DEF QueuePart, QueueFits
    <2>2. IsFiniteSet(Frames) /\ Cardinality(Frames) = NumFrames
      BY FS_Interval, VulkanAssumption DEF Frames
    <2>3. IsFiniteSet(1..Len(queue')) /\ Cardinality(1..Len(queue')) = Len(queue')
      <3>1. 1 \in Int /\ Len(queue') \in Int
        BY <2>1
      <3>2. /\ IsFiniteSet(1..Len(queue'))
            /\ Cardinality(1..Len(queue'))
                 = IF 1 > Len(queue') THEN 0 ELSE Len(queue') - 1 + 1
        BY <3>1, FS_Interval
      <3> QED
        BY <2>1, <3>2
    <2>4. ~(Cardinality(Frames) < Cardinality(1..Len(queue')))
      BY <2>1, <2>2, <2>3, FS_PigeonHole
    <2> QED
      BY <2>1, <2>2, <2>3, <2>4, VulkanAssumption
  <1>3. /\ fence_' \in [Frames -> BOOLEAN]
        /\ presentSemaphore_' \in [Frames -> BOOLEAN]
        /\ unacquired' \subseteq Frames
    <2>1. CASE UNCHANGED <<fence_, presentSemaphore_, unacquired>>
      BY <2>1
    <2>2. CASE Execute
      BY <2>2 DEF Execute
    <2>3. CASE Render
      <3>1. frameIdx_ \in Frames
        BY DEF ControlTypes
      <3> QED
        BY <2>3, <3>1 DEF Render, RecordFrame, GiveUpFrame, Acquired
    <2> QED
      BY <2>1, <2>2, <2>3
      DEF Next, GraphicsStep, ResizeWindow, SendVertexShader, MainStep, PumpMsgs,
          SendRenderFrame, Send, BeginDestroy, ResetStep, AskForDimensions, BuildSwapchain,
          Throw, Goto, BuildDepthImage, ConstructorStep, CreateFrames, LoadMesh, MoveMesh, DropMesh,
          SetVertexBindingAttrs, SetFirstShader, Upload, SetPushConstant, HandleResize,
          SetVertexShader, RenderStep, RenderFrame, RebuildIdle, RebuildPipeline, Wait,
          ResizeIdle, Submit, DestructorStep, Join, DestroyIdle, DestroyMeshes, DestroyPipeline,
          DestroySwapchain, WaitForIdle, Environment, gpuVars, submitVars
  <1> QED
    BY <1>1, <1>2, <1>3

-----------------------------------------------------------------------------
LEMMA InitFits == Init => VulkanInv
  <1> SUFFICES ASSUME Init PROVE VulkanInv
    OBVIOUS
  <1> USE VulkanAssumption DEF Init, SwapchainInit, PipelineInit
  <1>1. VulkanTypeOK
    <2>1. ControlTypes
      <3>1. inbox \in Seq(Messages) /\ Len(inbox) <= MaxInbox
        OBVIOUS
      <3>2. frameIdx_ \in Frames
        BY DEF Frames
      <3> QED
        BY <3>1, <3>2 DEF ControlTypes, Dimensions, Resetting
    <2>2. ImageTypes
      BY DEF ImageTypes, Dimensions
    <2>3. PipelineTypes
      BY DEF PipelineTypes, Inputs
    <2>4. GpuTypes
      BY DEF GpuTypes
    <2>5. OneOwner
      BY DEF OneOwner
    <2> QED
      BY <2>1, <2>2, <2>3, <2>4, <2>5 DEF VulkanTypeOK
  <1>2. ThrowsWhere /\ MeshesWhere /\ ImagesFit /\ SizesFit /\ PipelineFits
    BY DEF ThrowsWhere, MeshesWhere, ImagesFit, SizesFit, PipelineFits, Constructing, Resetting,
           Rendering
  <1>3. QueueFits /\ NothingInUseIsTouched /\ FencesWillSignal /\ FramesAreConsistent
    BY DEF QueueFits, NothingInUseIsTouched, FencesWillSignal, FramesAreConsistent
  <1> QED
    BY <1>1, <1>2, <1>3 DEF VulkanInv

LEMMA StepFits == VulkanInv /\ [Next]_vars => VulkanInv'
  <1> SUFFICES ASSUME VulkanInv, [Next]_vars PROVE VulkanInv'
    OBVIOUS
  <1>1. CASE Next
    <2>1. ControlTypes'
      BY <1>1, InboxStep, PlaceStep, FlagsStep
      DEF ControlTypes, Dimensions, Messages, Constructing, Resetting, Rendering,
          Destroying, Frames
    <2>2. VulkanTypeOK'
      BY <1>1, <2>1, ImageTypesStep, PipelineTypesStep, OwnerStep, GpuTypesStep
      DEF VulkanTypeOK
    <2> QED
      BY <1>1, <2>2, ThrowsStep, MeshesStep, ImagesStep, PipelineStep, SizesStep, FramesStep,
         QueueStep
      DEF VulkanInv, QueuePart
  <1>2. CASE UNCHANGED vars
    BY <1>2
    DEF vars, windowVars, swapchainVars, pipelineVars, meshVars, gpuVars, flagVars, VulkanInv,
        VulkanTypeOK, ControlTypes, ImageTypes, PipelineTypes, GpuTypes, OneOwner, ThrowsWhere,
        MeshesWhere, ImagesFit, SizesFit, PipelineFits, QueueFits, NothingInUseIsTouched,
        FencesWillSignal, FramesAreConsistent, ResizeUnderWay
  <1> QED
    BY <1>1, <1>2

THEOREM InvariantHolds == Spec => []VulkanInv
  BY InitFits, StepFits, PTL DEF Spec

\* The variables keep their types, the queue has room for what is submitted, and
\* what the Allocator gave out is freed once, by the one that has it.
THEOREM AllocationsHaveOneOwner == Spec => []VulkanTypeOK
  <1>1. VulkanInv => VulkanTypeOK
    BY DEF VulkanInv
  <1> QED
    BY <1>1, InvariantHolds, PTL

\* Whatever the driver answers and however the window changes, nothing that the
\* GPU may still use is destroyed or recorded anew.
THEOREM WorkInFlightIsSafe == Spec => []NothingInUseIsTouched
  <1>1. VulkanInv => NothingInUseIsTouched
    BY DEF VulkanInv
  <1> QED
    BY <1>1, InvariantHolds, PTL

\* Whatever acquiring an image returns: no fence is left unsignaled without work that
\* will signal it, and this work waits for a semaphore that is signaled, except that of a
\* frame which was submitted without an image.
THEOREM FencesAreNotOrphaned == Spec => []FencesWillSignal
  <1>1. VulkanInv => FencesWillSignal
    BY DEF VulkanInv
  <1> QED
    BY <1>1, InvariantHolds, PTL

\* What is submitted was recorded with the pipeline that was asked for last, for a
\* framebuffer and a depth image of one size; the images of the swapchain have this size
\* too, unless the thread has still to hear that the window has changed.
THEOREM FramesAreDrawnAsAsked == Spec => []FramesAreConsistent
  <1>1. VulkanInv => FramesAreConsistent
    BY DEF VulkanInv
  <1> QED
    BY <1>1, InvariantHolds, PTL
=============================================================================
