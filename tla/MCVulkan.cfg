SPECIFICATION Spec
CONSTANTS
  small = small  large = large
  shader = shader  missing = missing  triangle = triangle  mesh = mesh
  NumFrames = 2
  Sizes = {small, large}
  Hidden = Hidden
  Shaders = {shader, missing}
  Missing = {missing}
  DefaultShader = triangle
  MeshShader = mesh
  AcquireResults = {"eSuccess", "eErrorOutOfDateKHR", "eErrorSurfaceLostKHR"}
  MaxInbox = 2
  Null = Null
INVARIANTS VulkanTypeOK NothingInUseIsTouched FencesWillSignal FramesAreConsistent
PROPERTIES ResizeIsApplied DestructionEnds
\* The process may exit, and everything is destroyed in the end.
CHECK_DEADLOCK FALSE
