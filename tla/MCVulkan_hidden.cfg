SPECIFICATION Spec
CONSTANTS
  small = small  large = large
  shader = shader  missing = missing  triangle = triangle  mesh = mesh
  NumFrames = 2
  Sizes = {small, large}
  Hidden = Hidden
  Shaders = {shader, missing}
  Missing = {missing}
  DefaultShader = triangle
  MeshShader = mesh
  AcquireResults = {"eSuccess", "eTimeout", "eSuboptimalKHR", "eErrorOutOfDateKHR",
                    "eErrorSurfaceLostKHR"}
  MaxInbox = 2
  Null = Null
INVARIANT HiddenWindowIsNotResized
CHECK_DEADLOCK FALSE
