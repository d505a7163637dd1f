---- MODULE MCVulkanBackend ----
(* Two frames in flight, one shader with a file and one without. *)
EXTENDS VulkanBackend, TLC

CONSTANTS small, large, shader, missing, triangle, mesh
=============================================================================
