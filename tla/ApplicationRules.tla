---- MODULE ApplicationRules ----
(***************************************************************************)
(* The rules that the application gives its Injector: for every type, what   *)
(* its recipe asks for.  A recipe that calls injector.get<>() is modelled by  *)
(* the calls that it makes, one that a recipe makes twice once.  VkbInstance  *)
(* and the like are the types of vkb, the others those of vk::raii.           *)
(***************************************************************************)
EXTENDS Naturals, Sequences

CONSTANTS HEADLESS, VKDEBUG  \* the properties that rules look at

ASSUME RulesAssumption == {HEADLESS, VKDEBUG} \subseteq BOOLEAN

Get(T)   == [type |-> T, how |-> "REFERENCE"]
Creat(T) == [type |-> T, how |-> "NEW_VALUE"]
GetAll(Ts) == [n \in DOMAIN Ts |-> Get(Ts[n])]

bindImpl(T) == [binds |-> TRUE, deps |-> <<Get(T)>>]
addRecipe(deps) == [binds |-> FALSE, deps |-> deps]
addCtorRecipe(Ts) == addRecipe(GetAll(Ts))

-----------------------------------------------------------------------------
(* vkmisc: the custom recipes. *)

command_buffers_recipe == addRecipe(GetAll(<<"CommandPool", "Device">>))
command_pool_recipe    == addRecipe(GetAll(<<"DeviceQueues_t", "Device">>))
debug_utils_messenger_recipe == addRecipe(GetAll(<<"Instance", "VkbInstance">>))
device_recipe          == addRecipe(GetAll(<<"PhysicalDevice", "VkbDevice">>))
device_queues_recipe   == addRecipe(GetAll(<<"ILogger", "VkbDevice", "Device">>))
fence_recipe           == addRecipe(GetAll(<<"Device">>))
instance_recipe        == addRecipe(GetAll(<<"Context", "VkbInstance">>))
physical_device_recipe == addRecipe(GetAll(<<"Instance", "VkbDevice">>))
semaphore_recipe       == addRecipe(GetAll(<<"Device">>))
surface_recipe         == addRecipe(GetAll(<<"Instance", "IWindow">>))
system_info_recipe     == addRecipe(GetAll(<<"ILogger">>))

\* The debug utilities come after the instance and before the device, so that
\* they are destroyed between the two.
vkb_device_recipe ==
  addRecipe(GetAll(<<"ILogger", "PropertyMap">>
                   \o (IF VKDEBUG THEN <<"DebugUtilsMessengerEXT">> ELSE <<>>)
                   \o <<"VkbInstance", "IWindow", "SurfaceKHR">>))

vkb_instance_recipe == addRecipe(GetAll(<<"ILogger", "PropertyMap", "SystemInfo">>))

\* The arguments, and what the constructor asks the injector for.
VulkanBackendRecipe ==
  addRecipe(GetAll(<<"ILogger", "Injector", "IWindow", "Device", "Swapchain", "Pipeline",
                     "DeviceQueues_t", "Allocator">>)
            \o <<Get("CommandBuffers"), Creat("Fence"), Creat("Semaphore"), Get("PropertyMap")>>)

install_vk_initializer_rules ==
  [SystemInfo             |-> system_info_recipe,
   VkbInstance            |-> vkb_instance_recipe,
   Instance               |-> instance_recipe,
   DebugUtilsMessengerEXT |-> debug_utils_messenger_recipe,
   SurfaceKHR             |-> surface_recipe,
   VkbDevice              |-> vkb_device_recipe,
   PhysicalDevice         |-> physical_device_recipe,
   Device                 |-> device_recipe,
   DeviceQueues_t         |-> device_queues_recipe,
   CommandPool            |-> command_pool_recipe,
   CommandBuffers         |-> command_buffers_recipe,
   Fence                  |-> fence_recipe,
   Semaphore              |-> semaphore_recipe,
   Allocator              |-> addCtorRecipe(<<"ILogger", "Instance", "PhysicalDevice", "Device">>),
   Swapchain              |-> addCtorRecipe(<<"Injector", "ILogger", "IWindow", "Allocator",
                                              "Device", "VkbDevice">>),
   Pipeline               |-> addCtorRecipe(<<"ILogger", "Device", "Swapchain", "PropertyMap">>),
   VulkanBackend          |-> VulkanBackendRecipe,
   IGraphicsBackend       |-> bindImpl("VulkanBackend")]

-----------------------------------------------------------------------------
installDefaultRules ==
  [MailboxRouter       |-> addCtorRecipe(<<"ILogger", "MessageQueueFactory">>),
   SystemWindow        |-> addCtorRecipe(<<"ILogger", "InputHandler">>),
   InputHandler        |-> addCtorRecipe(<<"MailboxRouter">>),
   Interpreter         |-> addCtorRecipe(<<"Injector", "ILogger", "MailboxRouter">>),
   CoreGraphicsEngine  |-> addCtorRecipe(<<"Injector", "ILogger", "MailboxRouter",
                                           "IGraphicsBackend">>),
   CLIInput            |-> addCtorRecipe(<<"ILogger", "MailboxRouter">>),
   IClock              |-> bindImpl("Clock"),
   IWindow             |-> bindImpl(IF HEADLESS THEN "NullWindow" ELSE "SystemWindow"),
   MessageQueueFactory |-> addRecipe(GetAll(<<"ILogger">>))]

installMinimalRules ==
  [ILogger     |-> bindImpl("SpdlogLogger"),
   PropertyMap |-> addCtorRecipe(<<"ILogger">>),
   CLIParser   |-> addCtorRecipe(<<"ILogger", "PropertyMap">>)]

\* What main asks for, in this order, with the switch --interactive.
oml_main == <<"CLIParser", "PropertyMap", "IWindow", "CoreGraphicsEngine", "CLIInput",
              "Interpreter", "MailboxRouter", "IClock">>
=============================================================================
