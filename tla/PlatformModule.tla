--------------------------- MODULE PlatformModule ---------------------------
(***************************************************************************)
(* What alsa_gpio, alsa_sound_gen, virtfb_platform and v4l2-driver have in *)
(* common: a module that registers a platform driver and a platform device *)
(* for it, so that the driver's probe runs inside the module's init and    *)
(* its remove inside the module's exit or through the unbind file in       *)
(* sysfs; and files, which may be open meanwhile.  The probes, removes and *)
(* file operations are in AlsaCard, VirtFb and V4l2Dummy; KernelModules    *)
(* puts them together.                                                     *)
(***************************************************************************)
EXTENDS Naturals

CONSTANTS
  Drivers,       \* the modules under study: one of them is loaded
  Files,         \* open file descriptors
  Faults,        \* the calls that may fail
  UnbindInUse    \* bound: the drivers whose device is unbound although a file is open

Platform == {"alsa_gpio", "soundgen", "virtfb_platform", "v4l2_dummy"}

ASSUME DriversAssumption ==
  /\ Drivers \subseteq Platform \cup {"virtfb", "nunchuck"}
  /\ UnbindInUse \subseteq Drivers

VARIABLES
  driver,    \* the module's name
  module,    \* "unloaded", "loading", "live" or "going"
  pdrv,      \* the platform driver is registered
  pdev,      \* the platform device: "none", "allocated", "added" or "deleted"
  bound,     \* "unbound", "probing", "bound" or "removing"
  held,      \* what probe has acquired and nobody has given back
  lost,      \* what was acquired and can no longer be given back
  file       \* each file: "closed" or "open"

modVars == <<module, pdrv, pdev>>
bindVars == <<bound, held, lost>>
platVars == <<driver, modVars, bindVars, file>>

\* The call that fails in a handler that makes these calls, or none.
Failing(calls) == (calls \cap Faults) \cup {"none"}

Open(f) == file[f] = "open"

\* mutant: an open file does not keep the module
NotPinned == TRUE

\* The file operations name the module as their owner; those of an input device
\* are the input core's.
Unpinned == driver = "nunchuck" \/ \A f \in Files : ~Open(f)

\* The module to which an open gives a reference is not on its way out.  An open
\* that overlaps an unbind counts as a file that is open while it runs.
Alive == module # "going" /\ (bound = "removing" => driver \in UnbindInUse)

(***************************************************************************)
(* Module initialisation.                                                  *)
(***************************************************************************)

RegisterDriver ==
  /\ module = "unloaded" /\ driver \in Platform
  /\ \E fail \in Failing({"platform_driver_register"}) :
       IF fail = "none" THEN module' = "loading" /\ pdrv' = TRUE
                        ELSE UNCHANGED <<module, pdrv>>
  /\ UNCHANGED <<driver, pdev, bindVars, file>>

\* mutant: a failing init leaves the driver registered
InitDriverKept == pdev' = "none" /\ UNCHANGED pdrv

\* The labels put and unreg.
InitUnwound == pdev' = "none" /\ pdrv' = FALSE

InitFails == module' = "unloaded" /\ InitUnwound /\ UNCHANGED bound

AllocDevice ==
  /\ module = "loading" /\ pdrv /\ pdev = "none"
  /\ \E fail \in Failing({"platform_device_alloc"}) :
       IF fail = "none" THEN pdev' = "allocated" /\ UNCHANGED <<module, pdrv, bound>>
                        ELSE InitFails
  /\ UNCHANGED <<driver, held, lost, file>>

\* The driver is there already: adding the device probes it.
AddDevice ==
  /\ module = "loading" /\ pdev = "allocated"
  /\ \E fail \in Failing({"platform_device_add"}) :
       IF fail = "none" THEN pdev' = "added" /\ bound' = "probing" /\ UNCHANGED <<module, pdrv>>
                        ELSE InitFails
  /\ UNCHANGED <<driver, held, lost, file>>

\* The module is live whether or not its device could be probed.
InitDone ==
  /\ module = "loading" /\ pdev = "added" /\ bound \in {"bound", "unbound"}
  /\ module' = "live"
  /\ UNCHANGED <<driver, pdrv, pdev, bindVars, file>>

(***************************************************************************)
(* Module exit.                                                            *)
(***************************************************************************)

Rmmod ==
  /\ module = "live" /\ Unpinned
  /\ module' = "going"
  /\ UNCHANGED <<driver, pdrv, pdev, bindVars, file>>

\* platform_device_unregister waits for a probe or a remove that runs, and then
\* removes the driver from the device.
ExitDevice ==
  /\ module = "going" /\ pdev = "added" /\ bound \in {"bound", "unbound"}
  /\ pdev' = "deleted"
  /\ bound' = IF bound = "bound" THEN "removing" ELSE "unbound"
  /\ UNCHANGED <<driver, module, pdrv, held, lost, file>>

ExitDriver ==
  /\ module = "going" /\ pdev = "deleted" /\ bound = "unbound"
  /\ pdev' = "none" /\ pdrv' = FALSE
  /\ module' = "unloaded"
  /\ UNCHANGED <<driver, bindVars, file>>

(***************************************************************************)
(* The bind and unbind files of the driver in sysfs.                       *)
(***************************************************************************)

Bind ==
  /\ pdev = "added" /\ bound = "unbound"
  /\ bound' = "probing"
  /\ UNCHANGED <<driver, modVars, held, lost, file>>

Unbind ==
  /\ pdev = "added" /\ bound = "bound"
  /\ driver \in UnbindInUse \/ \A f \in Files : ~Open(f)
  /\ bound' = "removing"
  /\ UNCHANGED <<driver, modVars, held, lost, file>>

-----------------------------------------------------------------------------

PlatInit ==
  /\ driver \in Drivers
  /\ module = "unloaded" /\ pdrv = FALSE /\ pdev = "none"
  /\ bound = "unbound" /\ held = {} /\ lost = {}
  /\ file = [f \in Files |-> "closed"]

ModuleStep ==
  \/ RegisterDriver \/ AllocDevice \/ AddDevice \/ InitDone
  \/ Rmmod \/ ExitDevice \/ ExitDriver
  \/ Bind \/ Unbind

=============================================================================
