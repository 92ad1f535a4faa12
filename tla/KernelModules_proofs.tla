------------------------ MODULE KernelModules_proofs ------------------------
(***************************************************************************)
(* That open files keep what they use, and that an unloaded module has     *)
(* left nothing behind, whatever fails, for any number of files: provided  *)
(* that a device is unbound under an open file only where its files, like  *)
(* a card's and the nunchuck's, survive it, and that video_device_alloc    *)
(* does not fail, after which v4l2_dummy works on freed memory.            *)
(* The types of all variables, which need no such proviso, come last.      *)
(***************************************************************************)
EXTENDS VirtFb_proofs

Surviving == Cards \cup I2c

Survivable == UnbindInUse \subseteq Surviving /\ "video_device_alloc" \notin Faults

AllClosed == \A f \in Files : ~Open(f)

\* How far the module, its device and the binding of the two have come.
Phases ==
  /\ driver \in Platform \cup {"virtfb", "nunchuck"}
  /\ file \in [Files -> {"closed", "open"}]
  /\ module \in {"unloaded", "loading", "live", "going"}
  /\ pdev \in {"none", "allocated", "added", "deleted"}
  /\ bound \in {"unbound", "probing", "bound", "removing"}
  /\ module = "unloaded" => pdev = "none" /\ ~pdrv /\ bound = "unbound"
  /\ pdev = "deleted" => module = "going"
  /\ IF driver = "virtfb"
     THEN /\ pdev = "none" /\ ~pdrv
          /\ \/ module = "unloaded" /\ bound = "unbound"
             \/ module \in {"live", "going"} /\ bound = "bound"
     ELSE /\ module \in {"live", "going"} => pdev \in {"added", "deleted"}
          /\ \/ pdev = "added" \/ bound = "unbound"
             \/ pdev = "deleted" /\ bound = "removing"

\* What is held comes and goes with the binding, and what needs something else
\* with what it needs.
Holding ==
  /\ bound \in {"unbound", "probing"} => held = {} /\ mem = 0 /\ poll = "off"
  /\ driver \notin Framebuffers => mem = 0
  /\ driver \in Cards => ("pcm" \in held => "card" \in held)
  /\ driver \in Framebuffers => ("node" \in held => "info" \in held)
  /\ driver \in V4l2 => ("node" \in held => {"ddev", "v4l2", "vfd"} \subseteq held)
  /\ driver \in I2c => ("node" \in held => {"polldev", "data"} \subseteq held)
  /\ "freed" \notin held /\ lost \subseteq NeverFreed(driver)

\* When files may be open, and what they hold.
Using ==
  /\ driver \notin I2c =>
       /\ bound \in {"unbound", "probing"} \/ module = "going" => AllClosed
       /\ \A f \in Files : Open(f) => Reaches(driver) \subseteq held
  /\ driver \notin Surviving /\ bound = "removing" => AllClosed
  /\ dpcm = IF driver \in Cards THEN {f \in Files : Open(f)} ELSE {}
  /\ poll # "off" => driver \in I2c /\ "node" \in held /\ \E f \in Files : Open(f)

Inv == Phases /\ Holding /\ Using

\* The sets of names, to be expanded together.
LEMMA Names ==
  /\ Platform = {"alsa_gpio", "soundgen", "virtfb_platform", "v4l2_dummy"}
  /\ Cards = {"alsa_gpio", "soundgen"} /\ Framebuffers = {"virtfb_platform", "virtfb"}
  /\ V4l2 = {"v4l2_dummy"} /\ I2c = {"nunchuck"}
BY DEF Platform, Cards, Framebuffers, V4l2, I2c

\* A module that has not been loaded has nothing.
LEMMA InitInv == Init => Inv
<1> SUFFICES ASSUME Init PROVE Inv
  OBVIOUS
<1>1. Phases
  BY DriversAssumption, Names DEF Init, PlatInit, Phases
<1>2. Holding
  BY DEF Init, PlatInit, FbInit, Holding
<1>3. AllClosed
  BY DEF Init, PlatInit, Open, AllClosed
<1>4. dpcm = {} /\ poll = "off" /\ bound = "unbound"
  BY DEF Init, PlatInit
<1>5. Using
  BY <1>3, <1>4 DEF Using, AllClosed
<1> QED
  BY <1>1, <1>2, <1>5 DEF Inv

\* Steps of the module's init and exit and of the bind files in sysfs.
LEMMA ModuleInv ==
  ASSUME Inv, ModuleStep, UNCHANGED <<dpcm, fbVars, poll>>, Survivable
  PROVE  Inv'
<1> USE Names DEF Inv, Phases, Holding, Using, Open, AllClosed, fbVars, bindVars, modVars, Survivable
<1>1. CASE RegisterDriver
  BY <1>1 DEF RegisterDriver
<1>2. CASE AllocDevice
  BY <1>2 DEF AllocDevice, InitFails, InitUnwound
<1>3. CASE AddDevice
  BY <1>3 DEF AddDevice, InitFails, InitUnwound
<1>4. CASE InitDone
  BY <1>4 DEF InitDone
<1>5. CASE Rmmod
  BY <1>5 DEF Rmmod, Unpinned
<1>6. CASE ExitDevice
  <2>1. /\ module = "going" /\ pdev = "added" /\ driver # "virtfb"
        /\ module' = "going" /\ pdev' = "deleted" /\ pdrv' = pdrv
        /\ UNCHANGED <<driver, held, lost, file, dpcm, mem, poll>>
    BY <1>6 DEF ExitDevice
  <2>2. \/ bound = "bound" /\ bound' = "removing"
        \/ bound = "unbound" /\ bound' = "unbound"
    BY <1>6 DEF ExitDevice
  <2>3. Phases'
    BY <2>1, <2>2
  <2>4. Holding'
    BY <2>1, <2>2
  <2>5. Using'
    BY <2>1, <2>2 DEF Surviving
  <2> QED
    BY <2>3, <2>4, <2>5
<1>7. CASE ExitDriver
  BY <1>7 DEF ExitDriver
<1>8. CASE Bind
  BY <1>8 DEF Bind
<1>9. CASE Unbind
  BY <1>9 DEF Unbind
<1> QED
  BY <1>1, <1>2, <1>3, <1>4, <1>5, <1>6, <1>7, <1>8, <1>9 DEF ModuleStep

\* virtfb.c sets its device up in the module's init; the nunchuck's is there
\* already.  A poll changes nothing but poll.
LEMMA OwnInitInv ==
  ASSUME Inv,
         \/ (VirtfbInit \/ VirtfbExit) /\ UNCHANGED <<dpcm, poll>>
         \/ (NunchuckInit \/ PollStep) /\ UNCHANGED <<dpcm, fbVars>>
  PROVE  Inv'
<1> USE Names DEF Inv, Phases, Holding, Using, Open, AllClosed, fbVars, bindVars, modVars
<1>1. CASE VirtfbInit /\ UNCHANGED <<dpcm, poll>>
  <2> DEFINE Fails == UNCHANGED <<module, bound, held, mem>>
  <2>1. \/ Fails
        \/ module' = "live" /\ bound' = "bound" /\ "info" \in held' /\ "freed" \notin held'
    BY <1>1 DEF VirtfbInit
  <2>2. /\ driver = "virtfb" /\ module = "unloaded"
        /\ UNCHANGED <<driver, pdrv, pdev, lost, file, dpcm, poll>>
    BY <1>1 DEF VirtfbInit
  <2> QED
    BY <2>1, <2>2
<1>2. CASE VirtfbExit /\ UNCHANGED <<dpcm, poll>>
  BY <1>2 DEF VirtfbExit, NeverFreed
<1>3. CASE NunchuckInit /\ UNCHANGED <<dpcm, fbVars>>
  BY <1>3 DEF NunchuckInit
<1>4. CASE PollStep /\ UNCHANGED <<dpcm, fbVars>>
  BY <1>4 DEF PollStep, PollBegin, PollEnd, platVars
<1> QED
  BY <1>1, <1>2, <1>3, <1>4

\* The probes, with every call that may fail.
LEMMA ProbeInv ==
  ASSUME Inv, Probe, Survivable
  PROVE  Inv'
<1> USE Names DEF Inv, Phases, Holding, Using, Open, AllClosed, fbVars, modVars
<1>1. CASE CardProbes /\ UNCHANGED <<fbVars, poll>>
  <2>1. /\ driver \in Cards /\ bound = "probing"
        /\ UNCHANGED <<driver, modVars, file, dpcm, fbVars, poll>>
    BY <1>1 DEF CardProbes, GpioProbe, SoundgenProbe, CardProbe
  <2>2. \/ bound' = "bound" /\ "card" \in held' /\ "freed" \notin held' /\ lost' = lost
        \/ bound' = "unbound" /\ held' = held /\ lost' = lost
    BY <1>1 DEF CardProbes, GpioProbe, SoundgenProbe, CardProbe, ErrorLeaves
  <2> QED
    BY <2>1, <2>2
<1>2. CASE FbProbe /\ UNCHANGED <<dpcm, poll>>
  <2>1. /\ driver = "virtfb_platform" /\ bound = "probing"
        /\ UNCHANGED <<driver, modVars, file, dpcm, poll>>
    BY <1>2 DEF FbProbe
  <2>2. \/ bound' = "unbound" /\ UNCHANGED <<held, mem>>
           /\ lost' \subseteq lost \cup {"smem", "modelist"}
        \/ bound' = "bound" /\ "info" \in held' /\ "freed" \notin held' /\ lost' = lost
    BY <1>2 DEF FbProbe
  <2> QED
    BY <2>1, <2>2 DEF NeverFreed
<1>3. CASE V4l2Probe /\ UNCHANGED <<dpcm, fbVars, poll>>
  <2>1. /\ driver \in V4l2 /\ bound = "probing"
        /\ UNCHANGED <<driver, modVars, lost, file, dpcm, fbVars, poll>>
    BY <1>3 DEF V4l2Probe
  <2>2. \/ bound' = "bound" /\ held' = V4l2Acquired
        \/ bound' = "unbound" /\ held' = held
    BY <1>3 DEF V4l2Probe, Failing, Survivable
  <2> QED
    BY <2>1, <2>2 DEF V4l2Acquired
<1>4. CASE NunchuckProbe /\ UNCHANGED <<dpcm, fbVars>>
  BY <1>4 DEF NunchuckProbe
<1> QED
  BY <1>1, <1>2, <1>3, <1>4 DEF Probe

\* The removes: a card waits for its files, the nunchuck for its poll, and of the
\* others no file is open.
LEMMA RemoveInv ==
  ASSUME Inv, Remove
  PROVE  Inv'
<1> USE Names DEF Inv, Phases, Holding, Using, Open, AllClosed, fbVars, modVars
<1>1. CASE CardRemove /\ UNCHANGED <<fbVars, poll>>
  <2>1. CASE CardDisconnect
    BY <1>1, <2>1 DEF CardDisconnect, Reaches
  <2>2. CASE CardFree
    <3>1. /\ driver \in Cards /\ bound = "removing" /\ bound' = "unbound" /\ held' = {}
          /\ UNCHANGED <<driver, module, pdrv, pdev, lost, file, dpcm, mem, poll>>
      BY <1>1, <2>2 DEF CardFree
    <3>2. AllClosed /\ mem = 0 /\ poll = "off"
      BY <1>1, <2>2 DEF CardFree, LastFileClosed
    <3> QED
      BY <3>1, <3>2
  <2> QED
    BY <1>1, <2>1, <2>2 DEF CardRemove
<1>2. CASE FbRemove /\ UNCHANGED <<dpcm, poll>>
  BY <1>2 DEF FbRemove, Surviving
<1>3. CASE V4l2Remove /\ UNCHANGED <<dpcm, fbVars, poll>>
  BY <1>3 DEF V4l2Remove, Surviving, NeverFreed
<1>4. CASE NunchuckRemove /\ UNCHANGED <<dpcm, fbVars>>
  BY <1>4 DEF NunchuckRemove, NunchuckUnregister, NunchuckFree, CancelSync
<1> QED
  BY <1>1, <1>2, <1>3, <1>4 DEF Remove

\* Open, close, and the setting of a mode.
LEMMA FileInv ==
  ASSUME Inv, NEW f \in Files, FileStep(f), Survivable
  PROVE  Inv'
<1> USE Names DEF Inv, Phases, Holding, Using, Open, AllClosed, Alive, Reaches, Surviving,
        fbVars, bindVars, modVars, Survivable
<1>1. CASE PcmOpen(f) /\ UNCHANGED <<fbVars, poll>>
  BY <1>1 DEF PcmOpen
<1>2. CASE PcmClose(f) /\ UNCHANGED <<fbVars, poll>>
  BY <1>2 DEF PcmClose
<1>3. CASE FbOpen(f) /\ UNCHANGED <<dpcm, poll>>
  BY <1>3 DEF FbOpen
<1>4. CASE FbClose(f) /\ UNCHANGED <<dpcm, poll>>
  BY <1>4 DEF FbClose
<1>5. CASE (\E v \in Modes, now \in BOOLEAN : FbSetVar(f, v, now)) /\ UNCHANGED <<dpcm, poll>>
  <2>1. /\ Open(f) /\ driver \in Framebuffers
        /\ UNCHANGED <<driver, module, pdrv, pdev, bound, held, lost, file, dpcm, poll>>
    BY <1>5 DEF FbSetVar, PlatformSetVar, VirtfbSetVar
  <2>2. bound \notin {"unbound", "probing"}
    BY <2>1
  <2> QED
    BY <2>1, <2>2
<1>6. CASE V4l2Open(f) /\ UNCHANGED <<dpcm, fbVars, poll>>
  BY <1>6 DEF V4l2Open
<1>7. CASE V4l2Close(f) /\ UNCHANGED <<dpcm, fbVars, poll>>
  BY <1>7 DEF V4l2Close, NeverFreed
<1>8. CASE NunchuckOpen(f) /\ UNCHANGED <<dpcm, fbVars>>
  BY <1>8 DEF NunchuckOpen
<1>9. CASE NunchuckClose(f) /\ UNCHANGED <<dpcm, fbVars>>
  BY <1>9 DEF NunchuckClose, CancelSync
<1> QED
  BY <1>1, <1>2, <1>3, <1>4, <1>5, <1>6, <1>7, <1>8, <1>9
  DEF FileStep, CardFileStep, FbFileStep, V4l2FileStep, NunchuckFileStep

\* The three together are an invariant.
LEMMA Invariance ==
  ASSUME Survivable
  PROVE  Spec => []Inv
<1>1. Inv /\ [Next]_vars => Inv'
  <2> SUFFICES ASSUME Inv, [Next]_vars PROVE Inv'
    OBVIOUS
  <2>1. CASE UNCHANGED vars
    BY <2>1 DEF vars, platVars, bindVars, modVars, fbVars, Inv, Phases, Holding, Using, Open,
       AllClosed
  <2>2. CASE Next
    BY <2>2, ModuleInv, OwnInitInv, ProbeInv, RemoveInv, FileInv DEF Next
  <2> QED
    BY <2>1, <2>2
<1> QED
  BY InitInv, <1>1, PTL DEF Spec

\* Whatever calls fail but video_device_alloc, whenever the module is unloaded and
\* its device unbound, and for any set of files: the device that an open file's
\* operations use is there.
THEOREM HandlesStayValid ==
  ASSUME Survivable
  PROVE  Spec => []HandlesValid
<1>1. Inv => HandlesValid
  BY Names DEF Inv, Phases, Holding, Using, AllClosed, HandlesValid
<1> QED
  BY Invariance, <1>1, PTL

\* Likewise, a module that is not loaded, be it that an init failed half way, has
\* left nothing but what its code never frees.
THEOREM NothingIsKept ==
  ASSUME Survivable
  PROVE  Spec => []NothingKept
<1>1. Inv => NothingKept
  BY Names DEF Inv, Phases, Holding, Using, AllClosed, Open, NothingKept
<1> QED
  BY Invariance, <1>1, PTL
-----------------------------------------------------------------------------
(* Types, of all six modules together, in every environment. *)

Acquirable == {"card", "pcm", "node", "info", "modelist", "ddev", "v4l2", "vfd",
               "freed", "polldev", "data"}
Losable == {"smem", "modelist", "vfd", "fh", "heap"}

\* The type invariant without mem, whose type is VirtFb_proofs' business.
ModuleTypes ==
  /\ driver \in Drivers
  /\ module \in {"unloaded", "loading", "live", "going"}
  /\ pdrv \in BOOLEAN /\ pdev \in {"none", "allocated", "added", "deleted"}
  /\ bound \in {"unbound", "probing", "bound", "removing"}
  /\ held \subseteq Acquirable /\ lost \subseteq Losable
  /\ file \in [Files -> {"closed", "open"}] /\ dpcm \subseteq Files
  /\ poll \in {"off", "queued", "running"}

\* No step of any module leaves these types.
LEMMA StepTypes ==
  ASSUME ModuleTypes, [Next]_vars
  PROVE  ModuleTypes'
<1> USE DEF ModuleTypes, bindVars, modVars
<1>1. CASE ModuleStep /\ UNCHANGED <<dpcm, fbVars, poll>>
  <2>1. CASE RegisterDriver \/ AllocDevice \/ AddDevice \/ InitDone
    BY <1>1, <2>1 DEF RegisterDriver, AllocDevice, AddDevice, InitDone, InitFails, InitUnwound
  <2>2. CASE Rmmod \/ ExitDevice \/ ExitDriver \/ Bind \/ Unbind
    BY <1>1, <2>2 DEF Rmmod, ExitDevice, ExitDriver, Bind, Unbind
  <2> QED
    BY <1>1, <2>1, <2>2 DEF ModuleStep
<1>2. CASE (VirtfbInit \/ VirtfbExit) /\ UNCHANGED <<dpcm, poll>>
  <2>1. CASE VirtfbInit
    BY <1>2, <2>1 DEF VirtfbInit, Acquirable
  <2>2. CASE VirtfbExit
    BY <1>2, <2>2 DEF VirtfbExit, Losable
  <2> QED
    BY <1>2, <2>1, <2>2
<1>3. CASE (NunchuckInit \/ PollStep) /\ UNCHANGED <<dpcm, fbVars>>
  BY <1>3 DEF NunchuckInit, PollStep, PollBegin, PollEnd, platVars
<1>4. CASE Probe
  <2>1. CASE CardProbes /\ UNCHANGED <<fbVars, poll>>
    BY <2>1 DEF CardProbes, GpioProbe, SoundgenProbe, CardProbe, ErrorLeaves, Acquirable
  <2>2. CASE FbProbe /\ UNCHANGED <<dpcm, poll>>
    BY <2>2 DEF FbProbe, Acquirable, Losable
  <2>3. CASE V4l2Probe /\ UNCHANGED <<dpcm, fbVars, poll>>
    BY <2>3 DEF V4l2Probe, V4l2Acquired, Acquirable
  <2>4. CASE NunchuckProbe /\ UNCHANGED <<dpcm, fbVars>>
    BY <2>4 DEF NunchuckProbe, Acquirable
  <2> QED
    BY <1>4, <2>1, <2>2, <2>3, <2>4 DEF Probe
<1>5. CASE Remove
  <2>1. CASE CardRemove /\ UNCHANGED <<fbVars, poll>>
    BY <2>1 DEF CardRemove, CardDisconnect, CardFree
  <2>2. CASE FbRemove /\ UNCHANGED <<dpcm, poll>>
    BY <2>2 DEF FbRemove
  <2>3. CASE V4l2Remove /\ UNCHANGED <<dpcm, fbVars, poll>>
    BY <2>3 DEF V4l2Remove, Losable
  <2>4. CASE NunchuckRemove /\ UNCHANGED <<dpcm, fbVars>>
    BY <2>4 DEF NunchuckRemove, NunchuckUnregister, NunchuckFree, CancelSync
  <2> QED
    BY <1>5, <2>1, <2>2, <2>3, <2>4 DEF Remove
<1>6. ASSUME NEW f \in Files, FileStep(f) PROVE ModuleTypes'
  <2>1. CASE CardFileStep(f) /\ UNCHANGED <<fbVars, poll>>
    BY <2>1 DEF CardFileStep, PcmOpen, PcmClose
  <2>2. CASE FbFileStep(f) /\ UNCHANGED <<dpcm, poll>>
    BY <2>2 DEF FbFileStep, FbOpen, FbClose, FbSetVar
  <2>3. CASE V4l2FileStep(f) /\ UNCHANGED <<dpcm, fbVars, poll>>
    BY <2>3 DEF V4l2FileStep, V4l2Open, V4l2Close, Losable
  <2>4. CASE NunchuckFileStep(f) /\ UNCHANGED <<dpcm, fbVars>>
    BY <2>4 DEF NunchuckFileStep, NunchuckOpen, NunchuckClose, CancelSync
  <2> QED
    BY <1>6, <2>1, <2>2, <2>3, <2>4 DEF FileStep
<1>7. CASE UNCHANGED vars
  BY <1>7 DEF vars, platVars
<1> QED
  BY <1>1, <1>2, <1>3, <1>4, <1>5, <1>6, <1>7 DEF Next

\* Every variable of the six modules keeps its type, in every environment; mem
\* by the invariant of the framebuffers.
THEOREM ModulesTypes == Spec => []ModulesTypeOK
<1>1. Init => ModuleTypes
  BY DEF Init, PlatInit, ModuleTypes
<1>2. Spec => []ModuleTypes
  BY <1>1, StepTypes, PTL DEF Spec
<1>3. ModuleTypes /\ FbInv => ModulesTypeOK
  BY DEF ModuleTypes, Acquirable, Losable, FbInv, FbTypes, ModulesTypeOK
<1> QED
  BY <1>2, <1>3, FbInvariance, PTL
=============================================================================
