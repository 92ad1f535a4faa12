--------------------------- MODULE KernelModules ---------------------------
(***************************************************************************)
(* One of the modules with a device of its own, from load to unload and    *)
(* back, with its device bound and unbound and its files opened and closed *)
(* by other processes meanwhile.                                           *)
(***************************************************************************)
EXTENDS AlsaCard, VirtFb, V4l2Dummy, Nunchuck

vars == <<platVars, dpcm, fbVars, poll>>

\* What the operations of an open file of module d reach.
Reaches(d) ==
  CASE d \in Cards -> {"card", "pcm"}
    [] d \in Framebuffers -> {"info"}
    [] d \in V4l2 -> {"ddev", "v4l2", "vfd"}
    [] d \in I2c -> {}

\* What a module d leaves behind for good.
NeverFreed(d) ==
  CASE d \in Framebuffers -> {"smem", "modelist"}
    [] d \in V4l2 -> {"vfd", "fh"}
    [] d \in Cards \cup I2c -> {}

Init == PlatInit /\ FbInit /\ dpcm = {} /\ poll = "off"

Probe ==
  \/ CardProbes /\ UNCHANGED <<fbVars, poll>>
  \/ FbProbe /\ UNCHANGED <<dpcm, poll>>
  \/ V4l2Probe /\ UNCHANGED <<dpcm, fbVars, poll>>
  \/ NunchuckProbe /\ UNCHANGED <<dpcm, fbVars>>

Remove ==
  \/ CardRemove /\ UNCHANGED <<fbVars, poll>>
  \/ FbRemove /\ UNCHANGED <<dpcm, poll>>
  \/ V4l2Remove /\ UNCHANGED <<dpcm, fbVars, poll>>
  \/ NunchuckRemove /\ UNCHANGED <<dpcm, fbVars>>

FileStep(f) ==
  \/ CardFileStep(f) /\ UNCHANGED <<fbVars, poll>>
  \/ FbFileStep(f) /\ UNCHANGED <<dpcm, poll>>
  \/ V4l2FileStep(f) /\ UNCHANGED <<dpcm, fbVars, poll>>
  \/ NunchuckFileStep(f) /\ UNCHANGED <<dpcm, fbVars>>

Next ==
  \/ ModuleStep /\ UNCHANGED <<dpcm, fbVars, poll>>
  \/ (VirtfbInit \/ VirtfbExit) /\ UNCHANGED <<dpcm, poll>>
  \/ (NunchuckInit \/ PollStep) /\ UNCHANGED <<dpcm, fbVars>>
  \/ Probe \/ Remove
  \/ \E f \in Files : FileStep(f)

Spec == Init /\ [][Next]_vars

\* Who has begun a probe, a remove or the unload of a module goes on, and the
\* lock of a device, a mutex, serves its waiters in turn.  A work item that is
\* cancelled ends, and is not queued again.  Nobody is obliged to begin, nor to
\* close a file.
Fairness ==
  /\ WF_vars(Probe) /\ WF_vars(Remove)
  /\ SF_vars(ExitDevice /\ UNCHANGED <<dpcm, fbVars, poll>>)
  /\ WF_vars(ExitDriver /\ UNCHANGED <<dpcm, fbVars, poll>>)
  /\ WF_vars(VirtfbExit /\ UNCHANGED <<dpcm, poll>>)
  /\ WF_vars(PollEnd /\ UNCHANGED <<dpcm, fbVars>>)
  /\ SF_vars(NunchuckUnregister /\ UNCHANGED <<dpcm, fbVars>>)

FairSpec == Spec /\ Fairness

-----------------------------------------------------------------------------

(***************************************************************************)
(* Properties.                                                             *)
(***************************************************************************)

\* Every variable has its type.
ModulesTypeOK ==
  /\ driver \in Drivers
  /\ module \in {"unloaded", "loading", "live", "going"}
  /\ pdrv \in BOOLEAN /\ pdev \in {"none", "allocated", "added", "deleted"}
  /\ bound \in {"unbound", "probing", "bound", "removing"}
  /\ held \subseteq {"card", "pcm", "node", "info", "modelist", "ddev", "v4l2", "vfd",
                    "freed", "polldev", "data"}
  /\ lost \subseteq {"smem", "modelist", "vfd", "fh", "heap"}
  /\ file \in [Files -> {"closed", "open"}]
  /\ dpcm \subseteq Files
  /\ mem \in Nat /\ poll \in {"off", "queued", "running"}

\* What an open file's operations reach is there, and so is the module's code:
\* the module is pinned, and a card that is removed waits for its files.  The
\* nunchuck's files pin nothing; its poll function, which runs while they are
\* open, is gone before its data is.
HandlesValid ==
  /\ \A f \in Files : Open(f) /\ driver # "nunchuck" =>
       /\ Reaches(driver) \subseteq held
       /\ module \in {"loading", "live"}
       /\ (driver \in Cards => f \in dpcm)
  /\ poll # "off" => {"polldev", "data"} \subseteq held /\ \E f \in Files : Open(f)

\* Whatever fails on the way, a module that is not loaded has no registration,
\* no device, no memory and no file left, but for what its code never frees;
\* and the cards never lose anything.
NothingKept ==
  /\ module = "unloaded" => /\ ~pdrv /\ pdev = "none" /\ bound = "unbound"
                            /\ held = {} /\ mem = 0 /\ dpcm = {} /\ poll = "off"
  /\ bound = "unbound" => held = {}
  /\ lost \subseteq NeverFreed(driver)

\* Users choose the sizes, which wrap when they are multiplied.  Whatever they
\* choose, read and write, which go by screen_base and screen_size, stay inside
\* the memory while there is any.  So do the lines of the mode, unless
\* their size has wrapped; virtfb_platform's are as long as the mode says.
ScreenInMemory ==
  "info" \in held /\ mem # 0 =>
    /\ screen.base # "freed"
    /\ screen.base = "mem" => screen.size <= mem
    /\ fix.line * var.y.virt < UintSize => fix.line * var.y.virt <= mem
    /\ /\ driver = "virtfb_platform"
       /\ var.x.virt * var.bpp < UintSize
       /\ Line(var) * var.y.virt < UintSize
       => ((var.x.virt * var.bpp) \div 8) * var.y.virt <= mem

Bits(c) == c.offset .. c.offset + c.length - 1

\* What virtfb_platform has accepted it accepts again, unchanged, wherever sums
\* wrap; the visible part lies in the virtual screen unless its end has wrapped,
\* and in a mode of 16 bits or more each colour has bits of the pixel to itself.
ModeAcceptable ==
  driver = "virtfb_platform" /\ "info" \in held =>
    /\ var # DefaultVar => Accepts(var) /\ CheckVar(var) = var
    /\ \A a \in {var.x, var.y} :
         /\ a.res > 0 /\ a.res <= a.virt
         /\ a.off + a.res < UintSize => a.off + a.res <= a.virt
    /\ var.bpp >= 16 =>
         \A c \in Colours :
           /\ Bits(var.fields[c]) \subseteq 0 .. var.bpp - 1
           /\ \A d \in Colours \ {c} : Bits(var.fields[c]) \cap Bits(var.fields[d]) = {}

\* rmmod, once begun, ends: it never waits for a file.
ExitEnds == module = "going" ~> module = "unloaded"

=============================================================================
