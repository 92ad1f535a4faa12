------------------------------- MODULE VirtFb -------------------------------
(***************************************************************************)
(* The virtual framebuffer in its two forms: virtfb_platform.c, a platform *)
(* driver, and virtfb.c, which sets everything up in its module init.      *)
(* Each is asked by the framebuffer core (fb_set_var) to check a video     *)
(* mode, and then to set it.                                               *)
(*                                                                         *)
(* A mode is a record: x and y give the visible size res, the virtual size *)
(* virt and the offset off of the visible part; bpp; fields gives each     *)
(* colour's offset and length in a pixel; upd is the flag                  *)
(* FB_VMODE_CONUPDATE.  Users choose all of them, and the drivers compute  *)
(* with them in unsigned ints, which wrap.  held may contain "info",       *)
(* "modelist" and "node".                                                  *)
(***************************************************************************)
EXTENDS PlatformModule

CONSTANTS
  Modes,       \* the modes a user may ask for
  UintSize,    \* the range of an unsigned int: 2^32
  PageSize     \* PAGE_SIZE

\* struct fb_var_screeninfo: its numbers are unsigned ints.
Uint == 0 .. UintSize - 1
Axes == [res : Uint, virt : Uint, off : Uint]
Field == [offset : Uint, length : Uint]
ModeType == [x : Axes, y : Axes, bpp : Uint, upd : BOOLEAN,
             fields : [red : Field, green : Field, blue : Field, transp : Field]]

ASSUME ModesAssumption == Modes \subseteq ModeType

\* The default mode does not wrap.
ASSUME WidthAssumption ==
  /\ UintSize \in Nat /\ PageSize \in Nat \ {0}
  /\ UintSize > 128 * 128 * 24 /\ UintSize >= PageSize

VARIABLES
  var,        \* info->var
  fix,        \* info->fix: line (line_length) and len (smem_len)
  mem,        \* bytes allocated at fix.smem_start; 0 when it is NULL
  screen      \* info: base (screen_base: "none", "mem" or freed) and size

fbVars == <<var, fix, mem, screen>>

Framebuffers == {"virtfb_platform", "virtfb"}
Colours == {"red", "green", "blue", "transp"}

Larger(a, b) == IF a > b THEN a ELSE b

\* The value of n in an unsigned int.
Wrap(n) == n % UintSize

\* The offsets and lengths of the four colours.
Layout(r, rl, g, gl, b, bl, t, tl) ==
  [red |-> [offset |-> r, length |-> rl], green |-> [offset |-> g, length |-> gl],
   blue |-> [offset |-> b, length |-> bl], transp |-> [offset |-> t, length |-> tl]]

\* Both set up 128 by 128 pixels of 24 bits, with the colours of 16.
DefaultAxis == [res |-> 128, virt |-> 128, off |-> 0]
DefaultVar == [x |-> DefaultAxis, y |-> DefaultAxis, bpp |-> 24,
               fields |-> Layout(11, 5, 5, 6, 0, 5, 0, 0), upd |-> FALSE]

\* vmalloc_32_user: fails for a size of 0
Allocates(size) ==
  IF size = 0 THEN {FALSE} ELSE {TRUE} \cup {b \in {FALSE} : "vmalloc" \in Faults}

(***************************************************************************)
(* virtfb_platform.c                                                       *)
(***************************************************************************)

Depths == {1, 8, 16, 24, 32}

DepthFor(b) == CHOOSE d \in Depths : d >= b /\ \A e \in Depths : e >= b => e >= d

FieldsFor(depth, alpha) ==
  CASE depth \in {1, 8} -> Layout(0, 8, 0, 8, 0, 8, 0, 0)
    [] depth = 16 /\ alpha -> Layout(0, 5, 5, 5, 10, 5, 15, 1)
    [] depth = 16 /\ ~alpha -> Layout(0, 5, 5, 6, 11, 5, 0, 0)
    [] depth = 24 -> Layout(0, 8, 8, 8, 16, 8, 0, 0)
    [] depth = 32 -> Layout(0, 8, 8, 8, 16, 8, 24, 8)

\* mutant: the offset is left out of the comparison
AxisIgnoresOffset(a, off) ==
  LET res == Larger(a.res, 1) IN [res |-> res, virt |-> Larger(a.virt, res), off |-> off]

\* A dimension of at least one pixel whose visible part lies in the virtual one,
\* unless its end, off + res, wraps.
CheckAxis(a, off) ==
  LET res == Larger(a.res, 1)
  IN  [res |-> res, virt |-> Larger(Larger(a.virt, res), Wrap(off + res)), off |-> off]

Accepts(v) == v.bpp <= 32

\* virtfb_check_var of a mode that it accepts.
CheckVar(v) ==
  LET depth == DepthFor(v.bpp) IN
  [v EXCEPT !.x = CheckAxis(@, IF v.upd THEN var.x.off ELSE @.off),
            !.y = CheckAxis(@, IF v.upd THEN var.y.off ELSE @.off),
            !.bpp = depth,
            !.fields = FieldsFor(depth, @.transp.length # 0)]

Line(v) == Wrap(v.x.virt * v.bpp) \div 8

\* PAGE_ALIGN of an unsigned int: 0 in the last page.
PageAligned(n) == LET end == Wrap(n + PageSize - 1) IN end - (end % PageSize)

\* The old memory goes first; if there is no new one, screen_base and
\* screen_size stay as they are, and fb_set_var restores var alone.
PlatformSetPar(v) ==
  LET len == Wrap(Line(v) * v.y.virt) IN
  /\ fix' = [line |-> Line(v), len |-> len]
  /\ \E ok \in Allocates(PageAligned(len)) :
       IF ok
       THEN mem' = PageAligned(len) /\ screen' = [base |-> "mem", size |-> len] /\ var' = v
       ELSE /\ mem' = 0 /\ UNCHANGED var
            /\ screen' = [screen EXCEPT !.base = IF @ = "none" THEN @ ELSE "freed"]

PlatformSetVar(v, now) ==
  /\ driver = "virtfb_platform" /\ Accepts(v)
  /\ IF now THEN PlatformSetPar(CheckVar(v)) ELSE UNCHANGED fbVars

\* memsize
DefaultSize == Wrap(DefaultVar.x.virt * DefaultVar.y.virt * DefaultVar.bpp) \div 8

\* fb_set_var finds nothing to do, for var is the current mode: set_par does
\* not run.  The result of the allocation is not looked at.
FbProbe ==
  /\ driver = "virtfb_platform" /\ bound = "probing"
  /\ \E fail \in Failing({"framebuffer_alloc", "register_framebuffer"}) :
       \/ /\ fail = "framebuffer_alloc"
          /\ bound' = "unbound" /\ UNCHANGED <<held, lost, fbVars>>
       \/ /\ fail = "register_framebuffer"        \* framebuffer_release, no more
          /\ bound' = "unbound" /\ lost' = lost \cup {"smem", "modelist"}
          /\ UNCHANGED <<held, fbVars>>
       \/ /\ fail = "none"
          /\ bound' = "bound" /\ held' = {"info", "modelist", "node"} /\ UNCHANGED lost
          /\ var' = DefaultVar
          /\ fix' = [line |-> 0, len |-> 0] /\ screen' = [base |-> "none", size |-> 0]
          /\ \E ok \in Allocates(PageAligned(DefaultSize)) :
               mem' = IF ok THEN PageAligned(DefaultSize) ELSE 0
  /\ UNCHANGED <<driver, modVars, file>>

\* unregister_framebuffer frees the mode list; then vfree and
\* framebuffer_release, whether or not a file is open.
FbRemove ==
  /\ driver = "virtfb_platform" /\ bound = "removing"
  /\ bound' = "unbound" /\ held' = {}
  /\ mem' = 0
  /\ UNCHANGED <<driver, modVars, lost, file, var, fix, screen>>

(***************************************************************************)
(* virtfb.c                                                                *)
(***************************************************************************)

\* What virtfb_check_var makes of the mode it is given ...
VirtualAtLeast(v) ==
  [v EXCEPT !.x.virt = Larger(@, v.x.res), !.y.virt = Larger(@, v.y.res)]

\* ... and what it does to the current one at the same time.
Overwritten(cur) == [cur EXCEPT !.bpp = 24, !.fields = Layout(8, 0, 8, 8, 16, 8, 0, 0)]

\* mutant: memory once mapped is used for every mode
TooSmallNever(need) == mem = 0

TooSmall(need) == mem = 0 \/ need > fix.len

\* The memory is replaced when it is too small; old is what var is if that
\* fails.  fix.len is 0 while there is no memory.
VirtfbSetPar(v, old) ==
  LET need == Wrap(v.y.virt * Line(v)) IN
  IF TooSmall(need)
  THEN \E ok \in Allocates(need) :
         IF ok
         THEN /\ var' = v /\ mem' = need
              /\ fix' = [line |-> Line(v), len |-> need]
              /\ screen' = [base |-> "mem", size |-> need]
         ELSE /\ var' = old /\ mem' = 0
              /\ fix' = [line |-> Line(v), len |-> 0]
              /\ screen' = [screen EXCEPT !.base = "none"]
  ELSE var' = v /\ fix' = [fix EXCEPT !.line = Line(v)] /\ UNCHANGED <<mem, screen>>

VirtfbSetVar(v, now) ==
  /\ driver = "virtfb"
  /\ IF now THEN VirtfbSetPar(VirtualAtLeast(v), Overwritten(var))
            ELSE var' = Overwritten(var) /\ UNCHANGED <<fix, mem, screen>>

\* The results of fb_set_var and register_framebuffer are not looked at.
VirtfbInit ==
  /\ driver = "virtfb" /\ module = "unloaded"
  /\ \E fail \in Failing({"framebuffer_alloc", "register_framebuffer"}) :
       IF fail = "framebuffer_alloc" THEN UNCHANGED <<module, bound, held, fbVars>>
       ELSE /\ module' = "live" /\ bound' = "bound"
            /\ held' = {"info", "modelist"} \cup (IF fail = "none" THEN {"node"} ELSE {})
            /\ VirtfbSetPar(Overwritten(DefaultVar), Overwritten(DefaultVar))
  /\ UNCHANGED <<driver, pdrv, pdev, lost, file>>

\* unregister_framebuffer frees the mode list of a registered framebuffer only,
\* and nobody frees videomemory.
VirtfbExit ==
  /\ driver = "virtfb" /\ module = "going"
  /\ module' = "unloaded" /\ bound' = "unbound" /\ held' = {}
  /\ lost' = lost \cup (IF mem # 0 THEN {"smem"} ELSE {})
                  \cup (IF "node" \notin held THEN {"modelist"} ELSE {})
  /\ mem' = 0 /\ fix' = [line |-> 0, len |-> 0] /\ screen' = [base |-> "none", size |-> 0]
  /\ UNCHANGED <<driver, pdrv, pdev, file, var>>

(***************************************************************************)
(* Files, and fb_set_var for the ioctl FBIOPUT_VSCREENINFO.                *)
(***************************************************************************)

FbOpen(f) ==
  /\ driver \in Framebuffers /\ "node" \in held /\ Alive
  /\ ~Open(f)
  /\ file' = [file EXCEPT ![f] = "open"]
  /\ UNCHANGED <<driver, modVars, bindVars, fbVars>>

FbClose(f) ==
  /\ driver \in Framebuffers /\ Open(f)
  /\ file' = [file EXCEPT ![f] = "closed"]
  /\ UNCHANGED <<driver, modVars, bindVars, fbVars>>

\* With FB_ACTIVATE_TEST instead of NOW the mode is only checked.
FbSetVar(f, v, now) ==
  /\ Open(f) /\ v # var
  /\ PlatformSetVar(v, now) \/ VirtfbSetVar(v, now)
  /\ UNCHANGED <<driver, modVars, bindVars, file>>

FbFileStep(f) ==
  FbOpen(f) \/ FbClose(f) \/ \E v \in Modes, now \in BOOLEAN : FbSetVar(f, v, now)

FbInit ==
  /\ var = DefaultVar
  /\ fix = [line |-> 0, len |-> 0] /\ mem = 0 /\ screen = [base |-> "none", size |-> 0]
=============================================================================
