--------------------------- MODULE VirtFb_proofs ---------------------------
(***************************************************************************)
(* The framebuffers' sizes and modes, for any set of modes that users ask  *)
(* for, any failing calls and any number of files, and any width of an     *)
(* unsigned int that holds the default mode.                               *)
(***************************************************************************)
EXTENDS KernelModules, TLAPS

\* What the properties rest on: the types of what they compare, ...
FbTypes ==
  /\ var \in ModeType /\ mem \in Nat
  /\ fix \in [line : Nat, len : Nat]
  /\ screen \in [base : {"none", "mem", "freed"}, size : Nat]

\* A size fits into the memory, or it has wrapped.
Fits(size) == size < UintSize => size <= mem

\* ... that the memory, when there is any, has the size that fix and screen say
\* and that the mode needs, ...
Sized ==
  mem # 0 =>
    /\ screen.base # "freed"
    /\ screen.base = "mem" => screen.size <= mem
    /\ Fits(fix.line * var.y.virt)
    /\ driver = "virtfb_platform" => Fits(Line(var) * var.y.virt)
    /\ driver = "virtfb" => fix.len = mem

CheckedAxis(a) ==
  /\ a.res > 0 /\ a.res <= a.virt
  /\ Wrap(a.off + a.res) <= a.virt

\* ... and that virtfb_platform has checked its mode, or set it up itself.
Checked(v) ==
  /\ v.bpp \in Depths
  /\ v.fields = FieldsFor(v.bpp, v.fields.transp.length # 0)
  /\ \A a \in {v.x, v.y} : CheckedAxis(a)

FbInv ==
  FbTypes /\ Sized /\ (driver = "virtfb_platform" => var = DefaultVar \/ Checked(var))

(***************************************************************************)
(* Unsigned ints.                                                          *)
(***************************************************************************)

LEMMA DivMod ==
  ASSUME NEW n \in Nat, NEW b \in Nat \ {0}
  PROVE  n \div b \in Nat /\ n = b * (n \div b) + (n % b) /\ n % b \in 0 .. b - 1
BY Z3

LEMMA Wrapping ==
  ASSUME NEW n \in Nat
  PROVE  Wrap(n) \in Uint /\ (n < UintSize => Wrap(n) = n)
<1>1. UintSize \in Nat \ {0}
  BY WidthAssumption
<1>2. n % UintSize \in 0 .. UintSize - 1
  BY <1>1, DivMod
<1>3. n < UintSize => n % UintSize = n
  BY <1>1, Z3
<1> QED
  BY <1>2, <1>3 DEF Wrap, Uint

\* PAGE_ALIGN never gives less than it was given, but for 0.
LEMMA PagesHold ==
  ASSUME NEW n \in Uint
  PROVE  PageAligned(n) \in Nat /\ (PageAligned(n) = 0 \/ PageAligned(n) >= n)
<1> DEFINE end == Wrap(n + PageSize - 1)
           rest == end % PageSize
<1>1. UintSize \in Nat /\ PageSize \in Nat \ {0} /\ PageSize <= UintSize /\ n \in Nat
      /\ n < UintSize
  BY WidthAssumption DEF Uint
<1>2. n + PageSize - 1 \in Nat /\ end \in Nat
  BY <1>1, Wrapping DEF Uint
<1>3. rest \in 0 .. PageSize - 1 /\ end = PageSize * (end \div PageSize) + rest
      /\ end \div PageSize \in Nat
  BY <1>1, <1>2, DivMod
<1>4. end - rest \in Nat
  <2> HIDE DEF end, rest
  <2>1. PageSize * (end \div PageSize) \in Nat
    BY <1>1, <1>3
  <2> QED
    BY <1>1, <1>2, <1>3, <2>1
<1>5. PageAligned(n) = end - rest
  BY DEF PageAligned
<1>6. CASE n + PageSize - 1 < UintSize
  <2>1. end = n + PageSize - 1
    BY <1>2, <1>6, Wrapping
  <2> HIDE DEF end, rest
  <2> QED
    BY <1>1, <1>3, <1>4, <1>5, <2>1
<1>7. CASE n + PageSize - 1 >= UintSize
  <2> DEFINE w == n + PageSize - 1 - UintSize
  <2>1. w \in Nat /\ w < PageSize /\ w < UintSize /\ n + PageSize - 1 = w + UintSize
    BY <1>1, <1>7
  <2>2. end = w
    <3> HIDE DEF w
    <3>1. (w + UintSize) % UintSize = w
      BY <1>1, <2>1, Z3
    <3> QED
      BY <2>1, <3>1 DEF Wrap
  <2>3. w % PageSize = w
    <3> HIDE DEF w
    <3> QED
      BY <1>1, <2>1, Z3
  <2>4. rest = end
    BY <2>2, <2>3
  <2> HIDE DEF w, end, rest
  <2> QED
    BY <1>2, <1>5, <2>4
<1> QED
  BY <1>1, <1>4, <1>5, <1>6, <1>7

(***************************************************************************)
(* Modes.                                                                  *)
(***************************************************************************)

LEMMA LineType ==
  ASSUME NEW v \in ModeType
  PROVE  Line(v) \in Nat /\ v.x.virt \in Nat /\ v.y.virt \in Nat
         /\ v.bpp \in Nat /\ v.x.virt * v.bpp \in Nat /\ Line(v) * v.y.virt \in Nat
<1>1. v.x.virt \in Nat /\ v.y.virt \in Nat /\ v.bpp \in Nat
  BY DEF ModeType, Axes, Uint
<1>2. v.x.virt * v.bpp \in Nat
  BY <1>1
<1>3. Wrap(v.x.virt * v.bpp) \in Nat
  BY <1>2, Wrapping DEF Uint
<1>4. \A n \in Nat : n \div 8 \in Nat
  OBVIOUS
<1>5. Line(v) \in Nat
  BY <1>3, <1>4 DEF Line
<1>6. Line(v) * v.y.virt \in Nat
  BY <1>1, <1>5
<1> QED
  BY <1>1, <1>2, <1>5, <1>6

LEMMA DefaultType ==
  /\ DefaultVar \in ModeType
  /\ Line(DefaultVar) * DefaultVar.y.virt = 49152
  /\ PageAligned(DefaultSize) = 0 \/ PageAligned(DefaultSize) >= 49152
  /\ PageAligned(DefaultSize) \in Nat
<1> USE DEF DefaultVar, DefaultAxis
<1>1. UintSize \in Nat /\ UintSize > 393216
  BY WidthAssumption
<1>2. DefaultVar \in ModeType
  BY <1>1 DEF Layout, ModeType, Axes, Field, Uint
<1>3. Wrap(128 * 24) = 128 * 24 /\ Wrap(128 * 128 * 24) = 128 * 128 * 24
  BY <1>1, Wrapping
<1>4. Line(DefaultVar) = 384 /\ DefaultSize = 49152
  BY <1>3 DEF Line, DefaultSize
<1>5. 49152 \in Uint
  BY <1>1 DEF Uint
<1> QED
  BY <1>2, <1>4, <1>5, PagesHold

\* The depth is the least that is enough: there is one for every number of bits
\* that is accepted, and it is its own.
LEMMA Depth ==
  ASSUME NEW b \in Nat, b <= 32
  PROVE  DepthFor(b) \in Depths /\ (b \in Depths => DepthFor(b) = b)
<1> DEFINE Least(d) == d >= b /\ \A e \in Depths : e >= b => e >= d
<1>1. \E d \in Depths : Least(d)
  <2>1. CASE b <= 1
    <3>1. Least(1)
      BY <2>1 DEF Depths
    <3> QED
      BY <3>1 DEF Depths
  <2>2. CASE b > 1 /\ b <= 8
    <3>1. Least(8)
      BY <2>2 DEF Depths
    <3> QED
      BY <3>1 DEF Depths
  <2>3. CASE b > 8 /\ b <= 16
    <3>1. Least(16)
      BY <2>3 DEF Depths
    <3> QED
      BY <3>1 DEF Depths
  <2>4. CASE b > 16 /\ b <= 24
    <3>1. Least(24)
      BY <2>4 DEF Depths
    <3> QED
      BY <3>1 DEF Depths
  <2>5. CASE b > 24
    <3>1. Least(32)
      BY <2>5 DEF Depths
    <3> QED
      BY <3>1 DEF Depths
  <2> QED
    BY <2>1, <2>2, <2>3, <2>4, <2>5
<1>2. DepthFor(b) = CHOOSE d \in Depths : Least(d)
  BY DEF DepthFor
<1>3. DepthFor(b) \in Depths /\ Least(DepthFor(b))
  BY <1>1, <1>2
<1>4. b \in Depths => DepthFor(b) = b
  BY <1>3 DEF Depths
<1> QED
  BY <1>3, <1>4

LEMMA FieldsType ==
  ASSUME NEW d \in Depths, NEW alpha \in BOOLEAN
  PROVE  /\ FieldsFor(d, alpha) \in [red : Field, green : Field, blue : Field, transp : Field]
         /\ FieldsFor(d, FieldsFor(d, alpha).transp.length # 0) = FieldsFor(d, alpha)
<1>0. 0 .. 24 \subseteq Uint
  BY WidthAssumption DEF Uint
<1> USE <1>0 DEF FieldsFor, Layout, Field
<1>1. CASE d \in {1, 8}
  BY <1>1
<1>2. CASE d = 16 /\ alpha
  BY <1>2
<1>3. CASE d = 16 /\ ~alpha
  BY <1>3
<1>4. CASE d = 24
  BY <1>4
<1>5. CASE d = 32
  BY <1>5
<1> QED
  BY <1>1, <1>2, <1>3, <1>4, <1>5 DEF Depths

LEMMA AxisChecked ==
  ASSUME NEW a \in Axes, NEW off \in Uint
  PROVE  CheckAxis(a, off) \in Axes /\ CheckedAxis(CheckAxis(a, off))
<1> DEFINE res == Larger(a.res, 1)
           end == Wrap(off + res)
<1>1. a.res \in Uint /\ a.virt \in Uint /\ 1 \in Uint /\ \A n \in Uint : n \in Nat
  BY WidthAssumption DEF Axes, Uint
<1>2. res \in Uint /\ res > 0
  BY <1>1 DEF Larger
<1>3. end \in Uint
  BY <1>1, <1>2, Wrapping
<1>4. CheckAxis(a, off) = [res |-> res, virt |-> Larger(Larger(a.virt, res), end), off |-> off]
  BY DEF CheckAxis
<1> HIDE DEF end
<1>5. /\ Larger(Larger(a.virt, res), end) \in Uint
      /\ Larger(Larger(a.virt, res), end) >= res
      /\ Larger(Larger(a.virt, res), end) >= end
  BY <1>1, <1>2, <1>3 DEF Larger
<1> HIDE DEF res
<1>6. Wrap(off + res) = end
  BY DEF end
<1> QED
  BY <1>1, <1>2, <1>3, <1>4, <1>5, <1>6 DEF Axes, CheckedAxis

\* Whatever virtfb_check_var accepts, what it makes of it is well-formed.
LEMMA CheckResult ==
  ASSUME NEW v \in ModeType, Accepts(v), var \in ModeType
  PROVE  CheckVar(v) \in ModeType /\ Checked(CheckVar(v))
<1> DEFINE depth == DepthFor(v.bpp)
           xo == IF v.upd THEN var.x.off ELSE v.x.off
           yo == IF v.upd THEN var.y.off ELSE v.y.off
           fields == FieldsFor(depth, v.fields.transp.length # 0)
           c == CheckVar(v)
<1>1. depth \in Depths /\ Depths \subseteq Uint
  BY Depth, WidthAssumption DEF ModeType, Accepts, Uint, Depths
<1>2. xo \in Uint /\ yo \in Uint /\ v.x \in Axes /\ v.y \in Axes
  BY DEF ModeType, Axes
<1>3. /\ c.x = CheckAxis(v.x, xo) /\ c.y = CheckAxis(v.y, yo) /\ c.bpp = depth
      /\ c.fields = fields /\ c.upd = v.upd
  BY DEF CheckVar, ModeType
<1>4. c = [v EXCEPT !.x = c.x, !.y = c.y, !.bpp = c.bpp, !.fields = c.fields]
  BY <1>3 DEF CheckVar
<1> HIDE DEF depth, xo, yo, fields, c
<1>5. /\ c.x \in Axes /\ c.y \in Axes
      /\ \A a \in {c.x, c.y} : CheckedAxis(a)
  BY <1>2, <1>3, AxisChecked
<1>6. /\ c.fields \in [red : Field, green : Field, blue : Field, transp : Field]
      /\ c.fields = FieldsFor(c.bpp, c.fields.transp.length # 0)
  BY <1>1, <1>3, FieldsType DEF fields
<1>7. c.bpp \in Uint /\ c.upd \in BOOLEAN
  BY <1>1, <1>3 DEF ModeType
<1>8. c \in ModeType
  BY <1>4, <1>5, <1>6, <1>7 DEF ModeType
<1> QED
  BY <1>1, <1>3, <1>5, <1>6, <1>8 DEF Checked, c

\* What has been checked, checked again, stays as it is.
LEMMA CheckStable ==
  ASSUME var \in ModeType, Checked(var)
  PROVE  Accepts(var) /\ CheckVar(var) = var
<1>1. Accepts(var) /\ DepthFor(var.bpp) = var.bpp
  BY Depth DEF Checked, Accepts, Depths
<1>2. FieldsFor(var.bpp, var.fields.transp.length # 0) = var.fields
  BY DEF Checked
<1>3. \A a \in {var.x, var.y} : CheckAxis(a, a.off) = a
  <2> SUFFICES ASSUME NEW a \in {var.x, var.y}
               PROVE  CheckAxis(a, a.off) = a
    OBVIOUS
  <2> DEFINE end == Wrap(a.off + a.res)
  <2>1. a \in Axes /\ a.res > 0 /\ a.res <= a.virt /\ end <= a.virt
    BY DEF Checked, CheckedAxis, ModeType
  <2>2. a.res \in Nat /\ a.virt \in Nat /\ a.off \in Nat
    BY <2>1 DEF Axes, Uint
  <2>3. end \in Nat
    BY <2>2, Wrapping DEF Uint
  <2>4. Larger(a.res, 1) = a.res
    BY <2>1, <2>2 DEF Larger
  <2> HIDE DEF end
  <2>5. Larger(Larger(a.virt, a.res), end) = a.virt
    BY <2>1, <2>2, <2>3 DEF Larger
  <2>6. CheckAxis(a, a.off) = [res |-> a.res, virt |-> a.virt, off |-> a.off]
    BY <2>4, <2>5 DEF CheckAxis, end
  <2> QED
    BY <2>1, <2>6 DEF Axes
<1>4. CheckVar(var) = [var EXCEPT !.x = @, !.y = @, !.bpp = @, !.fields = @]
  BY <1>1, <1>2, <1>3 DEF CheckVar
<1> QED
  BY <1>1, <1>4 DEF ModeType

\* The colours of a checked mode of 16 bits or more, and of the default one, do
\* not overlap.
LEMMA OwnBits ==
  ASSUME NEW v \in ModeType, v = DefaultVar \/ Checked(v), v.bpp >= 16
  PROVE  \A c \in Colours :
           /\ Bits(v.fields[c]) \subseteq 0 .. v.bpp - 1
           /\ \A d \in Colours \ {c} : Bits(v.fields[c]) \cap Bits(v.fields[d]) = {}
<1> USE DEF Colours, Bits, Layout
<1>1. CASE v = DefaultVar
  BY <1>1 DEF DefaultVar
<1>2. CASE Checked(v)
  <2> DEFINE alpha == v.fields.transp.length # 0
  <2>1. v.bpp \in {16, 24, 32} /\ v.fields = FieldsFor(v.bpp, alpha)
    BY <1>2 DEF Checked, Depths
  <2> HIDE DEF alpha
  <2>2. CASE v.bpp = 16 /\ alpha
    <3>1. v.fields = Layout(0, 5, 5, 5, 10, 5, 15, 1)
      BY <2>1, <2>2 DEF FieldsFor
    <3> QED
      BY <2>2, <3>1
  <2>3. CASE v.bpp = 16 /\ ~alpha
    <3>1. v.fields = Layout(0, 5, 5, 6, 11, 5, 0, 0)
      BY <2>1, <2>3 DEF FieldsFor
    <3> QED
      BY <2>3, <3>1
  <2>4. CASE v.bpp = 24
    <3>1. v.fields = Layout(0, 8, 8, 8, 16, 8, 0, 0)
      BY <2>1, <2>4 DEF FieldsFor
    <3> QED
      BY <2>4, <3>1
  <2>5. CASE v.bpp = 32
    <3>1. v.fields = Layout(0, 8, 8, 8, 16, 8, 24, 8)
      BY <2>1, <2>5 DEF FieldsFor
    <3> QED
      BY <2>5, <3>1
  <2> QED
    BY <2>1, <2>2, <2>3, <2>4, <2>5
<1> QED
  BY <1>1, <1>2

(***************************************************************************)
(* Steps.                                                                  *)
(***************************************************************************)

LEMMA InitFbInv == Init => FbInv
<1> SUFFICES ASSUME Init PROVE FbInv
  OBVIOUS
<1>1. var = DefaultVar /\ fix = [line |-> 0, len |-> 0] /\ mem = 0
      /\ screen = [base |-> "none", size |-> 0]
  BY DEF Init, FbInit
<1> QED
  BY <1>1, DefaultType DEF FbInv, FbTypes, Sized

\* Who touches the framebuffers' variables.
LEMMA Frame ==
  ASSUME [Next]_vars
  PROVE  /\ driver' = driver
         /\ \/ UNCHANGED fbVars
            \/ VirtfbInit \/ VirtfbExit \/ FbProbe \/ FbRemove
            \/ \E f \in Files, v \in Modes, now \in BOOLEAN : FbSetVar(f, v, now)
<1>1. CASE UNCHANGED vars
  BY <1>1 DEF vars, platVars
<1>2. CASE ModuleStep /\ UNCHANGED <<dpcm, fbVars, poll>>
  BY <1>2 DEF ModuleStep, RegisterDriver, AllocDevice, AddDevice, InitDone, Rmmod, ExitDevice,
     ExitDriver, Bind, Unbind
<1>3. CASE (VirtfbInit \/ VirtfbExit) /\ UNCHANGED <<dpcm, poll>>
  BY <1>3 DEF VirtfbInit, VirtfbExit
<1>4. CASE (NunchuckInit \/ PollStep) /\ UNCHANGED <<dpcm, fbVars>>
  BY <1>4 DEF NunchuckInit, PollStep, PollBegin, PollEnd, platVars
<1>5. CASE Probe
  BY <1>5 DEF Probe, CardProbes, GpioProbe, SoundgenProbe, CardProbe, FbProbe, V4l2Probe,
     NunchuckProbe
<1>6. CASE Remove
  BY <1>6 DEF Remove, CardRemove, CardDisconnect, CardFree, FbRemove, V4l2Remove,
     NunchuckRemove, NunchuckUnregister, NunchuckFree
<1>7. ASSUME NEW f \in Files, FileStep(f)
      PROVE  /\ driver' = driver
             /\ \/ UNCHANGED fbVars
                \/ \E v \in Modes, now \in BOOLEAN : FbSetVar(f, v, now)
  BY <1>7 DEF FileStep, CardFileStep, PcmOpen, PcmClose, FbFileStep, FbOpen, FbClose, FbSetVar,
     V4l2FileStep, V4l2Open, V4l2Close, NunchuckFileStep, NunchuckOpen, NunchuckClose
<1> QED
  BY <1>1, <1>2, <1>3, <1>4, <1>5, <1>6, <1>7 DEF Next

\* virtfb.c: memory is replaced when it is too small, and fix.len follows it.
LEMMA VirtfbParInv ==
  ASSUME FbInv, driver = "virtfb", driver' = driver,
         NEW v \in ModeType, NEW old \in ModeType, VirtfbSetPar(v, old)
  PROVE  FbInv'
<1> DEFINE size == Line(v) * v.y.virt
           need == Wrap(size)
<1>1. Line(v) \in Nat /\ v.y.virt \in Nat /\ size \in Nat
      /\ v.y.virt * Line(v) = size
  BY LineType
<1>2. need \in Nat /\ (size < UintSize => need = size)
  BY <1>1, Wrapping DEF Uint
<1>3. Wrap(v.y.virt * Line(v)) = need
  BY <1>1
<1> HIDE DEF need
<1>4. CASE TooSmall(need)
  <2>1. \/ /\ var' = v /\ mem' = need
           /\ fix' = [line |-> Line(v), len |-> need]
           /\ screen' = [base |-> "mem", size |-> need]
        \/ /\ var' = old /\ mem' = 0
           /\ fix' = [line |-> Line(v), len |-> 0]
           /\ screen' = [screen EXCEPT !.base = "none"]
    BY <1>3, <1>4 DEF VirtfbSetPar
  <2>2. FbTypes'
    BY <1>1, <1>2, <2>1 DEF FbInv, FbTypes
  <2>3. Sized'
    BY <1>1, <1>2, <2>1 DEF Sized, Fits
  <2> QED
    BY <2>2, <2>3 DEF FbInv
<1>5. CASE ~TooSmall(need)
  <2>1. var' = v /\ fix' = [fix EXCEPT !.line = Line(v)] /\ UNCHANGED <<mem, screen>>
    BY <1>3, <1>5 DEF VirtfbSetPar
  <2>2. FbTypes' /\ fix'.line = Line(v) /\ fix'.len = fix.len
    BY <1>1, <2>1 DEF FbInv, FbTypes
  <2>3. mem \in Nat /\ fix.len \in Nat /\ (mem # 0 => need <= mem)
    BY <1>2, <1>5 DEF TooSmall, FbInv, FbTypes, Sized
  <2>4. Sized'
    BY <1>1, <1>2, <2>1, <2>2, <2>3 DEF FbInv, Sized, Fits
  <2> QED
    BY <2>2, <2>4 DEF FbInv
<1> QED
  BY <1>4, <1>5

\* What virtfb_check_var does to the current mode and to the new one.
LEMMA VirtfbModes ==
  ASSUME NEW v \in ModeType
  PROVE  /\ VirtualAtLeast(v) \in ModeType
         /\ Overwritten(v) \in ModeType /\ Overwritten(v).y.virt = v.y.virt
<1>1. VirtualAtLeast(v) \in ModeType
  BY DEF VirtualAtLeast, Larger, ModeType, Axes
<1>2. 0 .. 24 \subseteq Uint
  BY WidthAssumption DEF Uint
<1>3. Layout(8, 0, 8, 8, 16, 8, 0, 0)
        \in [red : Field, green : Field, blue : Field, transp : Field]
  BY <1>2 DEF Layout, Field
<1>4. 24 \in Uint
  BY <1>2
<1> QED
  BY <1>1, <1>3, <1>4 DEF Overwritten, ModeType

\* virtfb_platform.c: the new memory has the size of the new mode, or there is
\* none and the old mode stays.
LEMMA PlatformParInv ==
  ASSUME FbInv, driver = "virtfb_platform", driver' = driver,
         NEW v \in ModeType, Checked(v), PlatformSetPar(v)
  PROVE  FbInv'
<1> DEFINE size == Line(v) * v.y.virt
           len == Wrap(size)
           pages == PageAligned(len)
<1>1. Line(v) \in Nat /\ v.y.virt \in Nat /\ size \in Nat
  BY LineType
<1>2. len \in Uint /\ len \in Nat /\ (size < UintSize => len = size)
  BY <1>1, Wrapping DEF Uint
<1>3. pages \in Nat /\ (pages = 0 \/ pages >= len)
  BY <1>2, PagesHold
<1>4. \/ mem' = pages /\ screen' = [base |-> "mem", size |-> len] /\ var' = v
      \/ /\ mem' = 0 /\ var' = var
         /\ screen' = [screen EXCEPT !.base = IF @ = "none" THEN @ ELSE "freed"]
  BY DEF PlatformSetPar
<1>5. fix' = [line |-> Line(v), len |-> len]
  BY DEF PlatformSetPar
<1> HIDE DEF pages, len
<1>6. FbTypes'
  BY <1>1, <1>2, <1>3, <1>4, <1>5 DEF FbInv, FbTypes
<1>7. Sized'
  <2>1. CASE mem' = 0
    BY <2>1 DEF Sized
  <2>2. CASE mem' = pages /\ screen' = [base |-> "mem", size |-> len] /\ var' = v
    <3>1. Line(var)' = Line(v)
      BY <2>2 DEF Line
    <3> QED
      BY <1>1, <1>2, <1>3, <1>5, <2>2, <3>1 DEF Sized, Fits
  <2> QED
    BY <1>4, <2>1, <2>2
<1>8. var' = v \/ var' = var
  BY <1>4
<1>9. var' = DefaultVar \/ Checked(var')
  BY <1>8 DEF FbInv
<1> QED
  BY <1>6, <1>7, <1>9 DEF FbInv

LEMMA ProbeFbInv ==
  ASSUME FbInv, FbProbe
  PROVE  FbInv'
<1> DEFINE pages == PageAligned(DefaultSize)
<1>1. driver = "virtfb_platform" /\ driver' = driver
  BY DEF FbProbe
<1>2. /\ Line(DefaultVar) * DefaultVar.y.virt = 49152
      /\ pages \in Nat /\ (pages = 0 \/ pages >= 49152)
      /\ DefaultVar.y.virt \in Nat
  BY DefaultType, LineType
<1>3. \/ UNCHANGED fbVars
      \/ /\ var' = DefaultVar
         /\ fix' = [line |-> 0, len |-> 0] /\ screen' = [base |-> "none", size |-> 0]
         /\ mem' \in {0, pages}
  BY DEF FbProbe
<1> HIDE DEF pages
<1>4. CASE UNCHANGED fbVars
  BY <1>1, <1>4 DEF FbInv, FbTypes, Sized, Fits, fbVars, Line, Checked
<1>5. CASE /\ var' = DefaultVar
           /\ fix' = [line |-> 0, len |-> 0] /\ screen' = [base |-> "none", size |-> 0]
           /\ mem' \in {0, pages}
  <2>1. FbTypes'
    BY <1>2, <1>5, DefaultType DEF FbTypes
  <2>2. Line(var)' = Line(DefaultVar)
    BY <1>5 DEF Line
  <2>3. Sized'
    BY <1>1, <1>2, <1>5, <2>2 DEF Sized, Fits
  <2> QED
    BY <1>5, <2>1, <2>3 DEF FbInv
<1> QED
  BY <1>3, <1>4, <1>5

\* What a user asks for, now or as a test.
LEMMA SetVarFbInv ==
  ASSUME FbInv, NEW f \in Files, NEW v \in Modes, NEW now \in BOOLEAN, FbSetVar(f, v, now)
  PROVE  FbInv'
<1>1. v \in ModeType /\ var \in ModeType /\ driver' = driver
  BY ModesAssumption DEF FbInv, FbTypes, FbSetVar
<1>2. CASE PlatformSetVar(v, now)
  <2>1. CASE now
    <3>1. CheckVar(v) \in ModeType /\ Checked(CheckVar(v))
      BY <1>1, <1>2, CheckResult DEF PlatformSetVar
    <3> QED
      BY <1>1, <1>2, <2>1, <3>1, PlatformParInv DEF PlatformSetVar
  <2>2. CASE ~now
    BY <1>1, <1>2, <2>2 DEF PlatformSetVar, FbInv, FbTypes, Sized, Fits, fbVars, Line, Checked
  <2> QED
    BY <2>1, <2>2
<1>3. CASE VirtfbSetVar(v, now)
  <2>1. /\ VirtualAtLeast(v) \in ModeType /\ Overwritten(var) \in ModeType
        /\ Overwritten(var).y.virt = var.y.virt
    BY <1>1, VirtfbModes
  <2>2. CASE now
    BY <1>1, <1>3, <2>1, <2>2, VirtfbParInv DEF VirtfbSetVar
  <2>3. CASE ~now
    <3>1. var' = Overwritten(var) /\ UNCHANGED <<fix, mem, screen>> /\ driver = "virtfb"
      BY <1>3, <2>3 DEF VirtfbSetVar
    <3> QED
      BY <1>1, <2>1, <3>1 DEF FbInv, FbTypes, Sized, Fits
  <2> QED
    BY <2>2, <2>3
<1> QED
  BY <1>2, <1>3 DEF FbSetVar

LEMMA StepFbInv ==
  ASSUME FbInv, [Next]_vars
  PROVE  FbInv'
<1>1. driver' = driver
  BY Frame
<1>2. CASE UNCHANGED fbVars
  BY <1>1, <1>2 DEF FbInv, FbTypes, Sized, Fits, fbVars, Line, Checked
<1>3. CASE VirtfbInit
  <2>1. Overwritten(DefaultVar) \in ModeType
    BY DefaultType, VirtfbModes
  <2>2. UNCHANGED fbVars \/ VirtfbSetPar(Overwritten(DefaultVar), Overwritten(DefaultVar))
    BY <1>3 DEF VirtfbInit
  <2> QED
    BY <1>1, <1>2, <1>3, <2>1, <2>2, VirtfbParInv DEF VirtfbInit
<1>4. CASE VirtfbExit
  BY <1>1, <1>4 DEF VirtfbExit, FbInv, FbTypes, Sized
<1>5. CASE FbProbe
  BY <1>5, ProbeFbInv
<1>6. CASE FbRemove
  BY <1>1, <1>6 DEF FbRemove, FbInv, FbTypes, Sized, Checked
<1>7. CASE \E f \in Files, v \in Modes, now \in BOOLEAN : FbSetVar(f, v, now)
  BY <1>7, SetVarFbInv
<1> QED
  BY <1>2, <1>3, <1>4, <1>5, <1>6, <1>7, Frame

LEMMA FbInvariance == Spec => []FbInv
BY InitFbInv, StepFbInv, PTL DEF Spec

\* For any modes that users ask for, set or only test, and whichever allocations
\* fail: while a framebuffer has memory, screen_base and the size that read and
\* write go by stay inside it, and so do the lines of the mode unless a
\* product of the user's numbers has wrapped.
THEOREM StaysInMemory == Spec => []ScreenInMemory
<1>1. FbInv => ScreenInMemory
  <2> SUFFICES ASSUME FbInv, driver = "virtfb_platform", mem # 0,
                      var.x.virt * var.bpp < UintSize, Line(var) * var.y.virt < UintSize
               PROVE  ((var.x.virt * var.bpp) \div 8) * var.y.virt <= mem
    BY DEF FbInv, Sized, Fits, ScreenInMemory
  <2>1. var.x.virt * var.bpp \in Nat
    BY LineType DEF FbInv, FbTypes
  <2>2. Line(var) = (var.x.virt * var.bpp) \div 8
    BY <2>1, Wrapping DEF Line
  <2>3. Line(var) * var.y.virt <= mem
    BY DEF FbInv, Sized, Fits
  <2> QED
    BY <2>2, <2>3
<1> QED
  BY <1>1, FbInvariance, PTL

\* For any modes: what virtfb_check_var has accepted it accepts again unchanged,
\* its visible part lies in the virtual screen unless its end wraps, and its
\* colours do not overlap.
THEOREM ModesStayAcceptable == Spec => []ModeAcceptable
<1>1. FbInv => ModeAcceptable
  <2> SUFFICES ASSUME FbInv, driver = "virtfb_platform"
               PROVE  /\ var # DefaultVar => Accepts(var) /\ CheckVar(var) = var
                      /\ \A a \in {var.x, var.y} :
                           /\ a.res > 0 /\ a.res <= a.virt
                           /\ a.off + a.res < UintSize => a.off + a.res <= a.virt
                      /\ var.bpp >= 16 =>
                           \A c \in Colours :
                             /\ Bits(var.fields[c]) \subseteq 0 .. var.bpp - 1
                             /\ \A d \in Colours \ {c} :
                                  Bits(var.fields[c]) \cap Bits(var.fields[d]) = {}
    BY DEF ModeAcceptable
  <2>1. var \in ModeType /\ (var = DefaultVar \/ Checked(var))
    BY DEF FbInv, FbTypes
  <2>2. var # DefaultVar => Accepts(var) /\ CheckVar(var) = var
    BY <2>1, CheckStable
  <2>3. ASSUME NEW a \in {var.x, var.y}
        PROVE  /\ a.res > 0 /\ a.res <= a.virt
               /\ a.off + a.res < UintSize => a.off + a.res <= a.virt
    <3>1. CASE var = DefaultVar
      BY <3>1 DEF DefaultVar, DefaultAxis
    <3>2. CASE Checked(var)
      <4>1. CheckedAxis(a)
        BY <3>2 DEF Checked
      <4>2. a.off + a.res \in Nat
        BY <2>1 DEF ModeType, Axes, Uint
      <4> QED
        BY <4>1, <4>2, Wrapping DEF CheckedAxis
    <3> QED
      BY <2>1, <3>1, <3>2
  <2> QED
    BY <2>1, <2>2, <2>3, OwnBits
<1> QED
  BY <1>1, FbInvariance, PTL
=============================================================================
