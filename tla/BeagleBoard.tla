---------------------------- MODULE BeagleBoard ----------------------------
(***************************************************************************)
(* The board file of the BeagleBoard, as this repository changed it to     *)
(* register the devices of the SPI driver: from the kernel's command line  *)
(* through omap3_beagle_init, one action per part of it, to the initcalls  *)
(* and the callback of the TWL4030's GPIOs that come later.                *)
(*                                                                         *)
(* Pads that no expansion board shares with another, clocks, memory        *)
(* timings, displays and the fixed tables of NAND and regulators are left  *)
(* out.  The kernel is one with CONFIG_OMAP_MUX.                           *)
(***************************************************************************)
EXTENDS Integers, FiniteSets

CONSTANTS
  Kconfigs,      \* the sets of CONFIG_ options the kernel may be built with
  Foreign,       \* the sets of GPIOs that other drivers may have taken first
  Names          \* what each parameter on the command line may say

EINVAL == 22
Twl == 240       \* the first GPIO of the TWL4030

VARIABLES
  kconfig,       \* what the kernel was built with
  rev, cpu3630,  \* the hardware: the level of GPIOs 171 to 173, and the processor
  pc,            \* the next step
  param,         \* expansionboard_name, expansionboard2_name, camera_name
  config,        \* beagle_config
  expansion,     \* expansion_config
  pad,           \* what each pad is muxed to
  owner,         \* the drivers that have requested each GPIO
  devices,       \* registered platform devices, with their names and ids
  spi,           \* registered SPI devices
  bus2,          \* the devices registered on I2C bus 2
  hsmmc,         \* the MMC controllers: at init, and after the late init
  dvi,           \* dvi_panel.power_down_gpio
  opp,           \* the operating points that have been enabled
  late           \* the initcalls and callbacks that have run

hw == <<kconfig, rev, cpu3630>>
set == <<config, expansion>>
pins == <<pad, owner>>
added == <<devices, spi, bus2>>
after == <<hsmmc, dvi, opp, late>>
vars == <<hw, pc, param, set, pins, added, after>>

Params == {"buddy", "buddy2", "camera"}

(***************************************************************************)
(* Pads and GPIOs.                                                         *)
(***************************************************************************)

Sdmmc2 == {"sdmmc2_clk", "sdmmc2_cmd", "sdmmc2_dat0", "sdmmc2_dat1", "sdmmc2_dat2",
           "sdmmc2_dat3"}
Mcspi3 == Sdmmc2 \ {"sdmmc2_dat1"}
Mcspi4 == {"mcbsp1_clkr", "mcbsp1_dx", "mcbsp1_dr", "mcbsp1_fsx"}
Mcbsp3 == {"mcbsp3_fsx", "uart2_cts", "uart2_rts", "uart2_tx"}

\* The pad of a GPIO, for those on the expansion header.
PadOf == [g \in (130 .. 139) \cup {141} \cup (143 .. 146) \cup (156 .. 159) \cup {161, 162, 170} |->
  CASE g = 130 -> "sdmmc2_clk"  [] g = 131 -> "sdmmc2_cmd"  [] g = 132 -> "sdmmc2_dat0"
    [] g = 133 -> "sdmmc2_dat1" [] g = 134 -> "sdmmc2_dat2" [] g = 135 -> "sdmmc2_dat3"
    [] g = 136 -> "sdmmc2_dat4" [] g = 137 -> "sdmmc2_dat5" [] g = 138 -> "sdmmc2_dat6"
    [] g = 139 -> "sdmmc2_dat7" [] g = 141 -> "mcbsp3_dr"   [] g = 143 -> "mcbsp3_fsx"
    [] g = 144 -> "uart2_cts"   [] g = 145 -> "uart2_rts"   [] g = 146 -> "uart2_tx"
    [] g = 156 -> "mcbsp1_clkr" [] g = 157 -> "mcbsp1_fsr"  [] g = 158 -> "mcbsp1_dx"
    [] g = 159 -> "mcbsp1_dr"   [] g = 161 -> "mcbsp1_fsx"  [] g = 162 -> "mcbsp1_clkx"
    [] OTHER -> "hdq_sio"]

Pads == {PadOf[g] : g \in DOMAIN PadOf}

RevGpios == {171, 172, 173}
TrainerGpios == (130 .. 141) \cup {162}
Gpios == RevGpios \cup TrainerGpios \cup {156, 157} \cup {Twl + 1, Twl + 18}

\* pad with the pads of ps muxed to function f, and with the pads of GPIOs gs
\* muxed as GPIOs
Muxed(m, ps, f) == [p \in Pads |-> IF p \in ps THEN f ELSE m[p]]
MuxedGpio(m, gs) == Muxed(m, {PadOf[g] : g \in gs \cap DOMAIN PadOf}, "gpio")

Free(g) == owner[g] = {}

\* owner after a request for g, which fails when g has an owner
Requested(g, who) == IF Free(g) THEN [owner EXCEPT ![g] = {who}] ELSE owner

(***************************************************************************)
(* Before init_machine: the command line.                                  *)
(***************************************************************************)

\* expansionboard_setup, expansionboard2_setup, camera_setup
EarlyParam(p, str) ==
  /\ pc = "params"
  /\ param' = [param EXCEPT ![p] = str]
  /\ UNCHANGED <<hw, pc, set, pins, added, after>>

Step(from, to) == pc = from /\ pc' = to /\ UNCHANGED <<hw, param>>

(***************************************************************************)
(* omap3_beagle_init.                                                      *)
(***************************************************************************)

\* board_mux: McSPI3, and the expansion headers as GPIOs.
MuxInit ==
  /\ Step("params", "rev")
  /\ pad' = Muxed(MuxedGpio(pad, DOMAIN PadOf \ {141, 156}), Mcspi3, "spi3")
  /\ UNCHANGED <<set, owner, added, after>>

\* What the switch on beagle_rev makes of the defaults c.
ForRevision(c) ==
  CASE rev = 7 -> [c EXCEPT !.mmc1_gpio_wp = 29, !.dvi_pd_gpio = 170, !.usr_button_gpio = 7]
    [] rev \in {5, 6} -> [c EXCEPT !.mmc1_gpio_wp = 23, !.dvi_pd_gpio = 170,
                                   !.usr_button_gpio = 7]
    [] rev = 0 -> [c EXCEPT !.usb_pwr_level = 1, !.mmc_caps = 4]
    [] rev = 2 -> [c EXCEPT !.mmc_caps = 4]
    [] OTHER -> c

\* The three GPIOs are freed again; without them the revision is unknown, and
\* the defaults stay.
InitRev ==
  /\ Step("rev", "zippy")
  /\ config' = IF \A g \in RevGpios : Free(g) THEN ForRevision(config) ELSE config
  /\ UNCHANGED <<expansion, pins, added, after>>

Register(names) == devices' = devices \cup names

Zippies == {"zippy", "zippy2"}
Wifis == {"bbtoys-wifi", "lsr-com6l-adpt"}
WifiFitted == param["buddy"] \in Wifis /\ "WL12XX" \in kconfig

Zippy ==
  /\ Step("zippy", "wifi")
  /\ IF param["buddy"] \in Zippies
     THEN /\ Register({[dev |-> "omap_zippy_device", name |-> "reg-fixed-voltage", id |-> 1]})
          /\ expansion' = [i2c |-> "zippy", mmc |-> "zippy"]
          /\ pad' = MuxedGpio(pad, {141, 162})
     ELSE UNCHANGED <<devices, expansion, pad>>
  /\ UNCHANGED <<config, owner, spi, bus2, after>>

Wifi ==
  /\ Step("wifi", "ulcd")
  /\ IF WifiFitted
     THEN /\ pad' = Muxed(MuxedGpio(pad, 136 .. 139), Sdmmc2, "mmc2")
          /\ expansion' = [i2c |-> "com6l", mmc |-> "wifi"]
     ELSE UNCHANGED <<pad, expansion>>
  /\ UNCHANGED <<config, owner, added, after>>

\* A second expansion board, the LCD, takes I2C bus 2 over.
Ulcd ==
  /\ Step("ulcd", "mmc")
  /\ IF param["buddy2"] = "bbtoys-ulcd"
     THEN /\ expansion' = [expansion EXCEPT !.i2c = "ulcd"]
          /\ owner' = Requested(156, "LCD power")
     ELSE UNCHANGED <<expansion, owner>>
  /\ UNCHANGED <<config, pad, added, after>>

\* The array of controllers that an expansion board calls for.
Controllers(m) ==
  CASE m = "wifi" -> "mmcbbt" [] m = "zippy" -> "mmc_zippy" [] OTHER -> "mmc"

\* What omap_hsmmc_init muxes: the pads of the second controller, four bits wide,
\* and the card detection and write protection of its slot.
SlotMux(m, e) ==
  IF e = "none" THEN m
  ELSE Muxed(MuxedGpio(m, IF e = "zippy" THEN {141, 162} ELSE {}), Sdmmc2, "mmc2")

HsmmcInit ==
  /\ Step("mmc", "i2c")
  /\ pad' = SlotMux(MuxedGpio(pad, {config.mmc1_gpio_wp}), expansion.mmc)
  /\ hsmmc' = [hsmmc EXCEPT !.init = Controllers(expansion.mmc), !.caps = config.mmc_caps]
  /\ UNCHANGED <<set, owner, added, dvi, opp, late>>

\* omap3_beagle_i2c_init: board information is copied as it is registered.
I2cInit ==
  /\ Step("i2c", "devices")
  /\ bus2' = CASE expansion.i2c = "ulcd" ->
                    IF "TSC2007" \in kconfig THEN {"tlc59108", "tsc2007"} ELSE {}
               [] expansion.i2c = "zippy" -> IF "DS1307" \in kconfig THEN {"ds1307"} ELSE {}
               [] expansion.i2c = "com6l" -> {"24c256"}
               [] OTHER -> {}
  /\ UNCHANGED <<set, pins, devices, spi, after>>

\* omap3_beagle_devices, and the pad of the DVI power-down pin
AddDevices ==
  /\ Step("devices", "ethernet")
  /\ Register({[dev |-> "leds_gpio", name |-> "leds-gpio", id |-> -1],
               [dev |-> "keys_gpio", name |-> "gpio-keys", id |-> -1],
               [dev |-> "madc_hwmon", name |-> "twl4030_madc_hwmon", id |-> -1],
               [dev |-> "leds_pwm", name |-> "leds_pwm", id |-> -1]})
  /\ pad' = MuxedGpio(pad, {config.dvi_pd_gpio})
  /\ UNCHANGED <<set, owner, spi, bus2, after>>

SpiDevice(dev, bus, cs, irq) == [dev |-> dev, bus |-> bus, cs |-> cs, irq |-> irq]

EthernetChip ==
  CASE param["buddy"] = "zippy" /\ "ENC28J60" \in kconfig -> "enc28j60"
    [] param["buddy"] = "zippy2" /\ "KS8851" \in kconfig -> "ks8851"
    [] OTHER -> "none"

\* omap3beagle_enc28j60_init and omap3beagle_ks8851_init.  Without the GPIO, or
\* when it cannot be made an input, there is no device; in the second case the
\* GPIO is kept.
Ethernet ==
  /\ Step("ethernet", "trainer")
  /\ IF EthernetChip = "none" THEN UNCHANGED <<owner, spi>>
     ELSE /\ owner' = Requested(157, EthernetChip)
          /\ \/ Free(157) /\ spi' = spi \cup {SpiDevice(EthernetChip, 4, 0, 157)}
             \/ UNCHANGED spi
  /\ UNCHANGED <<set, pad, devices, bus2, after>>

\* Requests whose results are not looked at.
Trainer ==
  /\ Step("trainer", "wlan")
  /\ owner' = IF param["buddy"] = "trainer"
              THEN [g \in Gpios |-> IF g \in TrainerGpios /\ Free(g) THEN {"sysfs"}
                                    ELSE owner[g]]
              ELSE owner
  /\ UNCHANGED <<set, pad, added, after>>

\* mutant: the WLAN's devices come with the second expansion board
WlanFittedTwice == WifiFitted \/ param["buddy2"] \in Wifis \cup {"bbtoys-ulcd"}

WlanFitted == WifiFitted

Wlan ==
  /\ Step("wlan", "spi")
  /\ IF WlanFitted
     THEN Register({[dev |-> "wl12xx_device", name |-> "kim", id |-> -1],
                    [dev |-> "btwilink_device", name |-> "btwilink", id |-> -1],
                    [dev |-> "omap_vwlan_device", name |-> "reg-fixed-voltage", id |-> 1]})
     ELSE UNCHANGED devices
  /\ UNCHANGED <<set, pins, spi, bus2, after>>

\* omap3_beagle_config_mcbsp3_mux
Mcbsp3Mux(m) ==
  Muxed(Muxed(m, Mcbsp3, "mcbsp3"), {"mcbsp3_fsx"}, "uart2")

\* mutant: the second chip select is left out
NoSecondSelect(m) == Muxed(m, Mcspi3 \ {"sdmmc2_dat2"}, "spi3")

\* mutant: a chip select that the board does not use
OneSelectMore(m) == Muxed(m, Mcspi4 \cup {"mcbsp1_fsr"}, "spi4")

\* omap3_beagle_config_mcspi3_mux, omap3_beagle_config_mcspi4_mux
Mcspi3Mux(m) == Muxed(m, Mcspi3, "spi3")
Mcspi4Mux(m) == Muxed(m, Mcspi4, "spi4")

\* What was added for the SPI driver, and the board called beaglefpga.
SpiInit ==
  /\ Step("spi", "touchscreen")
  /\ Register({[dev |-> "omap3_spi_device", name |-> "omap3_spi", id |-> 0]})
  /\ LET fpga == Mcspi4Mux(Mcspi3Mux(Mcbsp3Mux(pad))) IN
     pad' = Mcspi4Mux(Mcspi3Mux(IF param["buddy"] = "beaglefpga" THEN fpga ELSE pad))
  /\ spi' = spi \cup {SpiDevice("omap3_spi", 3, cs, 0) : cs \in {0, 1}}
  /\ UNCHANGED <<set, owner, bus2, after>>

\* omap3beagle_tsc2007_init.  The interrupt goes into the table of bus 2, which
\* has been registered already, and is lost.
Touchscreen ==
  /\ Step("touchscreen", "initcalls")
  /\ IF param["buddy2"] = "bbtoys-ulcd" /\ "TSC2007" \in kconfig
     THEN pad' = MuxedGpio(pad, {157}) /\ owner' = Requested(157, "tsc2007_pen_down")
     ELSE UNCHANGED pins
  /\ UNCHANGED <<set, added, after>>

(***************************************************************************)
(* Later: initcalls, in their order, and the TWL4030's callback.           *)
(***************************************************************************)

\* mutant: the late init is that of the board without expansion
LatePlain(m) == "mmc"

LateControllers(m) == Controllers(m)

\* beagle_twl_gpio_setup
TwlGpioSetup ==
  /\ pc = "initcalls" /\ "twl" \notin late
  /\ late' = late \cup {"twl"}
  /\ hsmmc' = [hsmmc EXCEPT !.late = LateControllers(expansion.mmc),
                            !.wp = config.mmc1_gpio_wp, !.cd = Twl]
  /\ config' = [config EXCEPT !.dvi_pd_gpio = IF cpu3630 THEN Twl + 2 ELSE @]
  /\ dvi' = config'.dvi_pd_gpio
  /\ owner' =
       [g \in Gpios |->
          CASE Free(g) /\ g = Twl + 1 -> {IF cpu3630 THEN "nDVI_PWR_EN" ELSE "EHCI_nOC"}
            [] Free(g) /\ g = Twl + 18 -> {"nEN_USB_PWR"}
            [] OTHER -> owner[g]]
  /\ UNCHANGED <<hw, pc, param, expansion, pad, added, opp>>

\* mutant: the clean-up forgets the second device
MpuDisabled(enabled) == enabled \ {"mpu"}

\* opp_disable, for both devices
CleanedUp(enabled) == {}

\* beagle_opp_init: nothing without an OPP table or the devices, both points or
\* none with them.
OppInit ==
  /\ pc = "initcalls" /\ "opp" \notin late
  /\ late' = late \cup {"opp"}
  /\ \/ UNCHANGED opp
     \/ /\ cpu3630
        /\ \E enabled \in SUBSET {"mpu", "iva"} :
             opp' = IF enabled = {"mpu", "iva"} THEN enabled ELSE CleanedUp(enabled)
  /\ UNCHANGED <<hw, pc, param, set, pins, added, hsmmc, dvi>>

\* omap3_beagle_late_initcall
LateInit ==
  /\ pc = "initcalls" /\ "opp" \in late /\ "camera" \notin late
  /\ late' = late \cup {"camera"}
  /\ devices' =
       IF cpu3630 /\ "MT9P031" \in kconfig /\ param["camera"] \in {"lbcm5m1", "li5m03"}
       THEN devices \cup {[dev |-> "omap3isp", name |-> "omap3isp", id |-> -1]}
       ELSE devices
  /\ UNCHANGED <<hw, pc, param, set, pins, spi, bus2, hsmmc, dvi, opp>>

-----------------------------------------------------------------------------

Init ==
  /\ kconfig \in Kconfigs
  /\ rev \in 0 .. 7 /\ cpu3630 \in BOOLEAN
  /\ (rev \in {5, 6, 7} => ~cpu3630) /\ (rev \in {0, 2} => cpu3630)
  /\ pc = "params" /\ param = [p \in Params |-> ""]
  \* usb_pwr_level is a level, mmc_caps the width of the bus
  /\ config = [mmc1_gpio_wp |-> -EINVAL, usb_pwr_level |-> 0, dvi_pd_gpio |-> -EINVAL,
               usr_button_gpio |-> 4, mmc_caps |-> 8]
  /\ expansion = [i2c |-> "none", mmc |-> "none"]
  /\ pad = [p \in Pads |-> "boot"]
  /\ \E taken \in Foreign : owner = [g \in Gpios |-> IF g \in taken THEN {"other"} ELSE {}]
  /\ devices = {} /\ spi = {} /\ bus2 = {}
  /\ hsmmc = [init |-> "none", caps |-> 4, late |-> "none", wp |-> -EINVAL, cd |-> 0]
  /\ dvi = -1 /\ opp = {} /\ late = {}

InitMachine ==
  \/ MuxInit \/ InitRev \/ Zippy \/ Wifi \/ Ulcd \/ HsmmcInit \/ I2cInit \/ AddDevices
  \/ Ethernet \/ Trainer \/ Wlan \/ SpiInit \/ Touchscreen

Next ==
  \/ \E p \in Params : \E str \in Names[p] : EarlyParam(p, str)
  \/ InitMachine
  \/ TwlGpioSetup \/ OppInit \/ LateInit

Spec == Init /\ [][Next]_vars

-----------------------------------------------------------------------------

(***************************************************************************)
(* Properties.                                                             *)
(***************************************************************************)

Booted == pc = "initcalls"

\* The type invariant.  A GPIO has one owner at most, and the operating points
\* of the two processors are enabled together or not at all, whichever of the
\* two opp_enable calls fails.
BoardTypeOK ==
  /\ \A g \in Gpios : Cardinality(owner[g]) <= 1
  /\ pad \in [Pads -> {"boot", "gpio", "spi3", "spi4", "mmc2", "mcbsp3", "uart2"}]
  /\ expansion.mmc \in {"none", "zippy", "wifi"}
  /\ expansion.i2c \in {"none", "zippy", "com6l", "ulcd"}
  /\ bus2 \in {{}, {"tlc59108", "tsc2007"}, {"ds1307"}, {"24c256"}}
  /\ opp \in {{}, {"mpu", "iva"}} /\ late \subseteq {"twl", "opp", "camera"}

\* However the expansion boards before it have muxed the pads, a registered SPI
\* device finds all signals of its controller on the header, and its interrupt,
\* when it has one, on a GPIO that is its own and muxed as one.
SpiDevicesWired ==
  Booted => \A d \in spi :
    /\ IF d.bus = 3 THEN \A p \in Mcspi3 : pad[p] = "spi3"
                    ELSE \A p \in Mcspi4 : pad[p] = "spi4"
    /\ d.irq # 0 => owner[d.irq] = {d.dev} /\ pad[PadOf[d.irq]] = "gpio"

\* What the SPI driver's part of the file costs the expansion boards.  A GPIO
\* that this file requested keeps its pad, and the second MMC controller its
\* pads, except those of McSPI3 and McSPI4: these the file takes from the WLAN,
\* from the zippy's second card slot, from the trainer board and from the LCD's
\* power pin.  Of the controller's six pads one is left.
OnlySpiTakesPads ==
  Booted =>
    /\ \A g \in DOMAIN PadOf \cap Gpios :
         owner[g] \notin {{}, {"other"}} =>
           pad[PadOf[g]] \in {"gpio", "boot"} \/ PadOf[g] \in Mcspi3 \cup Mcspi4
    /\ hsmmc.init \in {"mmcbbt", "mmc_zippy"} =>
         \A p \in Sdmmc2 \ Mcspi3 : pad[p] = "mmc2"

\* The controllers are completed long after they are set up, when the TWL4030
\* has been probed: the same ones, with the write-protect pin of the revision
\* that was read, if it could be read.  A bus is 8 bits wide on no xM, unless
\* its revision is unknown; and the pins that tell a zippy's second slot of a
\* card and of its write protection stay GPIOs (its data pins do not stay).
MmcConsistent ==
  /\ hsmmc.late # "none" =>
       hsmmc.late = hsmmc.init /\ hsmmc.wp = config.mmc1_gpio_wp /\ hsmmc.cd = Twl
  /\ hsmmc.init # "none" /\ rev \in {0, 2} /\ hsmmc.caps = 8 =>
       \E g \in RevGpios : owner[g] # {}
  /\ hsmmc.init = "mmc_zippy" => pad[PadOf[141]] = "gpio" /\ pad[PadOf[162]] = "gpio"

\* No platform device is registered under a name and number that is taken, as
\* zippy and WLAN both name their regulators, and no SPI device on a chip select
\* that is: neither registration's result is looked at.
DevicesUnique ==
  /\ \A d, e \in devices : d.name = e.name /\ d.id = e.id => d = e
  /\ \A d, e \in spi : d.bus = e.bus /\ d.cs = e.cs => d = e
=============================================================================
