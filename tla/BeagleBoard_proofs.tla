------------------------ MODULE BeagleBoard_proofs ------------------------
(***************************************************************************)
(* The boot of the board for any kernel configuration, any names on the    *)
(* command line and any GPIOs that other drivers have taken before: every  *)
(* device that is registered has its pads, its interrupt and its number,   *)
(* and the late callback agrees with the init.                             *)
(***************************************************************************)
EXTENDS BeagleBoard, FiniteSetTheorems, TLAPS

\* What a pad may be muxed to.
PadFunctions == {"boot", "gpio", "spi3", "spi4", "mmc2", "mcbsp3", "uart2"}

\* The pads of the GPIOs that the board file requests, or muxes one by one.
LEMMA PadNames ==
  /\ PadOf[133] = "sdmmc2_dat1" /\ PadOf[136] = "sdmmc2_dat4" /\ PadOf[137] = "sdmmc2_dat5"
  /\ PadOf[138] = "sdmmc2_dat6" /\ PadOf[139] = "sdmmc2_dat7" /\ PadOf[141] = "mcbsp3_dr"
  /\ PadOf[130] = "sdmmc2_clk" /\ PadOf[131] = "sdmmc2_cmd" /\ PadOf[132] = "sdmmc2_dat0"
  /\ PadOf[134] = "sdmmc2_dat2" /\ PadOf[135] = "sdmmc2_dat3"
  /\ PadOf[156] = "mcbsp1_clkr" /\ PadOf[157] = "mcbsp1_fsr" /\ PadOf[158] = "mcbsp1_dx"
  /\ PadOf[159] = "mcbsp1_dr" /\ PadOf[161] = "mcbsp1_fsx"
  /\ PadOf[162] = "mcbsp1_clkx" /\ PadOf[170] = "hdq_sio"
  /\ PadOf[143] = "mcbsp3_fsx" /\ PadOf[144] = "uart2_cts"
  /\ PadOf[145] = "uart2_rts" /\ PadOf[146] = "uart2_tx"
BY DEF PadOf

\* The GPIOs of the header, one by one.
LEMMA PadDomain ==
  DOMAIN PadOf = {130, 131, 132, 133, 134, 135, 136, 137, 138, 139, 141, 143, 144, 145, 146,
                  156, 157, 158, 159, 161, 162, 170}
<1>1. DOMAIN PadOf = (130 .. 139) \cup {141} \cup (143 .. 146) \cup (156 .. 159)
                       \cup {161, 162, 170}
  BY DEF PadOf
<1>2. 130 .. 139 = {130, 131, 132, 133, 134, 135, 136, 137, 138, 139}
  OBVIOUS
<1> QED BY <1>1, <1>2

\* The pads of the header, one by one.
LEMMA PadSet ==
  Pads = {"sdmmc2_clk", "sdmmc2_cmd", "sdmmc2_dat0", "sdmmc2_dat1", "sdmmc2_dat2",
          "sdmmc2_dat3", "sdmmc2_dat4", "sdmmc2_dat5", "sdmmc2_dat6", "sdmmc2_dat7",
          "mcbsp3_dr", "mcbsp3_fsx", "uart2_cts", "uart2_rts", "uart2_tx", "mcbsp1_clkr",
          "mcbsp1_fsr", "mcbsp1_dx", "mcbsp1_dr", "mcbsp1_fsx", "mcbsp1_clkx", "hdq_sio"}
BY PadNames, PadDomain DEF Pads

\* What the board muxes as GPIOs, pad by pad.
LEMMA GpioMux ==
  ASSUME NEW m
  PROVE  /\ MuxedGpio(m, DOMAIN PadOf \ {141, 156}) =
              Muxed(m, Pads \ {"mcbsp3_dr", "mcbsp1_clkr"}, "gpio")
         /\ MuxedGpio(m, {141, 162}) = Muxed(m, {"mcbsp3_dr", "mcbsp1_clkx"}, "gpio")
         /\ MuxedGpio(m, 136 .. 139) =
              Muxed(m, {"sdmmc2_dat4", "sdmmc2_dat5", "sdmmc2_dat6", "sdmmc2_dat7"}, "gpio")
         /\ MuxedGpio(m, {157}) = Muxed(m, {"mcbsp1_fsr"}, "gpio")
<1> DEFINE P(gs) == {PadOf[g] : g \in gs \cap DOMAIN PadOf}
<1>1. P(DOMAIN PadOf \ {141, 156}) = Pads \ {"mcbsp3_dr", "mcbsp1_clkr"}
  BY PadNames, PadDomain, PadSet
<1>2. P({141, 162}) = {"mcbsp3_dr", "mcbsp1_clkx"}
  BY PadNames, PadDomain
<1>3. P(136 .. 139) = {"sdmmc2_dat4", "sdmmc2_dat5", "sdmmc2_dat6", "sdmmc2_dat7"}
  <2>1. (136 .. 139) \cap DOMAIN PadOf = {136, 137, 138, 139}
    BY PadDomain
  <2> QED BY <2>1, PadNames
<1>4. P({157}) = {"mcbsp1_fsr"}
  BY PadNames, PadDomain
<1> QED BY <1>1, <1>2, <1>3, <1>4 DEF MuxedGpio

-----------------------------------------------------------------------------

(***************************************************************************)
(* The inductive invariant.                                                *)
(***************************************************************************)

Parts == {"params", "rev", "zippy", "wifi", "ulcd", "mmc", "i2c", "devices", "ethernet",
          "trainer", "wlan", "spi", "touchscreen", "initcalls"}

\* The parts that come before omap3_beagle_init has looked for a zippy, for the
\* WLAN, has set the MMC up, has registered the Ethernet chip.
BeforeZippy == {"params", "rev", "zippy"}
BeforeWifi == BeforeZippy \cup {"wifi"}
BeforeMmc == BeforeWifi \cup {"ulcd", "mmc"}
BeforeEthernet == BeforeMmc \cup {"i2c", "devices", "ethernet"}

Configs ==
  [mmc1_gpio_wp : {-EINVAL, 23, 29}, usb_pwr_level : {0, 1},
   dvi_pd_gpio : {-EINVAL, 170, Twl + 2}, usr_button_gpio : {4, 7}, mmc_caps : {4, 8}]

Expansions == [i2c : {"none", "zippy", "com6l", "ulcd"}, mmc : {"none", "zippy", "wifi"}]

\* What the revision and the names on the command line make of the board.
Choices ==
  /\ pc \in Parts
  /\ config \in Configs /\ expansion \in Expansions
  /\ expansion.mmc = "zippy" => pc \notin BeforeZippy /\ param["buddy"] \in Zippies
  /\ expansion.mmc = "wifi" <=> pc \notin BeforeWifi /\ WifiFitted

\* Pads that an expansion board needs keep what it was given, whatever is muxed
\* later; in the end the two controllers have theirs.
Muxing ==
  /\ pad \in [Pads -> PadFunctions]
  /\ \A p \in {"sdmmc2_dat4", "sdmmc2_dat5", "sdmmc2_dat6", "sdmmc2_dat7", "mcbsp3_dr",
               "mcbsp1_clkx"} : pad[p] \in {"boot", "gpio"}
  /\ pc # "params" =>
       /\ pad["mcbsp1_fsr"] = "gpio"
       /\ pad["sdmmc2_dat1"] =
            IF expansion.mmc = "wifi" \/ (expansion.mmc = "zippy" /\ pc \notin BeforeMmc)
            THEN "mmc2" ELSE "gpio"
  /\ expansion.mmc = "zippy" => pad["mcbsp3_dr"] = "gpio" /\ pad["mcbsp1_clkx"] = "gpio"
  /\ pc \in {"touchscreen", "initcalls"} =>
       (\A p \in Mcspi3 : pad[p] = "spi3") /\ (\A p \in Mcspi4 : pad[p] = "spi4")

\* A GPIO has one owner at most, and the trainer's is requested for the trainer.
Owning ==
  /\ DOMAIN owner = Gpios
  /\ \A g \in Gpios : owner[g] = {} \/ \E who : owner[g] = {who}
  /\ owner[133] \notin {{}, {"other"}} => pc # "params" /\ param["buddy"] = "trainer"

\* What each registered device owes its place to: the SPI driver's own two, the
\* Ethernet chip with its interrupt, and the regulators of zippy and WLAN.
OwnSpi(d) == pc \in {"touchscreen", "initcalls"} /\
             \E cs \in {0, 1} : d = SpiDevice("omap3_spi", 3, cs, 0)

EthernetSpi(d) ==
  /\ pc \notin BeforeEthernet /\ EthernetChip # "none"
  /\ d = SpiDevice(EthernetChip, 4, 0, 157) /\ owner[157] = {EthernetChip}

Regulator(dev) == [dev |-> dev, name |-> "reg-fixed-voltage", id |-> 1]

ZippyRegulator(d) ==
  pc \notin BeforeZippy /\ param["buddy"] \in Zippies /\ d = Regulator("omap_zippy_device")

WlanRegulator(d) ==
  pc \notin BeforeZippy /\ param["buddy"] \in Wifis /\ d = Regulator("omap_vwlan_device")

\* The devices that come at most once, under names of their own.
OtherDevices ==
  {[dev |-> "leds_gpio", name |-> "leds-gpio", id |-> -1],
   [dev |-> "keys_gpio", name |-> "gpio-keys", id |-> -1],
   [dev |-> "madc_hwmon", name |-> "twl4030_madc_hwmon", id |-> -1],
   [dev |-> "leds_pwm", name |-> "leds_pwm", id |-> -1],
   [dev |-> "wl12xx_device", name |-> "kim", id |-> -1],
   [dev |-> "btwilink_device", name |-> "btwilink", id |-> -1],
   [dev |-> "omap3_spi_device", name |-> "omap3_spi", id |-> 0],
   [dev |-> "omap3isp", name |-> "omap3isp", id |-> -1]}

Registered ==
  /\ \A d \in spi : OwnSpi(d) \/ EthernetSpi(d)
  /\ \A d \in devices : ZippyRegulator(d) \/ WlanRegulator(d) \/ d \in OtherDevices
  /\ bus2 \in {{}, {"tlc59108", "tsc2007"}, {"ds1307"}, {"24c256"}}

\* The MMC controllers are those of the expansion board, early and late, and
\* 8 bits wide on an xM only if its revision could not be read.
Slots ==
  /\ IF pc \in BeforeMmc THEN hsmmc.init = "none"
     ELSE hsmmc.init = Controllers(expansion.mmc) /\ hsmmc.caps = config.mmc_caps
  /\ DOMAIN hsmmc = {"init", "caps", "late", "wp", "cd"}
  /\ hsmmc.late # "none" =>
       /\ pc = "initcalls"
       /\ hsmmc.late = Controllers(expansion.mmc) /\ hsmmc.wp = config.mmc1_gpio_wp
       /\ hsmmc.cd = Twl
  /\ pc \notin {"params", "rev"} /\ rev \in {0, 2} /\ config.mmc_caps = 8 =>
       \E g \in RevGpios : owner[g] # {}
  /\ opp \in {{}, {"mpu", "iva"}} /\ late \subseteq {"twl", "opp", "camera"}

IInv == Choices /\ Muxing /\ Owning /\ Registered /\ Slots

-----------------------------------------------------------------------------

\* Before the command line is read nothing has been muxed or registered.
LEMMA InitInv == Init => IInv
<1> SUFFICES ASSUME Init PROVE IInv
  OBVIOUS
<1>1. Choices
  BY DEF Init, Choices, Parts, Configs, Expansions, BeforeZippy, BeforeWifi, WifiFitted,
     EINVAL, Twl
<1>2. Muxing
  BY PadSet DEF Init, Muxing, PadFunctions
<1>3. Owning
  <2>1. PICK taken \in Foreign :
          owner = [g \in Gpios |-> IF g \in taken THEN {"other"} ELSE {}]
    BY DEF Init
  <2>2. 133 \in Gpios
    BY DEF Gpios, TrainerGpios
  <2> QED
    BY <2>1, <2>2 DEF Owning
<1>4. Registered
  BY DEF Init, Registered
<1>5. Slots
  BY DEF Init, Slots, BeforeMmc, BeforeWifi, BeforeZippy
<1> QED
  BY <1>1, <1>2, <1>3, <1>4, <1>5 DEF IInv

\* The parts of omap3_beagle_init change the configuration in these three, and the
\* callback of the TWL4030 once more.
LEMMA ChoicesKept ==
  ASSUME Choices, Next
  PROVE  Choices'
<1> USE DEF Choices, Parts, BeforeZippy, BeforeWifi, WifiFitted, Step, hw, set
<1>1. ASSUME NEW p \in Params, NEW str \in Names[p], EarlyParam(p, str) PROVE Choices'
  BY <1>1 DEF EarlyParam
<1>2. CASE MuxInit  BY <1>2 DEF MuxInit
<1>3. CASE InitRev
  <2>1. config' \in {config, ForRevision(config)}
    BY <1>3 DEF InitRev
  <2>2. config' \in Configs
    <3>1. config \in Configs
      OBVIOUS
    <3>2. /\ [config EXCEPT !.mmc1_gpio_wp = 29, !.dvi_pd_gpio = 170,
                            !.usr_button_gpio = 7] \in Configs
          /\ [config EXCEPT !.mmc1_gpio_wp = 23, !.dvi_pd_gpio = 170,
                            !.usr_button_gpio = 7] \in Configs
      BY <3>1 DEF Configs
    <3>3. /\ [config EXCEPT !.usb_pwr_level = 1, !.mmc_caps = 4] \in Configs
          /\ [config EXCEPT !.mmc_caps = 4] \in Configs
      BY <3>1 DEF Configs
    <3>4. ForRevision(config) \in Configs
      BY <3>1, <3>2, <3>3, Zenon DEF ForRevision
    <3> QED BY <2>1, <3>1, <3>4
  <2> QED BY <1>3, <2>2 DEF InitRev
<1>4. CASE Zippy  BY <1>4 DEF Zippy, Zippies, Wifis, Expansions
<1>5. CASE Wifi  BY <1>5 DEF Wifi, Zippies, Wifis, Expansions
<1>6. CASE Ulcd
  <2>1. expansion' \in {expansion, [expansion EXCEPT !.i2c = "ulcd"]}
    BY <1>6 DEF Ulcd
  <2>2. expansion' \in Expansions /\ expansion'.mmc = expansion.mmc
    BY <2>1 DEF Expansions
  <2> QED BY <1>6, <2>2 DEF Ulcd
<1>7. CASE HsmmcInit  BY <1>7 DEF HsmmcInit
<1>8. CASE I2cInit  BY <1>8 DEF I2cInit
<1>9. CASE AddDevices  BY <1>9 DEF AddDevices
<1>10. CASE Ethernet  BY <1>10 DEF Ethernet
<1>11. CASE Trainer  BY <1>11 DEF Trainer
<1>12. CASE Wlan  BY <1>12 DEF Wlan
<1>13. CASE SpiInit  BY <1>13 DEF SpiInit
<1>14. CASE Touchscreen  BY <1>14 DEF Touchscreen
<1>15. CASE TwlGpioSetup  BY <1>15 DEF TwlGpioSetup, Configs
<1>16. CASE OppInit  BY <1>16 DEF OppInit
<1>17. CASE LateInit  BY <1>17 DEF LateInit
<1> QED
  BY <1>1, <1>2, <1>3, <1>4, <1>5, <1>6, <1>7, <1>8, <1>9, <1>10, <1>11, <1>12, <1>13,
     <1>14, <1>15, <1>16, <1>17 DEF Next, InitMachine

\* Each part that muxes pads leaves alone those that an earlier part still needs,
\* or muxes them to the same.
LEMMA MuxingKept ==
  ASSUME Choices, Muxing, Next
  PROVE  Muxing'
<1> USE DEF Muxing, Step, hw, set, pins, BeforeMmc, BeforeWifi, BeforeZippy
<1>0. /\ pc \in Parts /\ expansion.mmc \in {"none", "zippy", "wifi"}
      /\ config.mmc1_gpio_wp \in {-EINVAL, 23, 29}
      /\ config.dvi_pd_gpio \in {-EINVAL, 170, Twl + 2}
  BY DEF Choices, Configs, Expansions
<1>1. ASSUME NEW p \in Params, NEW str \in Names[p], EarlyParam(p, str) PROVE Muxing'
  BY <1>1 DEF EarlyParam
<1>2. CASE MuxInit
  <2>1. pad' = Muxed(Muxed(pad, Pads \ {"mcbsp3_dr", "mcbsp1_clkr"}, "gpio"), Mcspi3, "spi3")
    BY <1>2, GpioMux DEF MuxInit
  <2>2. pc' = "rev" /\ pc = "params" /\ UNCHANGED expansion
    BY <1>2 DEF MuxInit
  <2>3. expansion.mmc = "none"
    BY <1>0, <2>2 DEF Choices, BeforeWifi, BeforeZippy
  <2> QED
    BY <2>1, <2>2, <2>3, PadSet DEF Muxed, PadFunctions, Mcspi3, Sdmmc2
<1>3. CASE InitRev  BY <1>3 DEF InitRev
<1>4. CASE Zippy
  <2>1. pad' = pad \/ pad' = Muxed(pad, {"mcbsp3_dr", "mcbsp1_clkx"}, "gpio")
    BY <1>4, GpioMux DEF Zippy
  <2>2. /\ pc = "zippy" /\ pc' = "wifi"
        /\ expansion.mmc = "none" /\ expansion'.mmc \in {"none", "zippy"}
    BY <1>4, <1>0 DEF Zippy, Choices, BeforeWifi, BeforeZippy
  <2>3. expansion'.mmc = "zippy" => pad' = Muxed(pad, {"mcbsp3_dr", "mcbsp1_clkx"}, "gpio")
    BY <1>4, <2>2, GpioMux DEF Zippy
  <2> QED
    BY <2>1, <2>2, <2>3, PadSet DEF Muxed, PadFunctions
<1>5. CASE Wifi
  <2>1. CASE WifiFitted
    <3>1. /\ pad' = Muxed(Muxed(pad, {"sdmmc2_dat4", "sdmmc2_dat5", "sdmmc2_dat6",
                                      "sdmmc2_dat7"}, "gpio"), Sdmmc2, "mmc2")
          /\ expansion'.mmc = "wifi" /\ pc = "wifi" /\ pc' = "ulcd"
      BY <1>5, <2>1, GpioMux DEF Wifi
    <3> QED
      BY <3>1, PadSet DEF Muxed, PadFunctions, Sdmmc2
  <2>2. CASE ~WifiFitted
    BY <1>5, <2>2 DEF Wifi
  <2> QED BY <2>1, <2>2
<1>6. CASE Ulcd  BY <1>6, <1>0 DEF Ulcd, Choices, Expansions
<1>7. CASE HsmmcInit
  <2>1. /\ pad' = SlotMux(MuxedGpio(pad, {config.mmc1_gpio_wp}), expansion.mmc)
        /\ UNCHANGED expansion /\ pc = "mmc" /\ pc' = "i2c"
    BY <1>7 DEF HsmmcInit
  <2>2. {config.mmc1_gpio_wp} \cap DOMAIN PadOf = {}
    BY <1>0, PadDomain DEF EINVAL
  <2>3. MuxedGpio(pad, {config.mmc1_gpio_wp}) = pad
    BY <2>2 DEF MuxedGpio, Muxed
  <2>4. CASE expansion.mmc = "none"
    BY <2>1, <2>3, <2>4 DEF SlotMux
  <2>5. CASE expansion.mmc = "zippy"
    <3>1. pad' = Muxed(Muxed(pad, {"mcbsp3_dr", "mcbsp1_clkx"}, "gpio"), Sdmmc2, "mmc2")
      BY <2>1, <2>3, <2>5, GpioMux DEF SlotMux
    <3> QED BY <2>1, <2>5, <3>1, PadSet DEF Muxed, PadFunctions, Sdmmc2
  <2>6. CASE expansion.mmc = "wifi"
    <3>1. pad' = Muxed(pad, Sdmmc2, "mmc2")
      <4>1. MuxedGpio(pad, {}) = pad
        BY DEF MuxedGpio, Muxed
      <4> QED BY <2>1, <2>3, <2>6, <4>1 DEF SlotMux
    <3> QED BY <2>1, <2>6, <3>1, PadSet DEF Muxed, PadFunctions, Sdmmc2
  <2> QED BY <1>0, <2>4, <2>5, <2>6
<1>8. CASE I2cInit  BY <1>8 DEF I2cInit
<1>9. CASE AddDevices
  <2>1. /\ pad' = MuxedGpio(pad, {config.dvi_pd_gpio}) /\ UNCHANGED expansion
        /\ pc = "devices" /\ pc' = "ethernet"
    BY <1>9 DEF AddDevices
  <2>2. {PadOf[g] : g \in {config.dvi_pd_gpio} \cap DOMAIN PadOf} \subseteq {"hdq_sio"}
    BY <1>0, PadDomain, PadNames DEF EINVAL, Twl
  <2>3. \A p \in Pads : p # "hdq_sio" => pad'[p] = pad[p]
    BY <2>1, <2>2 DEF MuxedGpio, Muxed
  <2>4. pad' \in [Pads -> PadFunctions]
    BY <2>1 DEF MuxedGpio, Muxed, PadFunctions
  <2> QED BY <2>1, <2>3, <2>4, PadSet
<1>10. CASE Ethernet  BY <1>10 DEF Ethernet
<1>11. CASE Trainer  BY <1>11 DEF Trainer
<1>12. CASE Wlan  BY <1>12 DEF Wlan
<1>13. CASE SpiInit
  <2>1. \/ pad' = Mcspi4Mux(Mcspi3Mux(Mcspi4Mux(Mcspi3Mux(Mcbsp3Mux(pad)))))
        \/ pad' = Mcspi4Mux(Mcspi3Mux(pad))
    BY <1>13 DEF SpiInit
  <2>2. UNCHANGED expansion /\ pc = "spi" /\ pc' = "touchscreen"
    BY <1>13 DEF SpiInit
  <2> QED
    BY <2>1, <2>2, PadSet
    DEF Mcspi4Mux, Mcspi3Mux, Mcbsp3Mux, Muxed, PadFunctions, Mcspi3, Mcspi4, Mcbsp3, Sdmmc2
<1>14. CASE Touchscreen
  <2>1. pad' = pad \/ pad' = Muxed(pad, {"mcbsp1_fsr"}, "gpio")
    BY <1>14, GpioMux DEF Touchscreen
  <2>2. UNCHANGED expansion /\ pc = "touchscreen" /\ pc' = "initcalls"
    BY <1>14 DEF Touchscreen
  <2> QED BY <2>1, <2>2, PadSet DEF Muxed, PadFunctions, Mcspi3, Mcspi4, Sdmmc2
<1>15. CASE TwlGpioSetup  BY <1>15 DEF TwlGpioSetup
<1>16. CASE OppInit  BY <1>16 DEF OppInit
<1>17. CASE LateInit  BY <1>17 DEF LateInit
<1> QED
  BY <1>1, <1>2, <1>3, <1>4, <1>5, <1>6, <1>7, <1>8, <1>9, <1>10, <1>11, <1>12, <1>13,
     <1>14, <1>15, <1>16, <1>17 DEF Next, InitMachine

\* A GPIO that has an owner keeps it; a free one gets one owner at most.
LEMMA OwnersStay ==
  ASSUME Owning, Next
  PROVE  /\ DOMAIN owner' = Gpios
         /\ \A g \in Gpios : IF owner[g] = {} THEN owner'[g] = {} \/ \E who : owner'[g] = {who}
                             ELSE owner'[g] = owner[g]
         /\ owner'[133] # owner[133] => pc # "params" /\ param["buddy"] = "trainer"
<1> DEFINE Stay == /\ DOMAIN owner' = Gpios
                   /\ \A g \in Gpios : IF owner[g] = {}
                        THEN owner'[g] = {} \/ \E who : owner'[g] = {who}
                        ELSE owner'[g] = owner[g]
           Goal == /\ Stay
                   /\ owner'[133] # owner[133] => pc # "params" /\ param["buddy"] = "trainer"
<1>0. DOMAIN owner = Gpios
  BY DEF Owning
<1>a. ASSUME UNCHANGED owner PROVE Goal
  BY <1>0, <1>a
<1>b. ASSUME NEW g \in Gpios, NEW who, g # 133, owner' = Requested(g, who) PROVE Goal
  BY <1>0, <1>b DEF Requested, Free
<1>c. 156 \in Gpios /\ 157 \in Gpios
  BY DEF Gpios
<1>1. ASSUME NEW p \in Params, NEW str \in Names[p], EarlyParam(p, str) PROVE Goal
  BY <1>1, <1>a DEF EarlyParam, pins
<1>2. CASE MuxInit  BY <1>2, <1>a DEF MuxInit
<1>3. CASE InitRev  BY <1>3, <1>a DEF InitRev, pins
<1>4. CASE Zippy  BY <1>4, <1>a DEF Zippy
<1>5. CASE Wifi  BY <1>5, <1>a DEF Wifi
<1>6. CASE Ulcd
  <2>1. owner' = owner \/ owner' = Requested(156, "LCD power")
    BY <1>6 DEF Ulcd
  <2>2. ASSUME owner' = Requested(156, "LCD power") PROVE Goal
    <3>1. 156 # 133
      OBVIOUS
    <3> HIDE DEF Goal
    <3> QED BY <2>2, <3>1, <1>b, <1>c
  <2> QED BY <2>1, <2>2, <1>a
<1>7. CASE HsmmcInit  BY <1>7, <1>a DEF HsmmcInit
<1>8. CASE I2cInit  BY <1>8, <1>a DEF I2cInit, pins
<1>9. CASE AddDevices  BY <1>9, <1>a DEF AddDevices
<1>10. CASE Ethernet
  <2>1. owner' = owner \/ owner' = Requested(157, EthernetChip)
    BY <1>10 DEF Ethernet
  <2>2. ASSUME owner' = Requested(157, EthernetChip) PROVE Goal
    BY <2>2, <1>b, <1>c
  <2> QED BY <2>1, <2>2, <1>a
<1>11. CASE Trainer
  <2>1. CASE param["buddy"] = "trainer"
    <3>1. owner' = [g \in Gpios |-> IF g \in TrainerGpios /\ Free(g) THEN {"sysfs"}
                                    ELSE owner[g]]
      BY <1>11, <2>1 DEF Trainer
    <3>2. pc # "params"
      BY <1>11 DEF Trainer, Step
    <3> QED BY <2>1, <3>1, <3>2 DEF Free
  <2>2. CASE param["buddy"] # "trainer"
    BY <1>11, <2>2, <1>a DEF Trainer
  <2> QED BY <2>1, <2>2
<1>12. CASE Wlan  BY <1>12, <1>a DEF Wlan, pins
<1>13. CASE SpiInit  BY <1>13, <1>a DEF SpiInit
<1>14. CASE Touchscreen
  <2>1. owner' = owner \/ owner' = Requested(157, "tsc2007_pen_down")
    BY <1>14 DEF Touchscreen, pins
  <2>2. ASSUME owner' = Requested(157, "tsc2007_pen_down") PROVE Goal
    BY <2>2, <1>b, <1>c
  <2> QED BY <2>1, <2>2, <1>a
<1>15. CASE TwlGpioSetup
  <2>1. owner' =
          [g \in Gpios |->
             CASE Free(g) /\ g = Twl + 1 -> {IF cpu3630 THEN "nDVI_PWR_EN" ELSE "EHCI_nOC"}
               [] Free(g) /\ g = Twl + 18 -> {"nEN_USB_PWR"}
               [] OTHER -> owner[g]]
    BY <1>15 DEF TwlGpioSetup
  <2>2. Stay
    <3>1. DOMAIN owner' = Gpios
      BY <2>1
    <3>2. ASSUME NEW g \in Gpios, owner[g] # {} PROVE owner'[g] = owner[g]
      BY <2>1, <3>2 DEF Free
    <3>3. ASSUME NEW g \in Gpios, owner[g] = {}
          PROVE  owner'[g] = {} \/ \E who : owner'[g] = {who}
      <4>1. \/ owner'[g] = {IF cpu3630 THEN "nDVI_PWR_EN" ELSE "EHCI_nOC"}
            \/ owner'[g] = {"nEN_USB_PWR"}
            \/ owner'[g] = owner[g]
        BY <2>1
      <4> QED BY <4>1, <3>3
    <3> QED BY <3>1, <3>2, <3>3
  <2>3. owner'[133] = owner[133]
    BY <2>1 DEF Twl, Gpios, TrainerGpios
  <2> QED BY <2>2, <2>3
<1>16. CASE OppInit  BY <1>16, <1>a DEF OppInit, pins
<1>17. CASE LateInit  BY <1>17, <1>a DEF LateInit, pins
<1> QED
  BY <1>1, <1>2, <1>3, <1>4, <1>5, <1>6, <1>7, <1>8, <1>9, <1>10, <1>11, <1>12, <1>13,
     <1>14, <1>15, <1>16, <1>17 DEF Next, InitMachine

\* Once omap3_beagle_init runs, the names, the kernel and the board stay as they are.
LEMMA Past ==
  ASSUME Choices, Next
  PROVE  /\ pc # "params" => pc' # "params" /\ UNCHANGED param
         /\ pc \notin BeforeZippy => pc' \notin BeforeZippy
         /\ pc \notin BeforeEthernet => pc' \notin BeforeEthernet
         /\ pc \in {"touchscreen", "initcalls"} => pc' = "initcalls"
         /\ UNCHANGED hw
<1> USE DEF Choices, Parts, BeforeZippy, BeforeWifi, BeforeMmc, BeforeEthernet, Step, hw
<1>1. ASSUME NEW p \in Params, NEW str \in Names[p], EarlyParam(p, str)
      PROVE  pc = "params" /\ pc' = "params" /\ UNCHANGED hw
  BY <1>1 DEF EarlyParam
<1>2. ASSUME InitMachine
      PROVE  /\ UNCHANGED <<param, hw>> /\ pc # "initcalls"
             /\ <<pc, pc'>> \in
                  {<<"params", "rev">>, <<"rev", "zippy">>, <<"zippy", "wifi">>,
                   <<"wifi", "ulcd">>, <<"ulcd", "mmc">>, <<"mmc", "i2c">>,
                   <<"i2c", "devices">>, <<"devices", "ethernet">>,
                   <<"ethernet", "trainer">>, <<"trainer", "wlan">>,
                   <<"wlan", "spi">>, <<"spi", "touchscreen">>,
                   <<"touchscreen", "initcalls">>}
  <2>1. CASE MuxInit  BY <2>1 DEF MuxInit
  <2>2. CASE InitRev  BY <2>2 DEF InitRev
  <2>3. CASE Zippy  BY <2>3 DEF Zippy
  <2>4. CASE Wifi  BY <2>4 DEF Wifi
  <2>5. CASE Ulcd  BY <2>5 DEF Ulcd
  <2>6. CASE HsmmcInit  BY <2>6 DEF HsmmcInit
  <2>7. CASE I2cInit  BY <2>7 DEF I2cInit
  <2>8. CASE AddDevices  BY <2>8 DEF AddDevices
  <2>9. CASE Ethernet  BY <2>9 DEF Ethernet
  <2>10. CASE Trainer  BY <2>10 DEF Trainer
  <2>11. CASE Wlan  BY <2>11 DEF Wlan
  <2>12. CASE SpiInit  BY <2>12 DEF SpiInit
  <2>13. CASE Touchscreen  BY <2>13 DEF Touchscreen
  <2> QED
    BY <1>2, <2>1, <2>2, <2>3, <2>4, <2>5, <2>6, <2>7, <2>8, <2>9, <2>10, <2>11,
       <2>12, <2>13 DEF InitMachine
<1>3. ASSUME TwlGpioSetup \/ OppInit \/ LateInit
      PROVE  pc = "initcalls" /\ pc' = pc /\ param' = param /\ UNCHANGED hw
  BY <1>3 DEF TwlGpioSetup, OppInit, LateInit
<1>4. CASE InitMachine
  <2>1. /\ pc = "touchscreen" => pc' = "initcalls"
        /\ pc \notin {"params"} => pc' \notin {"params"}
        /\ pc \notin BeforeZippy => pc' \notin BeforeZippy
        /\ pc \notin BeforeEthernet => pc' \notin BeforeEthernet
    BY <1>4, <1>2
  <2> QED BY <1>4, <1>2, <2>1
<1>5. CASE \E p \in Params : \E str \in Names[p] : EarlyParam(p, str)
  <2>1. pc = "params" /\ pc' = "params" /\ UNCHANGED hw
    BY <1>5, <1>1
  <2> QED BY <2>1
<1>6. CASE TwlGpioSetup \/ OppInit \/ LateInit
  <2>1. pc = "initcalls" /\ pc' = pc /\ param' = param /\ UNCHANGED hw
    BY <1>6, <1>3
  <2> QED BY <2>1
<1> QED
  BY <1>4, <1>5, <1>6 DEF Next

\* Hence a GPIO never has two owners.
LEMMA OwningKept ==
  ASSUME Choices, Owning, Next
  PROVE  Owning'
<1>1. \A g \in Gpios : owner'[g] = {} \/ \E who : owner'[g] = {who}
  BY OwnersStay DEF Owning
<1>2. owner'[133] \notin {{}, {"other"}} => pc' # "params" /\ param'["buddy"] = "trainer"
  BY OwnersStay, Past DEF Owning
<1> QED
  BY <1>1, <1>2, OwnersStay DEF Owning

\* A device that is registered stays justified.
LEMMA DevicesStay ==
  ASSUME Choices, Owning, Registered, Next
  PROVE  /\ \A d \in spi : OwnSpi(d)' \/ EthernetSpi(d)'
         /\ \A d \in devices : ZippyRegulator(d)' \/ WlanRegulator(d)' \/ d \in OtherDevices
<1>1. ASSUME NEW d, OwnSpi(d) PROVE OwnSpi(d)'
  BY <1>1, Past DEF OwnSpi, SpiDevice, BeforeEthernet
<1>2. ASSUME NEW d, EthernetSpi(d) PROVE EthernetSpi(d)'
  <2>1. pc # "params" /\ pc \notin BeforeEthernet /\ pc' \notin BeforeEthernet
    BY <1>2, Past DEF EthernetSpi, BeforeEthernet, BeforeMmc, BeforeWifi, BeforeZippy
  <2>2. EthernetChip' = EthernetChip
    BY <2>1, Past DEF EthernetChip, hw
  <2>3. owner'[157] = owner[157]
    BY <1>2, OwnersStay DEF EthernetSpi, Gpios
  <2> QED BY <1>2, <2>1, <2>2, <2>3 DEF EthernetSpi, SpiDevice
<1>3. ASSUME NEW d, ZippyRegulator(d) \/ WlanRegulator(d)
      PROVE  ZippyRegulator(d)' \/ WlanRegulator(d)'
  BY <1>3, Past DEF ZippyRegulator, WlanRegulator, BeforeZippy, Regulator
<1> QED
  BY <1>1, <1>2, <1>3 DEF Registered

\* Each part of omap3_beagle_init that registers a device does so where the
\* invariant says.
LEMMA RegisteredKept ==
  ASSUME Choices, Owning, Registered, Next
  PROVE  Registered'
<1> DEFINE SpiOK == \A d \in spi' : OwnSpi(d)' \/ EthernetSpi(d)'
           DevOK == \A d \in devices' :
                      ZippyRegulator(d)' \/ WlanRegulator(d)' \/ d \in OtherDevices
           BusOK == bus2' \in {{}, {"tlc59108", "tsc2007"}, {"ds1307"}, {"24c256"}}
<1>s. ASSUME UNCHANGED spi PROVE SpiOK
  BY <1>s, DevicesStay
<1>d. ASSUME UNCHANGED devices PROVE DevOK
  BY <1>d, DevicesStay
<1>b. ASSUME UNCHANGED bus2 PROVE BusOK
  BY <1>b DEF Registered
<1>a. ASSUME UNCHANGED added PROVE SpiOK /\ DevOK /\ BusOK
  BY <1>a, <1>s, <1>d, <1>b DEF added
<1>0. SpiOK /\ DevOK /\ BusOK
  <2> HIDE DEF SpiOK, DevOK, BusOK
  <2>1. ASSUME NEW p \in Params, NEW str \in Names[p], EarlyParam(p, str)
        PROVE  SpiOK /\ DevOK /\ BusOK
    BY <2>1, <1>a DEF EarlyParam
  <2>2. CASE MuxInit  BY <2>2, <1>a DEF MuxInit
  <2>3. CASE InitRev  BY <2>3, <1>a DEF InitRev
  <2>4. CASE Zippy
    <3>1. UNCHANGED <<spi, bus2>>
      BY <2>4 DEF Zippy
    <3>2. CASE UNCHANGED devices  BY <3>1, <3>2, <1>s, <1>d, <1>b
    <3>3. CASE ~UNCHANGED devices
      <4>1. /\ param["buddy"] \in Zippies
            /\ devices' = devices \cup {Regulator("omap_zippy_device")}
        BY <2>4, <3>3 DEF Zippy, Register, Regulator
      <4>2. pc' = "wifi" /\ UNCHANGED param
        BY <2>4 DEF Zippy, Step
      <4>3. ZippyRegulator(Regulator("omap_zippy_device"))'
        BY <4>1, <4>2 DEF ZippyRegulator, BeforeZippy, Regulator
      <4> QED BY <4>1, <4>3, <3>1, <1>s, <1>b, DevicesStay DEF DevOK, Regulator
    <3> QED BY <3>2, <3>3
  <2>5. CASE Wifi  BY <2>5, <1>a DEF Wifi
  <2>6. CASE Ulcd  BY <2>6, <1>a DEF Ulcd
  <2>7. CASE HsmmcInit  BY <2>7, <1>a DEF HsmmcInit
  <2>8. CASE I2cInit
    <3>1. UNCHANGED <<devices, spi>>
      BY <2>8 DEF I2cInit
    <3>2. BusOK
      BY <2>8 DEF I2cInit, BusOK
    <3> QED BY <3>1, <3>2, <1>s, <1>d
  <2>9. CASE AddDevices
    <3>1. UNCHANGED <<spi, bus2>>
      BY <2>9 DEF AddDevices
    <3>2. \A d \in devices' : d \in devices \/ d \in OtherDevices
      BY <2>9 DEF AddDevices, Register, OtherDevices
    <3> QED BY <3>1, <3>2, <1>s, <1>b, DevicesStay DEF DevOK
  <2>10. CASE Ethernet
    <3>1. UNCHANGED <<devices, bus2>>
      BY <2>10 DEF Ethernet
    <3>2. CASE UNCHANGED spi  BY <3>1, <3>2, <1>s, <1>d, <1>b
    <3>3. CASE ~UNCHANGED spi
      <4>1. /\ EthernetChip # "none" /\ Free(157) /\ owner' = Requested(157, EthernetChip)
            /\ spi' = spi \cup {SpiDevice(EthernetChip, 4, 0, 157)}
        BY <2>10, <3>3 DEF Ethernet
      <4>2. pc' = "trainer" /\ UNCHANGED <<param, kconfig>>
        BY <2>10 DEF Ethernet, Step, hw
      <4>3. owner'[157] = {EthernetChip}
        BY <4>1 DEF Requested, Gpios, Owning
      <4>4. EthernetChip' = EthernetChip
        BY <4>2 DEF EthernetChip
      <4>5. EthernetSpi(SpiDevice(EthernetChip, 4, 0, 157))'
        BY <4>1, <4>2, <4>3, <4>4
        DEF EthernetSpi, SpiDevice, BeforeEthernet, BeforeMmc, BeforeWifi, BeforeZippy
      <4> QED BY <4>1, <4>4, <4>5, <3>1, <1>d, <1>b, DevicesStay DEF SpiOK, SpiDevice
    <3> QED BY <3>2, <3>3
  <2>11. CASE Trainer  BY <2>11, <1>a DEF Trainer
  <2>12. CASE Wlan
    <3>1. UNCHANGED <<spi, bus2>>
      BY <2>12 DEF Wlan
    <3>2. CASE UNCHANGED devices  BY <3>1, <3>2, <1>s, <1>d, <1>b
    <3>3. CASE ~UNCHANGED devices
      <4>1. /\ param["buddy"] \in Wifis
            /\ \A d \in devices' : \/ d \in devices \/ d \in OtherDevices
                                   \/ d = Regulator("omap_vwlan_device")
        BY <2>12, <3>3 DEF Wlan, WlanFitted, WifiFitted, Register, Regulator, OtherDevices
      <4>2. pc' = "spi" /\ UNCHANGED param
        BY <2>12 DEF Wlan, Step
      <4>3. \A d : d = Regulator("omap_vwlan_device") => WlanRegulator(d)'
        BY <4>1, <4>2 DEF WlanRegulator, BeforeZippy, Regulator
      <4> QED BY <4>1, <4>3, <3>1, <1>s, <1>b, DevicesStay DEF DevOK
    <3> QED BY <3>2, <3>3
  <2>13. CASE SpiInit
    <3>1. UNCHANGED bus2 /\ pc' = "touchscreen"
      BY <2>13 DEF SpiInit, Step
    <3>2. \A d \in devices' : d \in devices \/ d \in OtherDevices
      BY <2>13 DEF SpiInit, Register, OtherDevices
    <3>3. \A d \in spi' : d \in spi \/ \E cs \in {0, 1} : d = SpiDevice("omap3_spi", 3, cs, 0)
      BY <2>13 DEF SpiInit
    <3>4. \A d : (\E cs \in {0, 1} : d = SpiDevice("omap3_spi", 3, cs, 0)) => OwnSpi(d)'
      BY <3>1 DEF OwnSpi, SpiDevice
    <3>5. SpiOK
      BY <3>3, <3>4, DevicesStay DEF SpiOK
    <3>6. DevOK
      BY <3>2, DevicesStay DEF DevOK
    <3> QED BY <3>1, <3>5, <3>6, <1>b
  <2>14. CASE Touchscreen  BY <2>14, <1>a DEF Touchscreen
  <2>15. CASE TwlGpioSetup  BY <2>15, <1>a DEF TwlGpioSetup
  <2>16. CASE OppInit  BY <2>16, <1>a DEF OppInit
  <2>17. CASE LateInit
    <3>1. UNCHANGED <<spi, bus2>>
      BY <2>17 DEF LateInit
    <3>2. \A d \in devices' : d \in devices \/ d \in OtherDevices
      BY <2>17 DEF LateInit, OtherDevices
    <3> QED BY <3>1, <3>2, <1>s, <1>b, DevicesStay DEF DevOK
  <2> QED
    BY <2>1, <2>2, <2>3, <2>4, <2>5, <2>6, <2>7, <2>8, <2>9, <2>10, <2>11, <2>12, <2>13,
       <2>14, <2>15, <2>16, <2>17 DEF Next, InitMachine
<1> QED
  BY <1>0 DEF Registered

\* The controllers are set up once, from the expansion board that was found, and
\* completed once.
LEMMA SlotsKept ==
  ASSUME Choices, Owning, Slots, Next
  PROVE  Slots'
<1> DEFINE Early == IF pc \in BeforeMmc THEN hsmmc.init = "none"
                    ELSE hsmmc.init = Controllers(expansion.mmc) /\ hsmmc.caps = config.mmc_caps
           Late == hsmmc.late # "none" =>
                     /\ pc = "initcalls"
                     /\ hsmmc.late = Controllers(expansion.mmc)
                     /\ hsmmc.wp = config.mmc1_gpio_wp /\ hsmmc.cd = Twl
           Unread == pc \notin {"params", "rev"} /\ rev \in {0, 2} /\ config.mmc_caps = 8 =>
                       \E g \in RevGpios : owner[g] # {}
           Fields == DOMAIN hsmmc = {"init", "caps", "late", "wp", "cd"}
           Rest == opp \in {{}, {"mpu", "iva"}} /\ late \subseteq {"twl", "opp", "camera"}
<1> USE DEF BeforeMmc, BeforeWifi, BeforeZippy
<1>1. Unread'
  <2>1. \A g \in RevGpios : owner[g] # {} => owner'[g] # {}
    BY OwnersStay DEF Gpios, RevGpios
  <2>2. CASE pc \in {"params", "rev"} /\ ~InitRev
    <3>1. pc' \in {"params", "rev"}
      BY <2>2 DEF Next, InitMachine, EarlyParam, MuxInit, Zippy, Wifi, Ulcd, HsmmcInit,
         I2cInit, AddDevices, Ethernet, Trainer, Wlan, SpiInit, Touchscreen, TwlGpioSetup,
         OppInit, LateInit, Step
    <3> QED BY <3>1
  <2>3. CASE InitRev
    <3>1. UNCHANGED <<rev, owner>>
      BY <2>3 DEF InitRev, Step, hw, pins
    <3>2. CASE \A g \in RevGpios : Free(g)
      <4>1. config' = ForRevision(config)
        BY <2>3, <3>2 DEF InitRev
      <4>2. rev \in {0, 2} => config'.mmc_caps = 4
        BY <4>1 DEF ForRevision, Choices
      <4> QED BY <3>1, <4>2
    <3>3. CASE \E g \in RevGpios : ~Free(g)
      BY <3>1, <3>3 DEF Free
    <3> QED BY <3>2, <3>3
  <2>4. CASE pc \notin {"params", "rev"}
    <3>1. UNCHANGED rev /\ config'.mmc_caps = config.mmc_caps
      BY <2>4 DEF Next, InitMachine, EarlyParam, MuxInit, InitRev, Zippy, Wifi, Ulcd, HsmmcInit,
         I2cInit, AddDevices, Ethernet, Trainer, Wlan, SpiInit, Touchscreen, TwlGpioSetup,
         OppInit, LateInit, Step, hw, set, Choices, Configs
    <3> QED BY <2>1, <2>4, <3>1 DEF Slots
  <2> QED BY <2>2, <2>3, <2>4
<1>2. Early' /\ Late' /\ Fields' /\ Rest'
  <2> USE DEF Slots, Step, hw, set, pins, after
  <2>1. ASSUME NEW p \in Params, NEW str \in Names[p], EarlyParam(p, str)
        PROVE  Early' /\ Late' /\ Fields' /\ Rest'
    BY <2>1 DEF EarlyParam
  <2>2. CASE MuxInit  BY <2>2 DEF MuxInit
  <2>3. CASE InitRev  BY <2>3 DEF InitRev
  <2>4. CASE Zippy  BY <2>4 DEF Zippy
  <2>5. CASE Wifi  BY <2>5 DEF Wifi
  <2>6. CASE Ulcd  BY <2>6 DEF Ulcd
  <2>7. CASE HsmmcInit  BY <2>7 DEF HsmmcInit
  <2>8. CASE I2cInit  BY <2>8 DEF I2cInit
  <2>9. CASE AddDevices  BY <2>9 DEF AddDevices
  <2>10. CASE Ethernet  BY <2>10 DEF Ethernet
  <2>11. CASE Trainer  BY <2>11 DEF Trainer
  <2>12. CASE Wlan  BY <2>12 DEF Wlan
  <2>13. CASE SpiInit  BY <2>13 DEF SpiInit
  <2>14. CASE Touchscreen  BY <2>14 DEF Touchscreen
  <2>15. CASE TwlGpioSetup  BY <2>15 DEF TwlGpioSetup, Choices, LateControllers
  <2>16. CASE OppInit  BY <2>16 DEF OppInit, CleanedUp
  <2>17. CASE LateInit  BY <2>17 DEF LateInit
  <2> QED
    BY <2>1, <2>2, <2>3, <2>4, <2>5, <2>6, <2>7, <2>8, <2>9, <2>10, <2>11, <2>12, <2>13,
       <2>14, <2>15, <2>16, <2>17 DEF Next, InitMachine
<1> QED
  BY <1>1, <1>2 DEF Slots

\* The five parts together are an invariant.
LEMMA Invariance == Spec => []IInv
<1>1. ASSUME IInv, Next PROVE IInv'
  BY <1>1, ChoicesKept, MuxingKept, OwningKept, RegisteredKept, SlotsKept DEF IInv
<1>2. ASSUME IInv, UNCHANGED vars PROVE IInv'
  <2>1. UNCHANGED <<hw, pc, param, set, pins, added, after>>
    BY <1>2 DEF vars
  <2>2. UNCHANGED <<kconfig, rev, pc, param, config, expansion, pad, owner, devices, spi, bus2,
                    hsmmc, opp, late>>
    BY <2>1 DEF hw, set, pins, added, after
  <2>3. Choices' /\ Muxing' /\ Owning' /\ Slots'
    BY <1>2, <2>2 DEF IInv, Choices, Muxing, Owning, Slots, WifiFitted
  <2>4. Registered'
    BY <1>2, <2>2 DEF IInv, Registered, OwnSpi, EthernetSpi, EthernetChip, ZippyRegulator,
       WlanRegulator
  <2> QED BY <2>3, <2>4 DEF IInv
<1> QED
  BY InitInv, <1>1, <1>2, PTL DEF Spec

-----------------------------------------------------------------------------

\* The type invariant: for any kernel, any names on the command line and any GPIOs
\* taken before.
THEOREM BoardTypes == Spec => []BoardTypeOK
<1>1. IInv => BoardTypeOK
  <2> SUFFICES ASSUME IInv PROVE BoardTypeOK
    OBVIOUS
  <2>1. ASSUME NEW g \in Gpios PROVE Cardinality(owner[g]) <= 1
    <3>1. CASE owner[g] = {}
      BY <3>1, FS_EmptySet
    <3>2. CASE \E who : owner[g] = {who}
      <4>1. PICK who : owner[g] = {who}
        BY <3>2
      <4>2. Cardinality({who}) = 1
        BY FS_Singleton
      <4> QED BY <4>1, <4>2
    <3> QED BY <3>1, <3>2 DEF IInv, Owning
  <2> QED
    BY <2>1 DEF IInv, Choices, Expansions, Muxing, Registered, Slots, BoardTypeOK,
       PadFunctions
<1> QED
  BY Invariance, <1>1, PTL

\* However many boards the command line names, at the end of omap3_beagle_init the
\* SPI driver's two devices and the Ethernet chip have their pads, and the chip
\* its interrupt.
THEOREM DevicesAreWired == Spec => []SpiDevicesWired
<1>1. IInv => SpiDevicesWired
  <2> SUFFICES ASSUME IInv, Booted, NEW d \in spi
               PROVE  /\ IF d.bus = 3 THEN \A p \in Mcspi3 : pad[p] = "spi3"
                                      ELSE \A p \in Mcspi4 : pad[p] = "spi4"
                      /\ d.irq # 0 => owner[d.irq] = {d.dev} /\ pad[PadOf[d.irq]] = "gpio"
    BY DEF SpiDevicesWired
  <2>1. /\ \A p \in Mcspi3 : pad[p] = "spi3"
        /\ \A p \in Mcspi4 : pad[p] = "spi4"
        /\ pad["mcbsp1_fsr"] = "gpio"
    BY DEF IInv, Muxing, Booted
  <2>2. OwnSpi(d) \/ EthernetSpi(d)
    BY DEF IInv, Registered
  <2>3. CASE OwnSpi(d)
    BY <2>1, <2>3 DEF OwnSpi, SpiDevice
  <2>4. CASE EthernetSpi(d)
    BY <2>1, <2>4, PadNames DEF EthernetSpi, SpiDevice
  <2> QED BY <2>2, <2>3, <2>4
<1> QED
  BY Invariance, <1>1, PTL

\* No expansion board loses a pad but to McSPI3 and McSPI4; the second MMC
\* controller, of a WLAN or a zippy, loses no other.
THEOREM OnlySpiTakes == Spec => []OnlySpiTakesPads
<1>1. IInv => OnlySpiTakesPads
  <2> SUFFICES ASSUME IInv, Booted PROVE OnlySpiTakesPads
    BY DEF OnlySpiTakesPads
  <2>1. pc = "initcalls"
    BY DEF Booted
  <2>2. /\ expansion.mmc = "wifi" => param["buddy"] \in Wifis
        /\ expansion.mmc = "zippy" => param["buddy"] \in Zippies
    BY DEF IInv, Choices, WifiFitted
  <2>3. ASSUME NEW g \in DOMAIN PadOf \cap Gpios, owner[g] \notin {{}, {"other"}},
               PadOf[g] \notin Mcspi3 \cup Mcspi4
        PROVE  pad[PadOf[g]] \in {"gpio", "boot"}
    <3>1. g \in {133, 136, 137, 138, 139, 141, 157, 162}
      <4>1. g \in {130, 131, 132, 133, 134, 135, 136, 137, 138, 139, 141, 156, 157, 162}
        BY PadDomain DEF Gpios, RevGpios, TrainerGpios, Twl
      <4> QED BY <4>1, <2>3, PadNames DEF Mcspi3, Mcspi4, Sdmmc2
    <3>2. CASE g = 133
      <4>1. param["buddy"] = "trainer"
        BY <2>3, <3>2 DEF IInv, Owning
      <4>2. expansion.mmc \notin {"wifi", "zippy"}
        BY <4>1, <2>2 DEF Wifis, Zippies
      <4> QED BY <2>1, <3>2, <4>2, PadNames DEF IInv, Muxing
    <3>3. CASE g # 133
      BY <2>1, <3>1, <3>3, PadNames DEF IInv, Muxing
    <3> QED BY <3>2, <3>3
  <2>4. ASSUME hsmmc.init \in {"mmcbbt", "mmc_zippy"}, NEW p \in Sdmmc2 \ Mcspi3
        PROVE  pad[p] = "mmc2"
    <3>1. expansion.mmc \in {"wifi", "zippy"} /\ pc \notin BeforeMmc
      BY <2>1, <2>4 DEF IInv, Slots, Controllers, BeforeMmc, BeforeWifi, BeforeZippy
    <3>2. p = "sdmmc2_dat1"
      BY <2>4 DEF Sdmmc2, Mcspi3
    <3> QED BY <2>1, <3>1, <3>2 DEF IInv, Muxing
  <2> QED BY <2>3, <2>4 DEF OnlySpiTakesPads
<1> QED
  BY Invariance, <1>1, PTL

\* The TWL4030's callback, whenever it comes, completes the controllers that were
\* set up; no xM whose revision was read has a bus of 8 bits; and the card
\* detection and write protection of a zippy's second slot stay GPIOs.
THEOREM MmcStaysConsistent == Spec => []MmcConsistent
<1>1. IInv => MmcConsistent
  <2> SUFFICES ASSUME IInv PROVE MmcConsistent
    OBVIOUS
  <2>1. /\ hsmmc.init # "none" => pc \notin BeforeMmc
        /\ pc \notin BeforeMmc => hsmmc.init = Controllers(expansion.mmc)
                                  /\ hsmmc.caps = config.mmc_caps
    BY DEF IInv, Slots
  <2>2. hsmmc.late # "none" =>
          hsmmc.late = hsmmc.init /\ hsmmc.wp = config.mmc1_gpio_wp /\ hsmmc.cd = Twl
    BY <2>1 DEF IInv, Slots, BeforeMmc, BeforeWifi, BeforeZippy
  <2>3. hsmmc.init # "none" /\ rev \in {0, 2} /\ hsmmc.caps = 8 =>
          \E g \in RevGpios : owner[g] # {}
    BY <2>1 DEF IInv, Slots, BeforeMmc, BeforeWifi, BeforeZippy
  <2>4. hsmmc.init = "mmc_zippy" => pad[PadOf[141]] = "gpio" /\ pad[PadOf[162]] = "gpio"
    <3>1. hsmmc.init = "mmc_zippy" => expansion.mmc = "zippy"
      BY <2>1 DEF Controllers
    <3> QED BY <3>1, PadNames DEF IInv, Muxing
  <2> QED BY <2>2, <2>3, <2>4 DEF MmcConsistent
<1> QED
  BY Invariance, <1>1, PTL

\* No two devices are registered under one name and number, nor two on one chip
\* select: zippy and WLAN, which share a regulator's name, are never both fitted.
THEOREM DevicesAreUnique == Spec => []DevicesUnique
<1>1. IInv => DevicesUnique
  <2> SUFFICES ASSUME IInv PROVE DevicesUnique
    OBVIOUS
  <2>1. ASSUME NEW d \in devices, NEW e \in devices, d.name = e.name, d.id = e.id
        PROVE  d = e
    <3>1. \A x \in devices : ZippyRegulator(x) \/ WlanRegulator(x) \/ x \in OtherDevices
      BY DEF IInv, Registered
    <3>2. \A x \in OtherDevices : x.name # "reg-fixed-voltage"
      BY DEF OtherDevices
    <3>3. \A x, y \in OtherDevices : x.name = y.name => x = y
      BY DEF OtherDevices
    <3>4. \A x, y : (ZippyRegulator(x) \/ WlanRegulator(x)) /\
                    (ZippyRegulator(y) \/ WlanRegulator(y)) =>
             x = y /\ x.name = "reg-fixed-voltage"
      BY DEF ZippyRegulator, WlanRegulator, Zippies, Wifis, Regulator
    <3> QED BY <2>1, <3>1, <3>2, <3>3, <3>4
  <2>2. ASSUME NEW d \in spi, NEW e \in spi, d.bus = e.bus, d.cs = e.cs
        PROVE  d = e
    BY <2>2 DEF IInv, Registered, OwnSpi, EthernetSpi, SpiDevice
  <2> QED BY <2>1, <2>2 DEF DevicesUnique
<1> QED
  BY Invariance, <1>1, PTL
=============================================================================
