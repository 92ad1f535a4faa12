--------------------------- MODULE MCBeagleBoard ---------------------------
(* Instance of BeagleBoard for TLC. *)
EXTENDS BeagleBoard

AllOptions == {"WL12XX", "ENC28J60", "KS8851", "TSC2007", "DS1307", "MT9P031"}

KconfigsTwo == {{}, AllOptions}

\* Nothing, the shared interrupt pin, a pin of the revision, of the LCD, of the
\* trainer board.
ForeignSets == {{}, {157}, {171}, {156, 162}}

NamesAll ==
  [p \in Params |->
    CASE p = "buddy" -> {"zippy", "zippy2", "bbtoys-wifi", "trainer", "beaglefpga"}
      [] p = "buddy2" -> {"bbtoys-ulcd"}
      [] p = "camera" -> {"lbcm5m1"}]
=============================================================================
