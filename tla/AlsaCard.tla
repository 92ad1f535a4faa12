------------------------------ MODULE AlsaCard ------------------------------
(***************************************************************************)
(* The sound cards of alsa_gpio and alsa_sound_gen: probe, remove, and     *)
(* open and close of a PCM file against them.  What happens on an open     *)
(* stream is in GpioTimer and SoundGenTimer.                               *)
(*                                                                         *)
(* held may contain "card" (struct snd_card with the driver's own struct), *)
(* "pcm" and "node" (the card is registered: its files can be opened).     *)
(***************************************************************************)
EXTENDS PlatformModule, FiniteSets

VARIABLE dpcm    \* the files whose substream has its timer struct

Cards == {"alsa_gpio", "soundgen"}

\* alsa_gpio plays and captures, one substream each; alsa_sound_gen captures.
Substreams == IF driver = "alsa_gpio" THEN 2 ELSE 1

\* mutant: the error label returns without snd_card_free
CardKept == {"card"}

\* What the label error leaves behind.
ErrorLeaves == {}

CardProbe(needed) ==
  /\ bound = "probing"
  /\ \E fail \in Failing({"snd_card_new", "snd_pcm_new", "snd_card_register"}) :
       IF fail \notin needed
       THEN /\ bound' = "bound"
            /\ held' = {"card", "pcm", "node"} \ (IF fail = "snd_pcm_new" THEN {"pcm"} ELSE {})
            /\ UNCHANGED lost
       ELSE /\ bound' = "unbound"
            /\ lost' = lost \cup (IF fail = "snd_card_new" THEN {} ELSE ErrorLeaves)
            /\ UNCHANGED held
  /\ UNCHANGED <<driver, modVars, file, dpcm>>

\* The result of snd_card_alsa_gpio_pcm is not looked at.
GpioProbe ==
  driver = "alsa_gpio" /\ CardProbe({"snd_card_new", "snd_card_register"})

SoundgenProbe ==
  driver = "soundgen" /\ CardProbe({"snd_card_new", "snd_pcm_new", "snd_card_register"})

\* The open handler; without memory for the timer struct it fails and leaves
\* nothing behind.
PcmOpen(f) ==
  /\ driver \in Cards /\ {"pcm", "node"} \subseteq held /\ Alive
  /\ ~Open(f) /\ Cardinality({g \in Files : Open(g)}) < Substreams
  /\ file' = [file EXCEPT ![f] = "open"]
  /\ dpcm' = dpcm \cup {f}
  /\ UNCHANGED <<driver, modVars, bindVars>>

\* Also for a file of a card that has gone: ALSA keeps the release handler.
PcmClose(f) ==
  /\ driver \in Cards /\ Open(f)
  /\ file' = [file EXCEPT ![f] = "closed"]
  /\ dpcm' = dpcm \ {f}
  /\ UNCHANGED <<driver, modVars, bindVars>>

\* remove is snd_card_free: it disconnects the card, ...
CardDisconnect ==
  /\ driver \in Cards /\ bound = "removing" /\ "node" \in held
  /\ held' = held \ {"node"}
  /\ UNCHANGED <<driver, modVars, bound, lost, file, dpcm>>

\* mutant: the card is freed at once
FreedAtOnce == TRUE

\* ... waits until the last of its files is closed, and frees it.
LastFileClosed == \A f \in Files : ~Open(f)

CardFree ==
  /\ driver \in Cards /\ bound = "removing" /\ "node" \notin held
  /\ LastFileClosed
  /\ held' = {} /\ bound' = "unbound"
  /\ UNCHANGED <<driver, modVars, lost, file, dpcm>>

CardRemove == CardDisconnect \/ CardFree
CardProbes == GpioProbe \/ SoundgenProbe
CardFileStep(f) == PcmOpen(f) \/ PcmClose(f)
=============================================================================
