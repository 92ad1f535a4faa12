----------------------------- MODULE SpiMessage -----------------------------
(***************************************************************************)
(* What one omap3_spi_write does to its data, between locking and          *)
(* unlocking buf_lock: parse_msg, lsb_first, and the loop that splits the  *)
(* message into chunks of group_by bytes.  The device echoes what it is    *)
(* sent, so that read_buffer shows what was on the wire.  The SPI mode and *)
(* the speed go from the header to the transfer unread, and are left out.  *)
(***************************************************************************)
EXTENDS Integers, Sequences

CONSTANTS
  Bits,        \* width of a byte, 8
  HeaderLen,   \* bytes of header before the payload, 9
  BufSize,     \* BUFSIZE: length of spidrv->buffer and of read_buffer
  ChipSelect,  \* spi->chip_select
  Controls,    \* control bytes a user sends
  Widths,      \* bits-per-word bytes a user sends
  Lengths,     \* ndb bytes a user sends
  Groups,      \* group_by bytes a user sends
  Payloads,    \* sequences of bytes a user sends after the header
  MaxWrites    \* bound on the number of writes

\* 1 << n
Pow2[n \in Nat] == IF n = 0 THEN 1 ELSE 2 * Pow2[n - 1]

Byte == 0 .. Pow2[Bits] - 1

ASSUME SizesAssumption ==
  Bits \in Nat \ {0} /\ HeaderLen \in Nat /\ BufSize \in Nat
ASSUME InputAssumption ==
  /\ Controls \subseteq Byte /\ Widths \subseteq Byte
  /\ Lengths \subseteq Byte
  /\ Groups \subseteq Byte \ {0}  \* the loop of write_msg never ends with 0
  /\ Payloads \subseteq Seq(Byte) /\ ChipSelect \in 0 .. 3
\* In the code, where both are any byte: 9 + 255 + 255 - 1 <= 4096.
ASSUME BufSizeAssumption ==
  \A n \in Lengths, g \in Groups : /\ HeaderLen + n + g - 1 <= BufSize
                                    /\ HeaderLen + n + 1 <= BufSize

VARIABLES
  phase,       \* "idle", "swap", "reverse", "send"
  control, bpw, ndb, group,  \* params, with the control byte undivided
  spi_buffer,  \* the payload part of spidrv->buffer, from index 0
  payload,     \* what the user passed
  i,           \* the loop variable of the phase
  wire,        \* bytes sent since the write began
  writes,      \* number of writes begun
  read_buffer,
  last_len

vars == <<phase, control, bpw, ndb, group, spi_buffer, payload, i, wire,
          writes, read_buffer, last_len>>
paramVars == <<control, bpw, ndb, group, payload, writes>>

(***************************************************************************)
(* The fields of the control byte and the bit reversal.                    *)
(***************************************************************************)

CsOf(c) == (c \div 16) % 4
LsbfOf(c) == (c \div 2) % 2

Bit(w, k) == (w \div Pow2[k]) % 2

\* mutant: the target bit is off by one
RoundsShifted(w) ==
  LET new_word[n \in 0 .. Bits] ==
        IF n = 0 THEN 0 ELSE new_word[n - 1] + Bit(w, n - 1) * Pow2[Bits - n + 1]
  IN  new_word

\* new_word after n rounds of the loop of omap3_spi_reverse_bits; its bits are
\* ORed in one by one, each a new one
Rounds(w) ==
  LET new_word[n \in 0 .. Bits] ==
        IF n = 0 THEN 0 ELSE new_word[n - 1] + Bit(w, n - 1) * Pow2[Bits - n]
  IN  new_word

ReverseBits(w) == Rounds(w)[Bits]

(***************************************************************************)
(* The write.                                                              *)
(***************************************************************************)

\* Index k of the buffer after the header: the user's bytes, then the zeros of
\* memset.
Loaded(p) ==
  [k \in 0 .. BufSize - HeaderLen - 1 |-> IF k < Len(p) THEN p[k + 1] ELSE 0]

Start(c, b, n, g, p) ==
  /\ phase = "idle" /\ writes < MaxWrites
  /\ writes' = writes + 1
  /\ control' = c /\ bpw' = b /\ ndb' = n /\ group' = g /\ payload' = p
  /\ spi_buffer' = Loaded(p)
  /\ wire' = <<>>
  /\ i' = 0
  /\ IF CsOf(c) # ChipSelect
     THEN UNCHANGED <<phase, last_len>>      \* parse_msg fails
     ELSE /\ last_len' = n
          /\ phase' = CASE LsbfOf(c) = 1 /\ b = 2 * Bits -> "swap"
                        [] LsbfOf(c) = 1 /\ b = Bits -> "reverse"
                        [] OTHER -> "send"
  /\ UNCHANGED read_buffer

Goto(p) == phase' = p /\ i' = 0

SwapStep == 2

\* the loop that exchanges the bytes of each 16-bit word
Swap ==
  /\ phase = "swap"
  /\ IF i < ndb
     THEN /\ spi_buffer' = [spi_buffer EXCEPT ![i] = spi_buffer[i + 1],
                                              ![i + 1] = spi_buffer[i]]
          /\ i' = i + SwapStep
          /\ UNCHANGED phase
     ELSE Goto("reverse") /\ UNCHANGED spi_buffer
  /\ UNCHANGED <<paramVars, wire, read_buffer, last_len>>

Reverse ==
  /\ phase = "reverse"
  /\ IF i < ndb
     THEN /\ spi_buffer' = [spi_buffer EXCEPT ![i] = ReverseBits(@)]
          /\ i' = i + 1
          /\ UNCHANGED phase
     ELSE Goto("send") /\ UNCHANGED spi_buffer
  /\ UNCHANGED <<paramVars, wire, read_buffer, last_len>>

\* mutants: replies always go to the buffer's start; the loop runs on to ndb itself
FromStart == 0
OneMore == i <= ndb

XferLen == IF ndb < group THEN ndb ELSE group
ReplyAt == i
More == i < ndb

\* one round of the sending loop, transmit_msg included
Send ==
  /\ phase = "send"
  /\ IF More
     THEN /\ wire' = wire \o [k \in 1 .. XferLen |-> spi_buffer[i + k - 1]]
          /\ read_buffer' =
               [k \in DOMAIN read_buffer |->
                  CASE k \in ReplyAt .. ReplyAt + XferLen - 1 ->
                         spi_buffer[i + k - ReplyAt]
                    [] k \in ReplyAt + XferLen .. ReplyAt + group - 1 -> 0
                    [] OTHER -> read_buffer[k]]
          /\ i' = i + group
          /\ UNCHANGED phase
     ELSE Goto("idle") /\ UNCHANGED <<wire, read_buffer>>
  /\ UNCHANGED <<paramVars, spi_buffer, last_len>>

-----------------------------------------------------------------------------

Init ==
  /\ phase = "idle" /\ i = 0 /\ last_len = 0 /\ writes = 0
  /\ control = 0 /\ bpw = 0 /\ ndb = 0 /\ group = 1
  /\ payload = <<>> /\ wire = <<>>
  /\ spi_buffer = Loaded(<<>>)
  /\ read_buffer = [k \in 0 .. BufSize - 1 |-> 0]

Next ==
  \/ \E c \in Controls, b \in Widths, n \in Lengths, g \in Groups, p \in Payloads :
       Start(c, b, n, g, p)
  \/ Swap \/ Reverse \/ Send

Spec == Init /\ [][Next]_vars

-----------------------------------------------------------------------------

(***************************************************************************)
(* Properties.                                                             *)
(***************************************************************************)

Accepted == CsOf(control) = ChipSelect
Finished == phase = "idle" /\ Accepted

\* Byte k of the payload as the user passed it.
Given(k) == IF k < Len(payload) THEN payload[k + 1] ELSE 0

\* A message of whole words goes out complete and in order; the chunks cover
\* it and stop within one group of its end.  With LSBF set, each word of one or
\* two bytes is mirrored as a whole: bit p in the order of the wire is bit p of
\* the given word from its least significant end.
WireComplete ==
  Finished /\ (bpw = 2 * Bits => ndb % 2 = 0) =>
    /\ Len(wire) >= ndb /\ (ndb >= group => Len(wire) < ndb + group)
    /\ IF LsbfOf(control) = 1 /\ bpw \in {Bits, 2 * Bits}
       THEN LET bytes == bpw \div Bits
            IN  /\ \A k \in 1 .. ndb : wire[k] \in Byte
                /\ \A w \in 0 .. ndb - 1, p \in 0 .. bpw - 1 :
                     w % bytes = 0 =>
                       Bit(wire[w + p \div Bits + 1], Bits - 1 - (p % Bits))
                         = Bit(Given(w + bytes - 1 - p \div Bits), p % Bits)
       ELSE \A k \in 0 .. ndb - 1 : wire[k + 1] = Given(k)

\* After the write, read finds the reply to each sent byte at that byte's
\* index, in last_len bytes.
ReplyInPlace ==
  Finished => /\ last_len = ndb
              /\ \A k \in 0 .. ndb - 1 : read_buffer[k] = wire[k + 1]

\* No access leaves spidrv->buffer or read_buffer, whatever the header says:
\* neither the swap of the last pair nor the copy of the last chunk.
InBounds ==
  /\ phase = "swap" /\ i < ndb => i + 1 \in DOMAIN spi_buffer
  /\ phase = "send" /\ More => /\ HeaderLen + i + group <= BufSize
                               /\ i + group <= BufSize

=============================================================================
