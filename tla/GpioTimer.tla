----------------------------- MODULE GpioTimer -----------------------------
(***************************************************************************)
(* The system timer that drives a substream of alsa_gpio: position and     *)
(* period accounting in units of 1/HZ sample, the timer callback, and the  *)
(* calls ALSA makes for the stream's one user.  start, stop and pointer    *)
(* hold dpcm->lock throughout, as the callback does for its body: each is  *)
(* one action.  The card's other substream, which shares buffer_counter,   *)
(* is its calls on that variable.  alsa_sound_gen holds a second copy of   *)
(* this code, which it does not use.                                       *)
(*                                                                         *)
(* Times are relative: since = jiffies - base_time, due = expires -        *)
(* jiffies.                                                                *)
(***************************************************************************)
EXTENDS Integers

CONSTANTS
  Rate, HZ,              \* samples and jiffies per second
  PeriodSize,            \* runtime->period_size
  BufferSize,            \* runtime->buffer_size
  MusicLength,           \* music_length
  MusicTail,             \* bytes of music[] from there on
  HalfBuffer,            \* runtime->dma_bytes / 2
  OtherHalf,             \* the same of the card's other substream
  UintSize,              \* 2^32: frac_pos is an unsigned int
  Cpus,                  \* 1 or 2: with 2, a callback runs beside the user's calls
  MaxLate,               \* bound: jiffies by which a callback may be late
  MaxElapsed             \* bound: unreported periods taken through a suspend

ASSUME RateAssumption ==
  /\ {Rate, HZ, PeriodSize, BufferSize, MusicLength, MusicTail, HalfBuffer, OtherHalf,
    UintSize} \subseteq Nat \ {0}
  /\ PeriodSize <= BufferSize
  /\ BufferSize * HZ < UintSize
  /\ Cpus \in {1, 2} /\ {MaxLate, MaxElapsed} \subseteq Nat

frac_buffer_size == BufferSize * HZ
frac_period_size == PeriodSize * HZ

\* The indices of the array music.
music == 0 .. MusicLength + MusicTail - 1

VARIABLES
  stream,            \* ALSA's state of the substream
  dpcm,              \* runtime->private_data: "none" or "live"
  frac_pos,          \* fields of struct alsa_gpio_systimer_pcm
  frac_period_rest,
  elapsed,
  since, due,        \* base_time and the timer's expiry, relative to jiffies
  armed,             \* the timer is pending
  cb,                \* the callback: "off", "entered", or "report" (body done)
  local,             \* its local variable elapsed
  buffer_counter,
  clock,             \* ghost: what the stream has played, modulo Cycle
  reported           \* ghost: periods reported, modulo BufferSize

acct  == <<frac_pos, frac_period_rest, elapsed, since>>
timer == <<due, armed>>
call  == <<cb, local, buffer_counter>>
ghost == <<clock, reported>>
vars == <<stream, dpcm, acct, timer, call, ghost>>

Streams == {"closed", "open", "setup", "prepared", "running", "suspended", "xrun"}

\* A common multiple of buffer and period: the ghosts count modulo it.
Cycle == PeriodSize * BufferSize * HZ

(***************************************************************************)
(* Accounting.                                                             *)
(***************************************************************************)

\* mutant: a boundary reached exactly does not count
PeriodsAfter(d) ==
  IF frac_period_rest < d THEN (d - frac_period_rest - 1) \div frac_period_size + 1 ELSE 0

\* How often the loop of alsa_gpio_systimer_update increments elapsed.
PeriodsIn(d) ==
  IF frac_period_rest <= d THEN (d - frac_period_rest) \div frac_period_size + 1 ELSE 0

\* mutant: frac_pos wraps at one sample more than the buffer
PosOverrun(d) == ((frac_pos + d) % UintSize) % (frac_buffer_size + HZ)

\* frac_pos after d: the addition wraps, and the subtractions amount to a
\* modulus.
PosAfter(d) == ((frac_pos + d) % UintSize) % frac_buffer_size

\* alsa_gpio_systimer_update, all but elapsed
Update ==
  LET delta == since * Rate IN
  /\ since' = 0
  /\ frac_pos' = PosAfter(delta)
  /\ frac_period_rest' =
       frac_period_rest + PeriodsIn(delta) * frac_period_size - delta

\* elapsed after an update
Counted == elapsed + PeriodsIn(since * Rate)

\* mutant: the division rounds down
JiffiesDown(frac) == frac \div Rate

\* The jiffies until frac has passed, rounded up.
Jiffies(frac) == (frac + Rate - 1) \div Rate

\* mutant: the callback does not rearm the timer
RearmOnce(rest) == armed' = (cb = "off") /\ due' = Jiffies(rest)

\* alsa_gpio_systimer_rearm; rest is frac_period_rest at that moment
Rearm(rest) == armed' = TRUE /\ due' = Jiffies(rest)

(***************************************************************************)
(* The callback, in a softirq.                                             *)
(***************************************************************************)

Tick ==
  /\ armed \/ cb # "off"
  /\ due > -MaxLate
  /\ due' = due - 1 /\ since' = since + 1
  /\ clock' = (clock + Rate) % Cycle
  /\ UNCHANGED <<stream, dpcm, frac_pos, frac_period_rest, elapsed, armed, call, reported>>

Expire ==
  /\ armed /\ due <= 0 /\ cb = "off"
  /\ armed' = FALSE
  /\ cb' = "entered"
  /\ UNCHANGED <<stream, dpcm, acct, due, local, buffer_counter, ghost>>

\* mutant: the music restarts one half buffer too late
AtEndLate(half, n) == half * n > MusicLength

\* The n-th copy in steps of half begins at the end of the music.
AtEnd(half, n) == half * n = MusicLength

\* What buffer_counter, when it is n, becomes after a copy: a test of its value
\* and an assignment.  Each substream makes them under a lock of its own, so
\* that on two processors the other substream's may fall between them.
Copied(half, n) ==
  LET After(h, k) == IF AtEnd(h, k) THEN 0 ELSE k + 1
      Between == IF AtEnd(half, n) THEN 0 ELSE After(OtherHalf, n) + 1
  IN {After(half, n)} \cup (IF Cpus = 1 THEN {} ELSE {Between})

CallbackBody ==
  /\ cb = "entered"
  /\ Update
  /\ Rearm(frac_period_rest')
  /\ local' = Counted
  /\ elapsed' = 0
  \* the copy from music, then
  /\ buffer_counter' \in Copied(HalfBuffer, buffer_counter)
  /\ cb' = IF local' > 0 THEN "report" ELSE "off"
  /\ UNCHANGED <<stream, dpcm, ghost>>

\* mutant: stop leaves the timer pending
TimerKept == UNCHANGED timer

\* del_timer: dequeues, and does not wait for a callback
DelTimer == armed' = FALSE /\ UNCHANGED due

\* snd_pcm_period_elapsed: if the stream is running, ALSA asks for the
\* position, and on an overrun stops the stream.
CallbackReport ==
  /\ cb = "report"
  /\ \/ /\ stream = "running"
        /\ Update /\ elapsed' = Counted
        /\ \/ UNCHANGED <<stream, timer>>
           \/ stream' = "xrun" /\ DelTimer
     \/ stream # "running" /\ UNCHANGED <<stream, acct, timer>>
  /\ reported' = (reported + local) % BufferSize
  /\ local' = 0
  /\ cb' = "off"
  /\ UNCHANGED <<dpcm, buffer_counter, clock>>

\* The other substream's start and callback.
OtherSubstream ==
  /\ Cpus > 1 \/ cb = "off"
  /\ buffer_counter' \in {0} \cup Copied(OtherHalf, buffer_counter)
  /\ UNCHANGED <<stream, dpcm, acct, timer, cb, local, ghost>>

(***************************************************************************)
(* The user's calls.                                                       *)
(***************************************************************************)

\* On one processor a system call never runs inside a softirq.
UserRuns == Cpus > 1 \/ cb = "off"

\* alsa_gpio_pcm_open; without memory the call fails and leaves nothing
Open ==
  /\ UserRuns /\ stream = "closed"
  /\ stream' = "open" /\ dpcm' = "live"
  /\ frac_pos' = 0 /\ frac_period_rest' = 0 /\ elapsed' = 0 /\ since' = 0
  /\ UNCHANGED <<timer, call, ghost>>

HwParams ==
  /\ UserRuns /\ stream = "open"
  /\ stream' = "setup"
  /\ UNCHANGED <<dpcm, acct, timer, call, ghost>>

\* ALSA drops a suspended or overrun stream to setup before it frees it.
HwFree ==
  /\ UserRuns /\ stream \in {"setup", "prepared", "suspended", "xrun"}
  /\ stream' = "open"
  /\ UNCHANGED <<dpcm, acct, timer, call, ghost>>

\* mutant: prepare keeps the periods that the previous run has not reported
ElapsedKept == elapsed

ElapsedReset == 0

Prepare ==
  /\ UserRuns /\ stream \in {"setup", "prepared", "suspended", "xrun"}
  /\ stream' = "prepared"
  /\ frac_pos' = 0
  /\ frac_period_rest' = frac_period_size
  /\ elapsed' = ElapsedReset
  /\ clock' = 0 /\ since' = 0 /\ reported' = 0
  /\ UNCHANGED <<dpcm, timer, call>>

\* TRIGGER_START, and TRIGGER_RESUME: position and rest are those of the last
\* update, the time from there to the suspend is not played.
Start ==
  /\ UserRuns /\ stream \in {"prepared", "suspended"}
  /\ stream' = "running"
  /\ buffer_counter' = 0
  /\ since' = 0
  /\ clock' = (clock - Rate * since) % Cycle
  /\ Rearm(frac_period_rest)
  /\ UNCHANGED <<dpcm, frac_pos, frac_period_rest, elapsed, cb, local, reported>>

\* TRIGGER_STOP and TRIGGER_SUSPEND
Stop ==
  /\ UserRuns /\ stream = "running"
  /\ \/ stream' = "setup"
     \/ stream' = "suspended" /\ elapsed <= MaxElapsed
  /\ DelTimer
  /\ UNCHANGED <<dpcm, acct, call, ghost>>

\* ALSA asks for the position of a running stream only.
Pointer ==
  /\ UserRuns /\ stream = "running"
  /\ Update /\ elapsed' = Counted
  /\ UNCHANGED <<stream, dpcm, timer, call, ghost>>

\* kfree, nothing else
Close ==
  /\ UserRuns /\ stream = "open"
  /\ stream' = "closed" /\ dpcm' = "none"
  /\ UNCHANGED <<acct, timer, call, ghost>>

-----------------------------------------------------------------------------

Init ==
  /\ stream = "closed" /\ dpcm = "none"
  /\ frac_pos = 0 /\ frac_period_rest = 0 /\ elapsed = 0
  /\ since = 0 /\ due = 0 /\ armed = FALSE
  /\ cb = "off" /\ local = 0 /\ buffer_counter = 0
  /\ clock = 0 /\ reported = 0

TimerStep == Expire \/ CallbackBody \/ CallbackReport

Next ==
  \/ Tick \/ TimerStep \/ OtherSubstream
  \/ Open \/ HwParams \/ HwFree \/ Prepare \/ Start \/ Stop \/ Pointer \/ Close

Spec == Init /\ [][Next]_vars

\* Time passes and expired timers run.
Fairness == WF_vars(Tick) /\ WF_vars(TimerStep)

FairSpec == Spec /\ Fairness

-----------------------------------------------------------------------------

(***************************************************************************)
(* Properties.                                                             *)
(***************************************************************************)

\* Every variable has its type; the fields that prepare sets are in range from
\* then on.
TypeOK ==
  /\ stream \in Streams /\ dpcm \in {"none", "live"}
  /\ frac_pos \in 0 .. frac_buffer_size - 1
  /\ frac_period_rest \in 0 .. frac_period_size
  /\ elapsed \in Nat /\ since \in Nat /\ local \in Nat
  /\ due \in -MaxLate .. Jiffies(frac_period_size)
  /\ armed \in BOOLEAN /\ cb \in {"off", "entered", "report"}
  /\ buffer_counter \in Nat
  /\ clock \in 0 .. Cycle - 1 /\ reported \in 0 .. BufferSize - 1

Played == (clock - Rate * since) % Cycle

\* Whatever mix of pointer calls, callbacks and suspends does the updating, the
\* position is where the stream has played to, and the rest leads to a period
\* boundary: also when the 32 bits of frac_pos only just hold what a late
\* callback adds.
PositionExact ==
  stream \in {"running", "suspended"} =>
    /\ frac_pos = Played % frac_buffer_size
    /\ frac_period_rest > 0
    /\ (Played + frac_period_rest) % frac_period_size = 0

\* Every period boundary passed is reported, about to be reported by the
\* callback, or in elapsed: none is lost or counted twice, whoever passes it.
NoPeriodLost ==
  stream \in {"running", "suspended"} =>
    (reported + local + elapsed) % BufferSize = Played \div frac_period_size

\* The timer expires with the first jiffy at or after the next boundary, and no
\* later when that boundary was already seen by a pointer call.
ExpiresOnTime ==
  stream = "running" /\ armed =>
    /\ Rate * (due + since - 1) < frac_period_rest
    /\ elapsed = 0 => Rate * (due + since) >= frac_period_rest

\* Both callbacks copy from inside the music, however often they have been
\* round and whichever substream restarts: buffer_counter, which they share,
\* restarts in time although only an offset of exactly music_length restarts
\* it.  It does on one processor, when the buffers of both have the same size
\* and half of it divides the music.
CopyStartsInMusic ==
  Cpus = 1 /\ HalfBuffer = OtherHalf /\ MusicLength % HalfBuffer = 0 =>
    HalfBuffer * buffer_counter \in music

\* A stream that is not running has no timer pending: stop stops it.
TimerStopped == stream # "running" => ~armed

\* dpcm is freed only when neither the timer nor its callback can reach it;
\* close itself does not look.
NoCallbackAfterFree == armed \/ cb # "off" => dpcm = "live"

\* A period that is counted in elapsed is reported while the stream runs.
PeriodsReported ==
  stream = "running" /\ elapsed > 0 ~> elapsed = 0 \/ stream # "running"

\* What the calls and the callback amount to.
Contract == INSTANCE StreamTimer WITH
  owner <- dpcm,
  run <- stream = "running",
  timer <- IF cb # "off" THEN "firing" ELSE IF armed THEN "queued" ELSE "idle",
  more <- stream = "running"

\* On one processor the stream's timer keeps its contract: a running stream,
\* also one whose period ALSA is told of at the moment, always has a timer;
\* once stopped, nothing of it is left; and the struct goes after the timer.
ContractSpec == Contract!Spec

=============================================================================
