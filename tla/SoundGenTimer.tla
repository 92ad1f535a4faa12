--------------------------- MODULE SoundGenTimer ---------------------------
(***************************************************************************)
(* The hrtimer behind the capture stream of alsa_sound_gen: the operations *)
(* ALSA calls for one user, against the timer callback that runs in a      *)
(* softirq on another CPU.  ALSA calls trigger with the stream lock held,  *)
(* prepare and close without it; the callback takes the stream lock in     *)
(* snd_pcm_period_elapsed.                                                 *)
(***************************************************************************)
EXTENDS Integers

CONSTANTS
  PeriodSize,  \* runtime->period_size; time is counted in samples
  BufferSize,  \* runtime->buffer_size
  MaxLate      \* bound on the delay of the callback

ASSUME SizeAssumption ==
  /\ PeriodSize \in Nat \ {0} /\ BufferSize \in Nat /\ MaxLate \in Nat
  /\ BufferSize > 0 /\ BufferSize % PeriodSize = 0

VARIABLES
  stream,  \* ALSA's state of the substream
  dpcm,    \* runtime->private_data: "none" or "live"
  running, \* dpcm->running
  armed,   \* the hrtimer is enqueued
  left,    \* time until the timer's expiry; negative when that has passed
  pos,     \* the position: time since base_time, modulo the buffer
  cb,      \* where the callback is: "off", "test", "elapse", "retest", "forward"
  upc,     \* where the user's call is: "none", or in start, stop, prepare, close
  lock     \* the stream lock is held by the user's call

time == <<left, pos>>
vars == <<stream, dpcm, running, armed, time, cb, upc, lock>>

Streams == {"closed", "open", "setup", "prepared", "running", "xrun"}
Callbacks == {"off", "test", "elapse", "retest", "forward"}
Calls == {"none", "start", "stop", "cancel", "prepare", "close"}

(***************************************************************************)
(* Time.  Only what depends on the timer's expiry sees it pass.            *)
(***************************************************************************)

Tick ==
  /\ armed \/ cb # "off"
  /\ left > -MaxLate
  /\ left' = left - 1
  /\ pos' = (pos + 1) % BufferSize
  /\ UNCHANGED <<stream, dpcm, running, armed, cb, upc, lock>>

(***************************************************************************)
(* The callback.  While it is anywhere but "off", the hrtimer core counts  *)
(* it as running.                                                          *)
(***************************************************************************)

\* The timer is queued on the CPU that starts it, and trigger runs with that
\* CPU's interrupts off: the callback cannot begin before start has returned.
Expire ==
  /\ armed /\ cb = "off" /\ left <= 0 /\ upc # "start"
  /\ armed' = FALSE
  /\ cb' = "test"
  /\ UNCHANGED <<stream, dpcm, running, time, upc, lock>>

\* mutant: the callback does not look at running
AlwaysRunning == TRUE

\* The callback tests this twice; if it is false, it returns HRTIMER_NORESTART.
StillRunning == running

CallbackTest ==
  /\ cb = "test"
  /\ cb' = IF StillRunning THEN "elapse" ELSE "off"
  /\ UNCHANGED <<stream, dpcm, running, armed, time, upc, lock>>

\* snd_pcm_period_elapsed, under the stream lock.  On an overrun ALSA calls
\* trigger to stop the stream; stop then finds the callback running, and does
\* not cancel.
CallbackElapse ==
  /\ cb = "elapse" /\ ~lock
  /\ cb' = "retest"
  /\ \/ UNCHANGED <<stream, running>>
     \/ stream = "running" /\ stream' = "xrun" /\ running' = FALSE
  /\ UNCHANGED <<dpcm, armed, time, upc, lock>>

CallbackRetest ==
  /\ cb = "retest"
  /\ cb' = IF StillRunning THEN "forward" ELSE "off"
  /\ UNCHANGED <<stream, dpcm, running, armed, time, upc, lock>>

\* mutant: the next period is counted from now
ForwardFromNow == PeriodSize

\* hrtimer_forward_now: add whole periods until the expiry is in the future.
Forwarded == left + PeriodSize * ((-left) \div PeriodSize + 1)

\* HRTIMER_RESTART
CallbackForward ==
  /\ cb = "forward"
  /\ armed' = TRUE
  /\ left' = IF left <= 0 THEN Forwarded ELSE left
  /\ UNCHANGED pos
  /\ cb' = "off"
  /\ UNCHANGED <<stream, dpcm, running, upc, lock>>

Callback ==
  CallbackTest \/ CallbackElapse \/ CallbackRetest \/ CallbackForward

(***************************************************************************)
(* The user's calls.                                                       *)
(***************************************************************************)

\* mutant: hrtimer_cancel does not wait for a running callback
CancelAtOnce == TRUE

\* hrtimer_cancel waits until the callback is not running, then dequeues.
CancelDone == cb = "off"

Open ==
  /\ stream = "closed" /\ upc = "none"
  /\ stream' = "open" /\ dpcm' = "live" /\ running' = FALSE
  /\ UNCHANGED <<armed, time, cb, upc, lock>>

HwParams ==
  /\ stream = "open" /\ upc = "none"
  /\ stream' = "setup"
  /\ UNCHANGED <<dpcm, running, armed, time, cb, upc, lock>>

\* ALSA drops an overrun stream to setup before it frees it.
HwFree ==
  /\ stream \in {"setup", "prepared", "xrun"} /\ upc = "none"
  /\ stream' = "open"
  /\ UNCHANGED <<dpcm, running, armed, time, cb, upc, lock>>

\* ALSA lets a stopped stream be prepared, and only a prepared one started.
PrepareBegin ==
  /\ stream \in {"setup", "prepared", "xrun"} /\ upc = "none"
  /\ upc' = "prepare"
  /\ UNCHANGED <<stream, dpcm, running, armed, time, cb, lock>>

\* mutant: prepare without dummy_hrtimer_sync
SyncSkipped == TRUE

PrepareSync == CancelDone

PrepareEnd ==
  /\ upc = "prepare" /\ PrepareSync
  /\ armed' = FALSE
  /\ stream' = "prepared"
  /\ upc' = "none"
  /\ UNCHANGED <<dpcm, running, time, cb, lock>>

\* start arms the timer first ...
StartTimer ==
  /\ stream = "prepared" /\ upc = "none" /\ ~lock
  /\ lock' = TRUE
  /\ armed' = TRUE
  /\ left' = PeriodSize /\ pos' = 0
  /\ upc' = "start"
  /\ UNCHANGED <<stream, dpcm, running, cb>>

\* ... and sets running after that.
StartRunning ==
  /\ upc = "start"
  /\ running' = TRUE
  /\ stream' = "running"
  /\ upc' = "none" /\ lock' = FALSE
  /\ UNCHANGED <<dpcm, armed, time, cb>>

\* mutant: stop clears running only after it has dealt with the timer
ClearedLate == running

ClearedFirst == FALSE

\* stop clears running first, ...
StopClear ==
  /\ stream = "running" /\ upc = "none" /\ ~lock
  /\ lock' = TRUE
  /\ running' = ClearedFirst
  /\ upc' = "stop"
  /\ UNCHANGED <<stream, dpcm, armed, time, cb>>

StopReturn ==
  /\ running' = FALSE
  /\ stream' = "setup"
  /\ upc' = "none" /\ lock' = FALSE

\* ... then tests hrtimer_callback_running: a running callback is left alone,
StopTest ==
  /\ upc = "stop"
  /\ \/ cb # "off" /\ StopReturn
     \/ cb = "off" /\ upc' = "cancel" /\ UNCHANGED <<stream, running, lock>>
  /\ UNCHANGED <<dpcm, armed, time, cb>>

\* and only otherwise is the timer cancelled, the stream lock still held.
StopCancel ==
  /\ upc = "cancel" /\ CancelDone
  /\ armed' = FALSE
  /\ StopReturn
  /\ UNCHANGED <<dpcm, time, cb>>

\* ALSA stops a running stream, and frees its buffer, before it closes it.
CloseBegin ==
  /\ stream = "open" /\ upc = "none"
  /\ upc' = "close"
  /\ UNCHANGED <<stream, dpcm, running, armed, time, cb, lock>>

CloseFree ==
  /\ upc = "close" /\ CancelDone
  /\ armed' = FALSE
  /\ dpcm' = "none"
  /\ stream' = "closed"
  /\ upc' = "none"
  /\ UNCHANGED <<running, time, cb, lock>>

-----------------------------------------------------------------------------

Init ==
  /\ stream = "closed" /\ dpcm = "none"
  /\ running = FALSE /\ armed = FALSE /\ cb = "off"
  /\ left = 0 /\ pos = 0
  /\ upc = "none" /\ lock = FALSE

\* The steps that finish a call once begun.
CallStep ==
  \/ PrepareEnd \/ StartRunning \/ StopTest \/ StopCancel \/ CloseFree

Next ==
  \/ Tick \/ Expire \/ Callback
  \/ Open \/ HwParams \/ HwFree \/ PrepareBegin \/ StartTimer \/ StopClear \/ CloseBegin
  \/ CallStep

Spec == Init /\ [][Next]_vars

\* Time passes, timers expire, a softirq and a system call run on.  The user is not obliged
\* to call anything.
Fairness == WF_vars(Tick) /\ WF_vars(Expire) /\ WF_vars(Callback) /\ WF_vars(CallStep)

FairSpec == Spec /\ Fairness

-----------------------------------------------------------------------------

(***************************************************************************)
(* Properties.                                                             *)
(***************************************************************************)

\* Every variable has its type.
TypeOK ==
  /\ stream \in Streams /\ dpcm \in {"none", "live"}
  /\ running \in BOOLEAN /\ armed \in BOOLEAN
  /\ left \in -MaxLate .. PeriodSize /\ pos \in 0 .. BufferSize - 1
  /\ cb \in Callbacks /\ upc \in Calls /\ lock \in BOOLEAN

\* dpcm is freed only when the timer can no longer reach it: neither enqueued
\* nor inside its callback.
NoCallbackAfterFree == armed \/ cb # "off" => dpcm = "live"

\* A stream is prepared only after the last callback of its previous run has
\* ended, so that start never arms a timer that is armed or running already.
StartsFresh == stream = "prepared" /\ upc # "start" => ~armed /\ cb = "off"

\* A running stream always has a timer to drive it, although start sets running
\* only after arming the timer and the callback reads running without a lock.
RunningHasTimer ==
  stream = "running" /\ upc = "none" => running /\ (armed \/ cb # "off")

\* No deadlock between stop, which waits for the callback under the stream
\* lock, and the callback, which waits for that lock: when stop has decided to
\* wait, the callback cannot get that far.
NoLockCycle == upc = "cancel" => cb \in {"off", "test"} /\ ~running

\* Where a call can be, and what it has done by then: the stream lock is held
\* by trigger only, running is set exactly while ALSA's stream is running and
\* no stop has begun, and the struct exists exactly while the stream is open.
Phases ==
  /\ lock <=> upc \in {"start", "stop", "cancel"}
  /\ upc = "start" => stream = "prepared" /\ armed /\ cb = "off"
  /\ upc \in {"stop", "cancel"} => stream = "running"
  /\ upc = "prepare" => stream \in {"setup", "prepared", "xrun"}
  /\ upc = "close" => stream = "open"
  /\ running <=> stream = "running" /\ upc \notin {"stop", "cancel"}
  /\ dpcm = "live" <=> stream # "closed"

\* All of this together is inductive: what the stream, the callback and the
\* call in progress may be at the same time.
IInv ==
  /\ TypeOK /\ Phases /\ NoCallbackAfterFree
  /\ StartsFresh /\ RunningHasTimer /\ NoLockCycle

\* However late callbacks run, the timer stays on the grid of the pointer: it
\* expires when the position is at a period boundary.
OnPeriodGrid ==
  stream = "running" /\ armed => (pos + left) % PeriodSize = 0

\* Every call returns.
CallsReturn == upc # "none" ~> upc = "none"

\* A stopped stream's timer runs down by itself: at most one more callback,
\* which does not rearm it.
TimerRunsDown == ~running ~> running \/ (~armed /\ cb = "off")

\* What the calls and the callback amount to.  Start arms before it sets
\* running; a callback past its first test reports, one past its second rearms.
Contract == INSTANCE StreamTimer WITH
  owner <- dpcm,
  run <- running \/ upc = "start",
  timer <- IF cb # "off" THEN "firing" ELSE IF armed THEN "queued" ELSE "idle",
  more <- running \/ upc = "start" \/ cb \in {"elapse", "forward"}

\* The stream's timer keeps its contract.  After stop has cleared running, which
\* the callback reads without a lock, the callback under way reports one more
\* period or arms the timer once more, not both, and what it armed then only
\* runs down.
ContractSpec == Contract!Spec

=============================================================================
