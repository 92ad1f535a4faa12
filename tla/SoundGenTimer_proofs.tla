------------------------ MODULE SoundGenTimer_proofs ------------------------
(***************************************************************************)
(* Proofs that the invariants of SoundGenTimer hold for all period sizes,  *)
(* buffer sizes and delays.  IInv is inductive as it stands: it says where *)
(* the callback and the user's call may be at the same time, and what the  *)
(* stream lock and running tell one about the other.  On it rest the grid  *)
(* of the periods and the contract of StreamTimer.                         *)
(***************************************************************************)
EXTENDS SoundGenTimer, TLAPS

\* The remainder of a division by a positive number is below it, and not
\* negative.
LEMMA ModBounds ==
  ASSUME NEW a \in Int, NEW b \in Nat \ {0}
  PROVE  a % b \in 0 .. b - 1
BY Z3

\* hrtimer_forward_now leaves an expiry in the future, by one period at most.
LEMMA ForwardBounds ==
  ASSUME NEW l \in Int, NEW P \in Nat \ {0}, l <= 0
  PROVE  l + P * ((-l) \div P + 1) \in 1 .. P
<1>1. (-l) = P * ((-l) \div P) + ((-l) % P)  BY Z3
<1>2. (-l) % P \in 0 .. P - 1  BY ModBounds
<1> DEFINE q == (-l) \div P
<1>3. q \in Int  BY Z3
<1>4. P * (q + 1) = P * q + P  BY <1>3, Z3
<1> QED BY <1>1, <1>2, <1>3, <1>4, Z3

-----------------------------------------------------------------------------
(* The parts of IInv that numbers play no part in, and the one they do. *)

Control ==
  /\ stream \in Streams /\ dpcm \in {"none", "live"}
  /\ running \in BOOLEAN /\ armed \in BOOLEAN
  /\ cb \in Callbacks /\ upc \in Calls /\ lock \in BOOLEAN
  /\ Phases /\ NoCallbackAfterFree /\ StartsFresh /\ RunningHasTimer /\ NoLockCycle

Time == left \in -MaxLate .. PeriodSize /\ pos \in 0 .. BufferSize - 1

LEMMA Parts == IInv <=> Control /\ Time
BY DEF IInv, Control, Time, TypeOK

LEMMA InitControl == Init => Control
BY Zenon DEF Init, Control, Phases, NoCallbackAfterFree, StartsFresh, RunningHasTimer,
   NoLockCycle, Streams, Callbacks, Calls

LEMMA InitTime == Init => Time
BY SizeAssumption DEF Init, Time, time

\* Every action keeps the numbers in their ranges.  Tick stops at MaxLate, and
\* the callback forwards an expiry that has passed.
LEMMA StepTime ==
  ASSUME Time, [Next]_vars
  PROVE  Time'
<1> USE SizeAssumption DEF Time, time
<1>1. CASE Tick
  <2>1. (pos + 1) % BufferSize \in 0 .. BufferSize - 1  BY ModBounds
  <2> QED BY <1>1, <2>1 DEF Tick
<1>2. CASE CallbackForward
  <2>1. CASE left <= 0
    <3>1. left' = Forwarded /\ pos' = pos  BY <1>2, <2>1 DEF CallbackForward
    <3>2. Forwarded \in 1 .. PeriodSize  BY <2>1, ForwardBounds DEF Forwarded
    <3> QED BY <3>1, <3>2
  <2>2. CASE ~(left <= 0)
    BY <1>2, <2>2 DEF CallbackForward
  <2> QED BY <2>1, <2>2
<1>3. CASE StartTimer
  BY <1>3 DEF StartTimer
<1>4. CASE UNCHANGED time
  BY <1>4
<1>5. \/ Tick \/ CallbackForward \/ StartTimer \/ UNCHANGED time
  BY DEF Next, vars, Callback, CallStep, Expire, CallbackTest, CallbackElapse,
     CallbackRetest, Open, HwParams, HwFree, PrepareBegin, PrepareEnd, StartRunning,
     StopClear, StopTest, StopCancel, CloseBegin, CloseFree
<1> QED BY <1>1, <1>2, <1>3, <1>4, <1>5

\* The callback's steps, against any call that may be in progress.
LEMMA CallbackControl ==
  ASSUME Control, Expire \/ Callback
  PROVE  Control'
<1> USE DEF Control, Phases, NoCallbackAfterFree, StartsFresh, RunningHasTimer, NoLockCycle,
            Streams, Callbacks, Calls
<1>1. CASE Expire
  BY <1>1, Zenon DEF Expire
<1>2. CASE CallbackTest
  BY <1>2, Zenon DEF CallbackTest, StillRunning
<1>3. CASE CallbackElapse
  <2>1. cb = "elapse" /\ ~lock /\ cb' = "retest" /\ UNCHANGED <<dpcm, armed, upc, lock>>
    BY <1>3 DEF CallbackElapse
  <2>2. CASE UNCHANGED <<stream, running>>
    BY <2>1, <2>2, Zenon
  <2>3. CASE stream = "running" /\ stream' = "xrun" /\ running' = FALSE
    BY <2>1, <2>3, Zenon
  <2> QED BY <1>3, <2>2, <2>3, Zenon DEF CallbackElapse
<1>4. CASE CallbackRetest
  BY <1>4, Zenon DEF CallbackRetest, StillRunning
<1>5. CASE CallbackForward
  BY <1>5, Zenon DEF CallbackForward
<1> QED BY <1>1, <1>2, <1>3, <1>4, <1>5 DEF Callback

\* Calls that begin, and those that are done in one step.
LEMMA BeginControl ==
  ASSUME Control,
         Open \/ HwParams \/ HwFree \/ PrepareBegin \/ StartTimer \/ StopClear \/ CloseBegin
  PROVE  Control'
<1> USE DEF Control, Phases, NoCallbackAfterFree, StartsFresh, RunningHasTimer, NoLockCycle,
            Streams, Callbacks, Calls
<1>1. CASE Open
  BY <1>1, Zenon DEF Open
<1>2. CASE HwParams
  BY <1>2, Zenon DEF HwParams
<1>3. CASE HwFree
  BY <1>3, Zenon DEF HwFree
<1>4. CASE PrepareBegin
  BY <1>4, Zenon DEF PrepareBegin
<1>5. CASE StartTimer
  BY <1>5, Zenon DEF StartTimer
<1>6. CASE StopClear
  BY <1>6, Zenon DEF StopClear, ClearedFirst
<1>7. CASE CloseBegin
  BY <1>7, Zenon DEF CloseBegin
<1> QED BY <1>1, <1>2, <1>3, <1>4, <1>5, <1>6, <1>7, Zenon

\* Calls that go on or end.  Prepare and close wait for the callback; stop
\* waits only when it found no callback running.
LEMMA CallControl ==
  ASSUME Control, CallStep
  PROVE  Control'
<1> USE DEF Control, Phases, NoCallbackAfterFree, StartsFresh, RunningHasTimer, NoLockCycle,
            Streams, Callbacks, Calls
<1>1. CASE PrepareEnd
  BY <1>1, Zenon DEF PrepareEnd, PrepareSync, CancelDone
<1>2. CASE StartRunning
  BY <1>2, Zenon DEF StartRunning
<1>3. CASE StopTest
  <2>1. upc = "stop" /\ UNCHANGED <<dpcm, armed, cb>>
    BY <1>3 DEF StopTest
  <2>2. CASE cb # "off" /\ StopReturn
    BY <2>1, <2>2, Zenon DEF StopReturn
  <2>3. CASE cb = "off" /\ upc' = "cancel" /\ UNCHANGED <<stream, running, lock>>
    BY <2>1, <2>3, Zenon
  <2> QED BY <1>3, <2>2, <2>3, Zenon DEF StopTest
<1>4. CASE StopCancel
  BY <1>4, Zenon DEF StopCancel, StopReturn, CancelDone
<1>5. CASE CloseFree
  BY <1>5, Zenon DEF CloseFree, CancelDone
<1> QED BY <1>1, <1>2, <1>3, <1>4, <1>5, Zenon DEF CallStep

LEMMA StepControl ==
  ASSUME Control, [Next]_vars
  PROVE  Control'
<1> USE DEF Control, Phases, NoCallbackAfterFree, StartsFresh, RunningHasTimer, NoLockCycle
<1>1. CASE Tick
  BY <1>1, Zenon DEF Tick
<1>2. CASE Expire \/ Callback
  BY <1>2, CallbackControl
<1>3. CASE \/ Open \/ HwParams \/ HwFree \/ PrepareBegin \/ StartTimer \/ StopClear
           \/ CloseBegin
  BY <1>3, BeginControl
<1>4. CASE CallStep
  BY <1>4, CallControl
<1>5. CASE UNCHANGED vars
  BY <1>5, Zenon DEF vars
<1> QED BY <1>1, <1>2, <1>3, <1>4, <1>5, Zenon DEF Next

-----------------------------------------------------------------------------

\* The timer's callback and the calls of the stream never meet where they must
\* not: dpcm is not freed under a callback, a prepared stream has no old timer,
\* a running one has a timer, and stop never waits for a callback that waits
\* for the stream lock.
THEOREM Safety == Spec => []IInv
<1>1. Init => IInv  BY InitControl, InitTime, Parts
<1>2. IInv /\ [Next]_vars => IInv'
  <2>1. IInv /\ [Next]_vars => Control' /\ Time'
    BY StepControl, StepTime, Parts
  <2> QED BY <2>1 DEF IInv, Control, Time, TypeOK
<1> QED BY <1>1, <1>2, PTL DEF Spec

(***************************************************************************)
(* The grid of the periods.                                                *)
(***************************************************************************)

\* The time of the expiry, counted from base_time, is a multiple of a period.
\* The start holds that before the stream is running.
Multiples == {k * PeriodSize : k \in Int}

Grid == stream = "running" \/ upc = "start" => pos + left \in Multiples

LEMMA MultipleMod ==
  ASSUME NEW n \in Int
  PROVE  n \in Multiples <=> n % PeriodSize = 0
<1> DEFINE P == PeriodSize
           q == n \div P
           r == n % P
<1>1. P \in Nat \ {0}
  BY SizeAssumption
<1>2. q \in Int /\ n = P * q + r
  BY <1>1, Z3
<1>3. r \in 0 .. P - 1
  BY <1>1, ModBounds
<1> HIDE DEF P, q, r
<1>4. ASSUME r = 0
      PROVE  \E k \in Int : n = k * P
  BY <1>1, <1>2, <1>4
<1>5. ASSUME NEW k \in Int, n = k * P
      PROVE  r = 0
  <2>1. (k - q) * P = r
    BY <1>1, <1>2, <1>3, <1>5, Z3
  <2>2. CASE k - q >= 1
    <3>1. (k - q) * P >= P
      BY <1>1, <1>2, <2>2, Z3
    <3> QED
      BY <1>1, <1>3, <2>1, <3>1
  <2>3. CASE k - q <= -1
    <3>1. (k - q) * P <= -P
      BY <1>1, <1>2, <2>3, Z3
    <3> QED
      BY <1>1, <1>3, <2>1, <3>1
  <2>4. CASE k - q = 0
    BY <1>1, <2>1, <2>4, Z3
  <2> QED
    BY <1>2, <2>2, <2>3, <2>4
<1> QED
  BY <1>4, <1>5 DEF Multiples, P, r

\* Whole periods more.
LEMMA PeriodsMore ==
  ASSUME NEW n \in Int, n \in Multiples, NEW j \in Int
  PROVE  n + PeriodSize * j \in Multiples
<1>1. PICK k \in Int : n = k * PeriodSize
  BY DEF Multiples
<1>2. PeriodSize \in Int
  BY SizeAssumption
<1>3. n + PeriodSize * j = (k + j) * PeriodSize
  BY <1>1, <1>2, Z3
<1> QED
  BY <1>3 DEF Multiples

\* A whole buffer less.
LEMMA BufferLess ==
  ASSUME NEW n \in Int, n \in Multiples
  PROVE  n - BufferSize \in Multiples
<1>1. BufferSize \in Int /\ BufferSize % PeriodSize = 0
  BY SizeAssumption
<1>2. PICK b \in Int : BufferSize = b * PeriodSize
  BY <1>1, MultipleMod DEF Multiples
<1>3. PICK k \in Int : n = k * PeriodSize
  BY DEF Multiples
<1>4. PeriodSize \in Int
  BY SizeAssumption
<1>5. n - BufferSize = (k - b) * PeriodSize
  BY <1>2, <1>3, <1>4, Z3
<1> QED
  BY <1>5 DEF Multiples

\* Time moves the expiry and the position against each other, and the callback
\* forwards by whole periods.
LEMMA StepGrid ==
  ASSUME Time, Grid, [Next]_vars
  PROVE  Grid'
<1>1. /\ left \in Int /\ pos \in 0 .. BufferSize - 1 /\ BufferSize \in Nat
      /\ PeriodSize \in Nat \ {0}
  BY SizeAssumption DEF Time
<1>2. CASE Tick
  <2>1. pos' = pos + 1 \/ pos' = pos + 1 - BufferSize
    BY <1>1, <1>2, Z3 DEF Tick
  <2>2. pos' + left' = pos + left \/ pos' + left' = pos + left - BufferSize
    BY <1>1, <1>2, <2>1 DEF Tick
  <2>3. stream' = stream /\ upc' = upc
    BY <1>2 DEF Tick
  <2>4. pos + left \in Int
    BY <1>1
  <2>5. pos + left \in Multiples => pos' + left' \in Multiples
    <3>1. ASSUME pos + left \in Multiples
          PROVE  pos + left - BufferSize \in Multiples
      BY <1>1, <2>4, <3>1, BufferLess
    <3> QED
      BY <2>2, <3>1, Zenon
  <2> QED
    BY <2>3, <2>5 DEF Grid
<1>3. CASE CallbackForward
  <2> DEFINE j == (-left) \div PeriodSize + 1
  <2>1. j \in Int
    BY <1>1, Z3
  <2>2. pos' + left' = pos + left \/ pos' + left' = pos + left + PeriodSize * j
    BY <1>1, <1>3, <2>1, Z3 DEF CallbackForward, Forwarded
  <2>3. stream' = stream /\ upc' = upc
    BY <1>3 DEF CallbackForward
  <2> HIDE DEF j
  <2>4. pos + left \in Int
    BY <1>1
  <2>5. pos + left \in Multiples => pos' + left' \in Multiples
    BY <2>1, <2>2, <2>4, PeriodsMore
  <2> QED
    BY <2>3, <2>5 DEF Grid
<1>4. CASE StartTimer
  <2>1. pos' + left' = 1 * PeriodSize
    BY <1>1, <1>4 DEF StartTimer
  <2> QED
    BY <2>1 DEF Grid, Multiples
<1>5. ASSUME ~(Tick \/ CallbackForward \/ StartTimer)
      PROVE  Grid'
  <2>1. UNCHANGED time
    BY <1>5
    DEF Next, Callback, CallStep, Expire, CallbackTest, CallbackElapse, CallbackRetest, Open,
        HwParams, HwFree, PrepareBegin, StopClear, CloseBegin, PrepareEnd, StartRunning,
        StopTest, StopCancel, StopReturn, CloseFree, vars
  <2>2. stream' = "running" \/ upc' = "start" => stream = "running" \/ upc = "start"
    BY <1>5
    DEF Next, Callback, CallStep, Expire, CallbackTest, CallbackElapse, CallbackRetest, Open,
        HwParams, HwFree, PrepareBegin, StopClear, CloseBegin, PrepareEnd, StartRunning,
        StopTest, StopCancel, StopReturn, CloseFree, vars
  <2> QED
    BY <2>1, <2>2 DEF Grid, time
<1> QED
  BY <1>2, <1>3, <1>4, <1>5

\* For every period, every buffer of whole periods and every delay, the timer of
\* a running stream expires when the pointer is at a period boundary:
\* hrtimer_forward_now never lets it drift from base_time.
THEOREM NoDrift == Spec => []OnPeriodGrid
<1>1. Init => Time /\ Grid
  BY InitTime DEF Init, Grid
<1>2. Time /\ Grid /\ [Next]_vars => Time' /\ Grid'
  BY StepTime, StepGrid
<1>3. Time /\ Grid => OnPeriodGrid
  <2> SUFFICES ASSUME Time, Grid
               PROVE  OnPeriodGrid
    OBVIOUS
  <2>1. pos + left \in Int
    BY SizeAssumption DEF Time
  <2> QED
    BY <2>1, MultipleMod DEF Grid, OnPeriodGrid
<1> QED
  BY <1>1, <1>2, <1>3, PTL DEF Spec

(***************************************************************************)
(* The contract of a stream's timer.                                       *)
(***************************************************************************)

\* The timer is not queued while its callback runs: the callback itself is all
\* that queues it again, as its last step.
Alone == armed => cb = "off"

LEMMA StepAlone ==
  ASSUME Control, Alone, [Next]_vars
  PROVE  Alone'
<1>1. CASE StartTimer
  BY <1>1, Zenon DEF StartTimer, Control, StartsFresh, Alone
<1>2. CASE Expire \/ Callback
  BY <1>2, Zenon
  DEF Expire, Callback, CallbackTest, CallbackElapse, CallbackRetest, CallbackForward, Alone
<1>3. CASE PrepareEnd \/ StopCancel \/ CloseFree
  BY <1>3, Zenon DEF PrepareEnd, StopCancel, CloseFree, Alone
<1>4. CASE UNCHANGED <<armed, cb>>
  BY <1>4, Zenon DEF Alone
<1>5. \/ StartTimer \/ Expire \/ Callback \/ PrepareEnd \/ StopCancel \/ CloseFree
      \/ UNCHANGED <<armed, cb>>
  BY Zenon DEF Next, vars, CallStep, Tick, Open, HwParams, HwFree, PrepareBegin, StartRunning,
     StopClear, StopTest, CloseBegin
<1> QED
  BY <1>1, <1>2, <1>3, <1>4, <1>5

\* A step that leaves alone what the contract is about.
LEMMA Stutters ==
  ASSUME Control, UNCHANGED <<dpcm, armed, cb>>,
         (running \/ upc = "start") <=> (running' \/ upc' = "start"),
         running' \in BOOLEAN
  PROVE  UNCHANGED Contract!vars
BY DEF Contract!vars, Control

\* The callback's steps.  One that has been stopped since its last look at
\* running has at most the step it is at to take.
LEMMA CallbackKeeps ==
  ASSUME Control, Alone, Control', Expire \/ Callback
  PROVE  [Contract!Next]_(Contract!vars)
<1> USE DEF Control, Contract!vars
<1>1. CASE Expire
  <2>1. Contract!Fire
    BY <1>1 DEF Expire, Contract!Fire, Phases
  <2> QED
    BY <2>1 DEF Contract!Next
<1>2. CASE CallbackTest
  <2>1. CASE running
    BY <1>2, <2>1 DEF CallbackTest, StillRunning
  <2>2. CASE ~running
    <3>1. Contract!Finish
      BY <1>2, <2>2 DEF CallbackTest, StillRunning, Contract!Finish, Phases, Alone
    <3> QED
      BY <3>1 DEF Contract!Next
  <2> QED
    BY <2>1, <2>2
<1>3. CASE CallbackElapse
  <2>1. cb = "elapse" /\ cb' = "retest" /\ UNCHANGED <<dpcm, armed, upc>> /\ upc # "start"
    BY <1>3 DEF CallbackElapse, Phases
  <2>2. CASE UNCHANGED <<stream, running>>
    <3>1. Contract!Report
      BY <2>1, <2>2 DEF Contract!Report
    <3> QED
      BY <3>1 DEF Contract!Next
  <2>3. CASE stream = "running" /\ stream' = "xrun" /\ running' = FALSE
    <3>1. running
      BY <1>3, <2>3 DEF CallbackElapse, Phases
    <3>2. Contract!Stop
      BY <2>1, <2>3, <3>1 DEF Contract!Stop
    <3> QED
      BY <3>2 DEF Contract!Next
  <2> QED
    BY <1>3, <2>2, <2>3 DEF CallbackElapse
<1>4. CASE CallbackRetest
  <2>1. CASE running
    BY <1>4, <2>1 DEF CallbackRetest, StillRunning
  <2>2. CASE ~running
    <3>1. Contract!Finish
      BY <1>4, <2>2 DEF CallbackRetest, StillRunning, Contract!Finish, Phases, Alone
    <3> QED
      BY <3>1 DEF Contract!Next
  <2> QED
    BY <2>1, <2>2
<1>5. CASE CallbackForward
  <2>1. Contract!Rearm
    BY <1>5 DEF CallbackForward, Contract!Rearm, Phases
  <2> QED
    BY <2>1 DEF Contract!Next
<1> QED
  BY <1>1, <1>2, <1>3, <1>4, <1>5 DEF Callback

\* The user's calls.
LEMMA CallsKeep ==
  ASSUME Control, Alone, Control',
         \/ Open \/ HwParams \/ HwFree \/ PrepareBegin \/ StartTimer \/ StopClear
         \/ CloseBegin \/ CallStep
  PROVE  [Contract!Next]_(Contract!vars)
<1> USE DEF Control
<1>1. CASE Open
  <2>1. Contract!Open
    BY <1>1 DEF Open, Contract!Open, Phases, NoCallbackAfterFree
  <2> QED
    BY <2>1 DEF Contract!Next
<1>2. CASE HwParams \/ HwFree \/ PrepareBegin \/ CloseBegin \/ StartRunning
  BY <1>2, Stutters DEF HwParams, HwFree, PrepareBegin, CloseBegin, StartRunning
<1>3. CASE StartTimer
  <2>1. Contract!Start
    BY <1>3 DEF StartTimer, Contract!Start, Phases, StartsFresh
  <2> QED
    BY <2>1 DEF Contract!Next
<1>4. CASE StopClear
  <2>1. Contract!Stop
    BY <1>4 DEF StopClear, ClearedFirst, Contract!Stop, Phases
  <2> QED
    BY <2>1 DEF Contract!Next
<1>5. CASE StopTest
  BY <1>5, Stutters DEF StopTest, StopReturn, Phases
<1>6. CASE PrepareEnd \/ StopCancel
  <2>1. ~running /\ upc # "start" /\ upc' # "start" /\ ~running'
    BY <1>6 DEF PrepareEnd, StopCancel, StopReturn, Phases
  <2>2. CASE armed
    <3>1. Contract!Cancel
      BY <1>6, <2>1, <2>2 DEF PrepareEnd, PrepareSync, StopCancel, CancelDone, Contract!Cancel
    <3> QED
      BY <3>1 DEF Contract!Next
  <2>3. CASE ~armed
    BY <1>6, <2>1, <2>3, Stutters DEF PrepareEnd, StopCancel
  <2> QED
    BY <2>2, <2>3
<1>7. CASE CloseFree
  <2>1. Contract!Close
    BY <1>7 DEF CloseFree, CancelDone, Contract!Close, Phases
  <2> QED
    BY <2>1 DEF Contract!Next
<1> QED
  BY <1>1, <1>2, <1>3, <1>4, <1>5, <1>6, <1>7 DEF CallStep

\* For every size and delay the hrtimer keeps the contract of a stream's timer.
\* What a stop leaves behind is bounded by where the callback is, not by a lock:
\* running is read without one.
THEOREM KeepsContract == Spec => ContractSpec
<1>1. Init => Control /\ Alone /\ Contract!Init
  BY InitControl DEF Init, Alone, Contract!Init
<1>2. Control /\ Alone /\ [Next]_vars => Control' /\ Alone' /\ [Contract!Next]_(Contract!vars)
  <2> SUFFICES ASSUME Control, Alone, [Next]_vars
               PROVE  Control' /\ Alone' /\ [Contract!Next]_(Contract!vars)
    OBVIOUS
  <2>1. Control' /\ Alone'
    BY StepControl, StepAlone
  <2>2. CASE Tick \/ UNCHANGED vars
    BY <2>1, <2>2, Stutters DEF Tick, vars, Control
  <2>3. CASE Expire \/ Callback
    BY <2>1, <2>3, CallbackKeeps
  <2>4. CASE \/ Open \/ HwParams \/ HwFree \/ PrepareBegin \/ StartTimer \/ StopClear
             \/ CloseBegin \/ CallStep
    BY <2>1, <2>4, CallsKeep
  <2> QED
    BY <2>1, <2>2, <2>3, <2>4 DEF Next
<1> QED
  BY <1>1, <1>2, PTL DEF Spec, ContractSpec, Contract!Spec
=============================================================================
