-------------------------- MODULE GpioTimer_proofs --------------------------
(***************************************************************************)
(* The timer and what it counts.  On one processor del_timer is enough:    *)
(* neither the timer nor its callback is left when a stream stops, so none *)
(* when its struct is freed, and the contract of StreamTimer is kept.  On  *)
(* any number of processors the timer expires with the jiffy that its      *)
(* period boundary calls for.  On one processor again, position and        *)
(* periods are exact as long as frac_pos is wide enough, and the copy      *)
(* stays in the music.                                                     *)
(***************************************************************************)
EXTENDS GpioTimer, TLAPS

\* Timer and callback belong to a stream that runs, or that the callback itself
\* has just stopped; a stream has its struct.
Stopping ==
  /\ stream # "running" => ~armed
  /\ cb = "entered" => stream = "running"
  /\ cb = "report" => stream = "running"
  /\ dpcm = "none" <=> stream = "closed"
  /\ dpcm \in {"none", "live"} /\ cb \in {"off", "entered", "report"}

\* A stream is opened without a timer.
LEMMA InitStopping == Init => Stopping
BY DEF Init, Stopping

\* What happens in softirqs, the passing of time included.
LEMMA SoftirqStopping ==
  ASSUME Stopping, Tick \/ TimerStep \/ OtherSubstream
  PROVE  Stopping'
<1>1. CASE Tick
  BY <1>1 DEF Tick, Stopping, call
<1>2. CASE Expire
  BY <1>2 DEF Expire, Stopping
<1>3. CASE CallbackBody
  BY <1>3 DEF CallbackBody, Rearm, Stopping
<1>4. CASE CallbackReport
  <2>1. stream = "running" /\ dpcm' = dpcm /\ cb' = "off"
    BY <1>4 DEF CallbackReport, Stopping
  <2>2. \/ stream' = stream
        \/ stream' = "xrun" /\ armed' = FALSE
    BY <1>4 DEF CallbackReport, DelTimer
  <2> QED
    BY <2>1, <2>2 DEF Stopping
<1>5. CASE OtherSubstream
  BY <1>5 DEF OtherSubstream, Stopping, timer
<1> QED
  BY <1>1, <1>2, <1>3, <1>4, <1>5 DEF TimerStep

\* The user's calls, none of which begins inside a softirq.
LEMMA CallStopping ==
  ASSUME Stopping, Cpus = 1,
         Open \/ HwParams \/ HwFree \/ Prepare \/ Start \/ Stop \/ Pointer \/ Close
  PROVE  Stopping'
<1>1. cb = "off"
  BY RateAssumption DEF UserRuns, Open, HwParams, HwFree, Prepare, Start, Stop, Pointer, Close
<1>2. CASE Open
  BY <1>1, <1>2 DEF Open, Stopping, timer, call
<1>3. CASE HwParams \/ HwFree \/ Prepare
  BY <1>1, <1>3 DEF HwParams, HwFree, Prepare, Stopping, timer, call
<1>4. CASE Start
  BY <1>1, <1>4 DEF Start, Stopping
<1>5. CASE Stop
  BY <1>1, <1>5 DEF Stop, DelTimer, Stopping, call
<1>6. CASE Pointer
  BY <1>1, <1>6 DEF Pointer, Stopping, timer, call
<1>7. CASE Close
  BY <1>1, <1>7 DEF Close, Stopping, timer, call
<1> QED
  BY <1>2, <1>3, <1>4, <1>5, <1>6, <1>7

LEMMA StepStopping ==
  ASSUME Stopping, Cpus = 1, [Next]_vars
  PROVE  Stopping'
<1>1. CASE UNCHANGED vars
  BY <1>1 DEF vars, timer, call, Stopping
<1>2. CASE Next
  BY <1>2, SoftirqStopping, CallStopping DEF Next
<1> QED
  BY <1>1, <1>2

\* On one processor, for every rate, size and delay, a stream that is not
\* running has no timer, and a struct that is freed neither a timer nor a
\* callback: although alsa_gpio_systimer_stop does not wait for a callback and
\* alsa_gpio_systimer_free looks at nothing.
THEOREM OneProcessor ==
  ASSUME Cpus = 1
  PROVE  Spec => [](TimerStopped /\ NoCallbackAfterFree)
<1>1. Stopping /\ [Next]_vars => Stopping'
  BY StepStopping
<1>2. Stopping => TimerStopped /\ NoCallbackAfterFree
  BY DEF Stopping, TimerStopped, NoCallbackAfterFree
<1> QED
  BY InitStopping, <1>1, <1>2, PTL DEF Spec

(***************************************************************************)
(* The contract of a stream's timer.                                       *)
(***************************************************************************)

\* A running stream has its timer pending, but while the callback's body has it
\* in hand.
Driven == stream = "running" => armed = (cb # "entered")

LEMMA StepDriven ==
  ASSUME Stopping, Driven, Cpus = 1, [Next]_vars
  PROVE  Driven'
<1>1. CASE CallbackBody
  BY <1>1 DEF CallbackBody, Rearm, Stopping, Driven
<1>2. CASE CallbackReport
  BY <1>2 DEF CallbackReport, DelTimer, Stopping, Driven, timer
<1>3. CASE Expire
  BY <1>3 DEF Expire, Driven
<1>4. CASE Start
  <2>1. cb = "off" /\ cb' = cb /\ armed' = TRUE
    BY <1>4, RateAssumption DEF Start, Rearm, UserRuns, call
  <2> QED
    BY <2>1 DEF Driven
<1>5. CASE Stop
  BY <1>5 DEF Stop, Driven
<1>6. CASE Open \/ HwParams \/ HwFree \/ Prepare \/ Close
  BY <1>6 DEF Open, HwParams, HwFree, Prepare, Close, Driven
<1>7. CASE Tick \/ OtherSubstream \/ Pointer \/ UNCHANGED vars
  BY <1>7 DEF Tick, OtherSubstream, Pointer, vars, timer, call, Driven
<1> QED
  BY <1>1, <1>2, <1>3, <1>4, <1>5, <1>6, <1>7 DEF Next, TimerStep

\* A step that leaves alone what the contract is about.
LEMMA Stutters ==
  ASSUME UNCHANGED <<dpcm, armed, cb>>, stream = "running" <=> stream' = "running"
  PROVE  UNCHANGED Contract!vars
BY DEF Contract!vars

\* Softirqs: the callback of a running stream queues the timer again, unless
\* ALSA stops the stream in the middle of it.
LEMMA SoftirqKeeps ==
  ASSUME Stopping, Driven, Driven', TimerStep
  PROVE  [Contract!Next]_(Contract!vars)
<1>1. CASE Expire
  <2>1. Contract!Fire
    BY <1>1 DEF Expire, Contract!Fire
  <2> QED
    BY <2>1 DEF Contract!Next
<1>2. CASE CallbackBody
  <2>1. cb = "entered" /\ stream = "running" /\ armed' = TRUE /\ cb' \in {"off", "report"}
        /\ UNCHANGED <<stream, dpcm>>
    BY <1>2 DEF CallbackBody, Rearm, Stopping
  <2>2. CASE cb' = "off"
    <3>1. Contract!Rearm
      BY <2>1, <2>2 DEF Contract!Rearm
    <3> QED
      BY <3>1 DEF Contract!Next
  <2>3. CASE cb' = "report"
    BY <2>1, <2>3 DEF Contract!vars
  <2> QED
    BY <2>1, <2>2, <2>3
<1>3. CASE CallbackReport
  <2>1. cb = "report" /\ stream = "running" /\ armed = TRUE /\ cb' = "off" /\ dpcm' = dpcm
    BY <1>3 DEF CallbackReport, Stopping, Driven
  <2>2. CASE UNCHANGED <<stream, timer>>
    <3>1. Contract!Rearm
      BY <2>1, <2>2 DEF Contract!Rearm, timer
    <3> QED
      BY <3>1 DEF Contract!Next
  <2>3. CASE stream' = "xrun" /\ DelTimer
    <3>1. Contract!Stop
      BY <2>1, <2>3 DEF Contract!Stop, DelTimer
    <3> QED
      BY <3>1 DEF Contract!Next
  <2> QED
    BY <1>3, <2>1, <2>2, <2>3 DEF CallbackReport
<1> QED
  BY <1>1, <1>2, <1>3 DEF TimerStep

\* The user's calls run outside the callback.
LEMMA CallsKeep ==
  ASSUME Stopping, Driven, Cpus = 1,
         Open \/ HwParams \/ HwFree \/ Prepare \/ Start \/ Stop \/ Pointer \/ Close
  PROVE  [Contract!Next]_(Contract!vars)
<1>1. cb = "off"
  BY RateAssumption DEF UserRuns, Open, HwParams, HwFree, Prepare, Start, Stop, Pointer, Close
<1>2. CASE Open
  <2>1. Contract!Open
    BY <1>1, <1>2 DEF Open, Contract!Open, Stopping, timer, call
  <2> QED
    BY <2>1 DEF Contract!Next
<1>3. CASE HwParams \/ HwFree \/ Prepare \/ Pointer
  BY <1>3, Stutters DEF HwParams, HwFree, Prepare, Pointer, timer, call
<1>4. CASE Start
  <2>1. Contract!Start
    BY <1>1, <1>4 DEF Start, Rearm, Contract!Start, Stopping
  <2> QED
    BY <2>1 DEF Contract!Next
<1>5. CASE Stop
  <2>1. Contract!Stop
    BY <1>1, <1>5 DEF Stop, DelTimer, Contract!Stop, Driven, call
  <2> QED
    BY <2>1 DEF Contract!Next
<1>6. CASE Close
  <2>1. Contract!Close
    BY <1>1, <1>6 DEF Close, Contract!Close, Stopping, timer, call
  <2> QED
    BY <2>1 DEF Contract!Next
<1> QED
  BY <1>2, <1>3, <1>4, <1>5, <1>6

\* On one processor, for every rate, size and delay, the system timer keeps the
\* contract of a stream's timer; it takes the timer away with the stop, and
\* leaves nothing to a callback.
THEOREM KeepsContract ==
  ASSUME Cpus = 1
  PROVE  Spec => ContractSpec
<1>1. Init => Stopping /\ Driven /\ Contract!Init
  BY InitStopping DEF Init, Driven, Contract!Init
<1>2. Stopping /\ Driven /\ [Next]_vars
        => Stopping' /\ Driven' /\ [Contract!Next]_(Contract!vars)
  <2> SUFFICES ASSUME Stopping, Driven, [Next]_vars
               PROVE  Stopping' /\ Driven' /\ [Contract!Next]_(Contract!vars)
    OBVIOUS
  <2>1. Stopping' /\ Driven'
    BY StepStopping, StepDriven
  <2>2. CASE Tick \/ OtherSubstream \/ UNCHANGED vars
    BY <2>1, <2>2, Stutters DEF Tick, OtherSubstream, vars, timer, call
  <2>3. CASE TimerStep
    BY <2>1, <2>3, SoftirqKeeps
  <2>4. CASE Open \/ HwParams \/ HwFree \/ Prepare \/ Start \/ Stop \/ Pointer \/ Close
    BY <2>1, <2>4, CallsKeep
  <2> QED
    BY <2>1, <2>2, <2>3, <2>4 DEF Next
<1> QED
  BY <1>1, <1>2, PTL DEF Spec, ContractSpec, Contract!Spec

-----------------------------------------------------------------------------

(***************************************************************************)
(* When the timer expires.                                                 *)
(***************************************************************************)

\* The types that the arithmetic needs.
Numbers ==
  /\ frac_period_rest \in Int /\ due \in Int
  /\ elapsed \in Nat /\ since \in Nat

\* alsa_gpio_systimer_rearm rounds up.
LEMMA JiffiesBounds ==
  ASSUME NEW rest \in Int
  PROVE  /\ Jiffies(rest) \in Int
         /\ Rate * (Jiffies(rest) - 1) < rest
         /\ rest <= Rate * Jiffies(rest)
<1> DEFINE n == rest + Rate - 1
           q == n \div Rate
<1>1. Rate \in Nat \ {0} /\ n \in Int
  BY RateAssumption
<1>2. q \in Int /\ n = Rate * q + (n % Rate) /\ (n % Rate) \in 0 .. Rate - 1
  BY <1>1, Z3
<1>3. Rate * (q - 1) = Rate * q - Rate
  BY <1>1, <1>2
<1>4. Jiffies(rest) = q
  BY DEF Jiffies
<1> HIDE DEF q
<1> QED
  BY <1>1, <1>2, <1>3, <1>4

\* The loop of alsa_gpio_systimer_update does not run unless rest is used up.
LEMMA PeriodsBounds ==
  ASSUME Numbers, NEW d \in Nat
  PROVE  /\ PeriodsIn(d) \in Nat
         /\ PeriodsIn(d) * frac_period_size \in Nat
         /\ PeriodsIn(d) = 0 => PeriodsIn(d) * frac_period_size = 0
<1>1. frac_period_size \in Nat \ {0}
  BY RateAssumption DEF frac_period_size
<1> DEFINE m == d - frac_period_rest
<1>2. ASSUME frac_period_rest <= d PROVE m \div frac_period_size \in Nat
  <2>1. m \in Nat
    BY <1>2 DEF Numbers
  <2> HIDE DEF m
  <2> QED
    BY <1>1, <2>1
<1>3. PeriodsIn(d) \in Nat
  BY <1>2 DEF PeriodsIn, Numbers
<1> HIDE DEF m
<1> QED
  BY <1>1, <1>3

\* An update moves the reference point of the time and of the rest alike.
LEMMA UpdateExpiry ==
  ASSUME Numbers, Update, elapsed' = Counted, UNCHANGED due
  PROVE  /\ Numbers'
         /\ Rate * (due + since - 1) < frac_period_rest
              => Rate * (due + since - 1)' < frac_period_rest'
         /\ (elapsed = 0 => Rate * (due + since) >= frac_period_rest)
              => (elapsed = 0 => Rate * (due + since) >= frac_period_rest)'
<1> DEFINE d == since * Rate
           p == PeriodsIn(d)
           add == p * frac_period_size
<1>1. Rate \in Nat \ {0} /\ d \in Nat
  BY RateAssumption DEF Numbers
<1>2. p \in Nat /\ add \in Nat /\ (p = 0 => add = 0)
  BY <1>1, PeriodsBounds
<1>3. since' = 0 /\ frac_period_rest' = frac_period_rest + add - d /\ elapsed' = elapsed + p
  BY DEF Update, Counted
<1>4. /\ Rate * (due + since - 1) = Rate * (due - 1) + d
      /\ Rate * (due + since) = Rate * due + d
      /\ Rate * (due - 1) \in Int /\ Rate * due \in Int
  BY <1>1 DEF Numbers
<1>5. (due + since - 1)' = due - 1 /\ (due + since)' = due
  BY <1>3 DEF Numbers
<1> HIDE DEF d, p, add
<1> QED
  BY <1>1, <1>2, <1>3, <1>4, <1>5 DEF Numbers

\* The timer is armed for the first jiffy at or after the boundary.
LEMMA RearmExpiry ==
  ASSUME Rearm(frac_period_rest'), frac_period_rest' \in Int, since' = 0, elapsed' \in Nat
  PROVE  Numbers' /\ ExpiresOnTime'
<1>1. due' = Jiffies(frac_period_rest')
  BY DEF Rearm
<1>2. /\ due' \in Int
      /\ Rate * (due' - 1) < frac_period_rest'
      /\ frac_period_rest' <= Rate * due'
  BY <1>1, JiffiesBounds
<1>3. due' + since' - 1 = due' - 1 /\ due' + since' = due'
  <2>1. ASSUME NEW t \in Int PROVE t + 0 - 1 = t - 1 /\ t + 0 = t
    OBVIOUS
  <2>2. due' \in Int /\ since' = 0
    BY <1>2
  <2> QED
    BY <2>1, <2>2, Zenon
<1> QED
  BY <1>2, <1>3, RateAssumption DEF Numbers, ExpiresOnTime

\* While time passes, the time of the expiry stays where it is.
LEMMA TickExpiry ==
  ASSUME Numbers, ExpiresOnTime, Tick
  PROVE  Numbers' /\ ExpiresOnTime'
<1>1. /\ Numbers'
      /\ (due + since - 1)' = due + since - 1 /\ (due + since)' = due + since
      /\ UNCHANGED <<stream, armed, elapsed, frac_period_rest>>
  BY DEF Tick, Numbers
<1> QED
  BY <1>1 DEF ExpiresOnTime

\* The callback, with its report.
LEMMA TimerStepExpiry ==
  ASSUME Numbers, ExpiresOnTime, TimerStep
  PROVE  Numbers' /\ ExpiresOnTime'
<1>1. CASE Expire
  BY <1>1 DEF Expire, acct, ExpiresOnTime, Numbers
<1>2. CASE CallbackBody
  <2>1. since * Rate \in Nat
    BY RateAssumption DEF Numbers
  <2>2. PeriodsIn(since * Rate) * frac_period_size \in Nat
    BY <2>1, PeriodsBounds
  <2>3. since' = 0 /\ elapsed' = 0 /\ Rearm(frac_period_rest')
    BY <1>2 DEF CallbackBody, Update
  <2>4. frac_period_rest' \in Int
    BY <1>2, <2>1, <2>2 DEF CallbackBody, Update, Numbers
  <2> QED
    BY <2>3, <2>4, RearmExpiry
<1>3. CASE CallbackReport
  <2>1. CASE stream # "running"
    BY <1>3, <2>1 DEF CallbackReport, acct, timer, ExpiresOnTime, Numbers
  <2>2. CASE stream = "running"
    <3>1. /\ Update /\ elapsed' = Counted /\ UNCHANGED due
          /\ armed' => armed
      BY <1>3, <2>2 DEF CallbackReport, DelTimer, timer
    <3> QED
      BY <2>2, <3>1, UpdateExpiry DEF ExpiresOnTime
  <2> QED
    BY <2>1, <2>2
<1> QED
  BY <1>1, <1>2, <1>3 DEF TimerStep

\* The user's calls, and what the other substream does.
LEMMA CallExpiry ==
  ASSUME Numbers, ExpiresOnTime,
         \/ OtherSubstream \/ Open \/ HwParams \/ HwFree \/ Prepare
         \/ Start \/ Stop \/ Pointer \/ Close
  PROVE  Numbers' /\ ExpiresOnTime'
<1>1. CASE OtherSubstream
  BY <1>1 DEF OtherSubstream, acct, timer, ExpiresOnTime, Numbers
<1>2. CASE Open
  BY <1>2 DEF Open, timer, ExpiresOnTime, Numbers
<1>3. CASE HwParams \/ HwFree \/ Close
  BY <1>3 DEF HwParams, HwFree, Close, acct, timer, ExpiresOnTime, Numbers
<1>4. CASE Prepare
  <2>1. frac_period_size \in Nat
    BY RateAssumption DEF frac_period_size
  <2> QED
    BY <1>4, <2>1 DEF Prepare, ElapsedReset, timer, ExpiresOnTime, Numbers
<1>5. CASE Start
  <2>1. Rearm(frac_period_rest') /\ since' = 0 /\ elapsed' = elapsed
    BY <1>5 DEF Start
  <2>2. frac_period_rest' \in Int
    BY <1>5 DEF Start, Numbers
  <2> QED
    BY <2>1, <2>2, RearmExpiry DEF Numbers
<1>6. CASE Stop
  BY <1>6 DEF Stop, DelTimer, acct, ExpiresOnTime, Numbers
<1>7. CASE Pointer
  <2>1. /\ Update /\ elapsed' = Counted
        /\ UNCHANGED <<due, armed, stream>>
    BY <1>7 DEF Pointer, timer
  <2> QED
    BY <2>1, UpdateExpiry DEF ExpiresOnTime
<1> QED
  BY <1>1, <1>2, <1>3, <1>4, <1>5, <1>6, <1>7

\* For every rate, HZ and period, and however late callbacks are and whenever
\* pointer calls come, the timer of a running stream expires with the first
\* jiffy at or after the next period boundary.
THEOREM Expiry == Spec => []ExpiresOnTime
<1>1. Init => Numbers /\ ExpiresOnTime
  BY DEF Init, Numbers, ExpiresOnTime
<1>2. Numbers /\ ExpiresOnTime /\ [Next]_vars => Numbers' /\ ExpiresOnTime'
  <2> SUFFICES ASSUME Numbers, ExpiresOnTime, [Next]_vars
               PROVE  Numbers' /\ ExpiresOnTime'
    OBVIOUS
  <2>1. CASE UNCHANGED vars
    BY <2>1 DEF vars, acct, timer, Numbers, ExpiresOnTime
  <2>2. CASE Next
    BY <2>2, TickExpiry, TimerStepExpiry, CallExpiry DEF Next
  <2> QED
    BY <2>1, <2>2
<1> QED
  BY <1>1, <1>2, PTL DEF Spec
-----------------------------------------------------------------------------

(***************************************************************************)
(* Position and periods.  Moduli are nested here, so they are compared as  *)
(* congruences.                                                            *)
(***************************************************************************)

\* n is m modulo b.
Congruent(n, m, b) == \E k \in Int : n = m + k * b

LEMMA MultipleAdd ==
  ASSUME NEW k \in Int, NEW l \in Int, NEW b \in Int
  PROVE  (k + l) * b = k * b + l * b /\ k * b \in Int
OBVIOUS

LEMMA CongruentAdd ==
  ASSUME NEW n \in Int, NEW m \in Int, NEW b \in Int, NEW x \in Int, Congruent(n, m, b)
  PROVE  Congruent(n + x, m + x, b)
<1>1. PICK k \in Int : n = m + k * b
  BY DEF Congruent
<1>2. k * b \in Int
  BY <1>1
<1>3. n + x = (m + x) + k * b
  BY <1>1, <1>2
<1> QED
  BY <1>3 DEF Congruent

LEMMA CongruentTrans ==
  ASSUME NEW n \in Int, NEW m \in Int, NEW l \in Int, NEW b \in Int,
         Congruent(n, m, b), Congruent(m, l, b)
  PROVE  Congruent(n, l, b)
<1>1. PICK j \in Int : n = m + j * b
  BY DEF Congruent
<1>2. PICK k \in Int : m = l + k * b
  BY DEF Congruent
<1>3. (j + k) * b = j * b + k * b /\ j * b \in Int /\ k * b \in Int
  BY MultipleAdd
<1>4. n = l + (j + k) * b /\ j + k \in Int
  BY <1>1, <1>2, <1>3
<1> QED
  BY <1>4, Zenon DEF Congruent

LEMMA DivMod ==
  ASSUME NEW n \in Int, NEW b \in Nat \ {0}
  PROVE  n \div b \in Int /\ n = b * (n \div b) + (n % b) /\ n % b \in 0 .. b - 1
BY Z3

\* A number is congruent to its remainder, ...
LEMMA ModCongruent ==
  ASSUME NEW n \in Int, NEW b \in Nat \ {0}
  PROVE  n % b \in Int /\ Congruent(n % b, n, b) /\ Congruent(n, n % b, b)
<1> DEFINE q == n \div b
           r == n % b
<1>1. q \in Int /\ n = b * q + r /\ r \in Int
  BY DivMod
<1> HIDE DEF q, r
<1>2. /\ b * q \in Int /\ q * b = b * q
      /\ -q \in Int /\ (-q) * b = -(b * q)
  BY <1>1
<1>3. r = n + (-q) * b /\ n = r + q * b
  BY <1>1, <1>2
<1>4. Congruent(r, n, b) /\ Congruent(n, r, b)
  BY <1>1, <1>2, <1>3 DEF Congruent
<1> QED
  BY <1>1, <1>4 DEF r

\* ... and to no other number in its range; the quotient is unique, too.
LEMMA DivUnique ==
  ASSUME NEW n \in Int, NEW b \in Nat \ {0}, NEW k \in Int, NEW m \in 0 .. b - 1,
         n = m + k * b
  PROVE  n % b = m /\ n \div b = k
<1> DEFINE q == n \div b
           r == n % b
<1>1. q \in Int /\ n = b * q + r /\ r \in 0 .. b - 1
  BY DivMod
<1> HIDE DEF q, r
<1>2. k * b - b * q = (k - q) * b /\ k * b \in Int /\ b * q \in Int
  BY <1>1
<1>3. (k - q) * b = r - m
  BY <1>1, <1>2
<1>4. k - q < 1
  <2>1. ASSUME k - q >= 1 PROVE (k - q) * b >= b
    BY <1>1, <2>1
  <2> QED
    BY <1>1, <1>3, <2>1
<1>5. k - q > -1
  <2>1. ASSUME k - q <= -1 PROVE (k - q) * b <= -b
    BY <1>1, <2>1
  <2> QED
    BY <1>1, <1>3, <2>1
<1>6. k = q
  BY <1>1, <1>4, <1>5
<1>7. r = m
  BY <1>1, <1>6
<1> QED
  BY <1>6, <1>7 DEF q, r

LEMMA CongruentMod ==
  ASSUME NEW n \in Int, NEW b \in Nat \ {0}, NEW m \in 0 .. b - 1, Congruent(n, m, b)
  PROVE  n % b = m
BY DivUnique DEF Congruent

LEMMA Sizes ==
  /\ frac_buffer_size \in Nat \ {0} /\ frac_period_size \in Nat \ {0} /\ Cycle \in Nat \ {0}
  /\ Rate \in Nat \ {0} /\ BufferSize \in Nat \ {0} /\ PeriodSize \in Nat \ {0}
  /\ Cycle = PeriodSize * frac_buffer_size /\ Cycle = BufferSize * frac_period_size
<1>1. {Rate, HZ, PeriodSize, BufferSize} \subseteq Nat \ {0}
  BY RateAssumption
<1>2. ASSUME NEW a \in Nat \ {0}, NEW b \in Nat \ {0} PROVE a * b \in Nat \ {0}
  OBVIOUS
<1>3. frac_buffer_size \in Nat \ {0} /\ frac_period_size \in Nat \ {0}
  BY <1>1, <1>2 DEF frac_buffer_size, frac_period_size
<1>4. Cycle = PeriodSize * frac_buffer_size
  BY <1>1 DEF Cycle, frac_buffer_size
<1>5. Cycle = BufferSize * frac_period_size
  BY <1>1 DEF Cycle, frac_period_size
<1>6. Cycle \in Nat \ {0}
  BY <1>1, <1>2, <1>3, <1>4
<1> QED
  BY <1>1, <1>3, <1>4, <1>5, <1>6

\* When t has been played, frac_pos is pos, frac_period_rest is rest, and n
\* periods are counted: all as far as they go, the buffer going round.
At(t, pos, rest, n) ==
  /\ Congruent(t, pos, frac_buffer_size)
  /\ \E j \in Int : t + rest = (j + 1) * frac_period_size /\ Congruent(n, j, BufferSize)

\* What has been played may be taken modulo Cycle, ...
LEMMA AtCycle ==
  ASSUME NEW t \in Int, NEW u \in Int, NEW pos \in Int, NEW rest \in Int, NEW n \in Int,
         At(t, pos, rest, n), Congruent(u, t, Cycle)
  PROVE  At(u, pos, rest, n)
<1> DEFINE FB == frac_buffer_size
           FP == frac_period_size
<1>0. /\ FB \in Nat \ {0} /\ FP \in Nat \ {0} /\ BufferSize \in Nat \ {0}
      /\ PeriodSize \in Nat \ {0} /\ Cycle \in Nat
      /\ Cycle = PeriodSize * FB /\ Cycle = BufferSize * FP
  BY Sizes
<1>1. PICK k \in Int : u = t + k * Cycle
  BY DEF Congruent
<1>2. PICK j \in Int : t + rest = (j + 1) * FP /\ Congruent(n, j, BufferSize)
  BY DEF At
<1>a. Congruent(t, pos, FB)
  BY DEF At
<1> HIDE DEF FB, FP
<1>3. k * Cycle = (k * PeriodSize) * FB /\ k * PeriodSize \in Int
  BY <1>0
<1>4. Congruent(u, pos, FB)
  <2>1. Congruent(u, t, FB)
    BY <1>1, <1>3 DEF Congruent
  <2> QED
    BY <2>1, <1>a, <1>0, CongruentTrans
<1> DEFINE l == k * BufferSize
<1>5. k * Cycle = l * FP /\ l \in Int
  BY <1>0
<1>6. Congruent(j, j + l, BufferSize)
  <2>1. (-k) * BufferSize = -l /\ -k \in Int
    BY <1>0
  <2>2. l \in Int
    BY <1>5
  <2> HIDE DEF l
  <2>3. j = (j + l) + (-k) * BufferSize
    BY <2>1, <2>2
  <2> QED
    BY <2>1, <2>3 DEF Congruent
<1> HIDE DEF l
<1>7. Congruent(n, j + l, BufferSize)
  BY <1>0, <1>2, <1>5, <1>6, CongruentTrans
<1>8. ((j + 1) + l) * FP = (j + 1) * FP + l * FP /\ (j + 1) * FP \in Int /\ l * FP \in Int
  BY <1>0, <1>5, MultipleAdd
<1>9. u + rest = ((j + 1) + l) * FP
  BY <1>1, <1>2, <1>5, <1>8
<1>10. (j + 1) + l = (j + l) + 1 /\ j + l \in Int
  BY <1>5
<1> QED
  BY <1>4, <1>7, <1>9, <1>10 DEF At, FB, FP

\* ... periods modulo the number of them in a common multiple, ...
LEMMA AtReported ==
  ASSUME NEW t \in Int, NEW pos \in Int, NEW rest \in Int, NEW n \in Int, NEW m \in Int,
         At(t, pos, rest, n), Congruent(m, n, BufferSize)
  PROVE  At(t, pos, rest, m)
BY Sizes, CongruentTrans DEF At

\* ... and an update moves all four alike.
LEMMA AtUpdate ==
  ASSUME NEW t \in Int, NEW pos \in Int, NEW rest \in Int, NEW n \in Int, NEW d \in Int,
         NEW p \in Int, At(t, pos, rest, n)
  PROVE  At(t + d, (pos + d) % frac_buffer_size, rest + p * frac_period_size - d, n + p)
<1> DEFINE FB == frac_buffer_size
           FP == frac_period_size
           pos2 == (pos + d) % FB
           add == p * FP
<1>0. FB \in Nat \ {0} /\ FP \in Nat \ {0} /\ BufferSize \in Nat \ {0}
  BY Sizes
<1>1. Congruent(t + d, pos + d, FB)
  <2>1. Congruent(t, pos, FB) /\ FB \in Int
    BY <1>0 DEF At
  <2> QED
    BY <2>1, CongruentAdd
<1>2. Congruent(pos + d, pos2, FB) /\ pos2 \in Int
  <2>1. pos + d \in Int
    OBVIOUS
  <2> QED
    BY <1>0, <2>1, ModCongruent
<1>4. Congruent(t + d, pos2, FB)
  BY <1>0, <1>1, <1>2, CongruentTrans
<1>5. PICK j \in Int : t + rest = (j + 1) * FP /\ Congruent(n, j, BufferSize)
  BY DEF At
<1> HIDE DEF FP
<1>6. Congruent(n + p, j + p, BufferSize)
  <2>1. Congruent(n, j, BufferSize) /\ BufferSize \in Int
    BY <1>0, <1>5
  <2> QED
    BY <2>1, CongruentAdd
<1>7. ((j + 1) + p) * FP = (j + 1) * FP + add /\ (j + 1) * FP \in Int /\ add \in Int
  BY <1>0, MultipleAdd
<1> HIDE DEF add
<1>8. (t + d) + (rest + add - d) = ((j + 1) + p) * FP
  BY <1>5, <1>7
<1>9. (j + 1) + p = (j + p) + 1
  BY <1>5
<1> QED
  BY <1>4, <1>6, <1>8, <1>9 DEF At, FP, add

\* The types, and that only a callback that is about to report has something to
\* report.
Ranges ==
  /\ TypeOK
  /\ cb # "report" => local = 0

\* What the stream has played up to the last update.
Reached == clock - Rate * since

\* The accounts are right from prepare on, ...
Exact ==
  stream \in {"prepared", "running", "suspended"} =>
    /\ frac_period_rest > 0
    /\ At(Reached, frac_pos, frac_period_rest, reported + local + elapsed)

\* ... and an update never comes later than the timer and the lateness allow.
InTime == stream = "running" => Rate * (due + since - 1) < frac_period_rest

Accounts == Ranges /\ Exact /\ InTime

\* frac_pos is wide enough for what the latest callback adds.
Wide == frac_buffer_size + frac_period_size + Rate * (MaxLate + 1) <= UintSize

LEMMA TypesOfNumbers ==
  ASSUME Ranges
  PROVE  /\ Numbers /\ frac_pos \in Nat /\ frac_period_rest \in Nat /\ local \in Nat
         /\ clock \in Nat /\ reported \in Nat /\ Rate * since \in Nat /\ Reached \in Int
<1>1. /\ frac_buffer_size \in Nat /\ frac_period_size \in Nat /\ Cycle \in Nat
      /\ Rate \in Nat /\ BufferSize \in Nat
  BY Sizes
<1>2. \A n \in Nat : \A m \in 0 .. n - 1 : m \in Nat
  OBVIOUS
<1>3. due \in Int
  <2>1. Jiffies(frac_period_size) \in Int /\ MaxLate \in Nat
    BY <1>1, JiffiesBounds, RateAssumption
  <2> QED
    BY <2>1 DEF Ranges, TypeOK
<1>4. frac_pos \in Nat /\ clock \in Nat /\ reported \in Nat
  BY <1>1, <1>2 DEF Ranges, TypeOK
<1>5. frac_period_rest \in Nat /\ elapsed \in Nat /\ since \in Nat /\ local \in Nat
  BY <1>1 DEF Ranges, TypeOK
<1>6. Rate * since \in Nat
  BY <1>1, <1>5
<1> QED
  BY <1>3, <1>4, <1>5, <1>6 DEF Numbers, Reached

\* As many periods as the loop adds lead to the next boundary.
LEMMA NextBoundary ==
  ASSUME NEW rest \in Int, NEW d \in Int, NEW f \in Nat \ {0}
  PROVE  rest + ((d - rest) \div f + 1) * f - d \in 1 .. f
<1> DEFINE q == (d - rest) \div f
           r == (d - rest) % f
<1>1. q \in Int /\ d - rest = f * q + r /\ r \in 0 .. f - 1
  <2>1. d - rest \in Int
    OBVIOUS
  <2> QED
    BY <2>1, DivMod
<1> HIDE DEF q, r
<1>2. (q + 1) * f = f * q + f /\ f * q \in Int
  BY <1>1
<1>3. rest + (f * q + f) - d = f - r
  BY <1>1, <1>2
<1>4. rest + (q + 1) * f - d \in 1 .. f
  BY <1>1, <1>2, <1>3
<1> QED
  BY <1>4 DEF q

\* alsa_gpio_systimer_update, of a running stream.
LEMMA UpdateExact ==
  ASSUME Accounts, stream = "running", Update, clock' = clock, Wide
  PROVE  /\ since' = 0 /\ frac_pos' \in 0 .. frac_buffer_size - 1
         /\ frac_period_rest' \in 1 .. frac_period_size
         /\ PeriodsIn(since * Rate) \in Nat
         /\ At(Reached', frac_pos', frac_period_rest',
               (reported + local + elapsed) + PeriodsIn(since * Rate))
<1> DEFINE d == since * Rate
           p == PeriodsIn(d)
           FB == frac_buffer_size
           FP == frac_period_size
<1>1. /\ FB \in Nat \ {0} /\ FP \in Nat \ {0} /\ Rate \in Nat \ {0}
      /\ MaxLate \in Nat /\ UintSize \in Nat \ {0}
  BY Sizes, RateAssumption
<1>2. /\ Numbers /\ frac_pos \in Nat /\ frac_period_rest \in Nat /\ local \in Nat
      /\ clock \in Nat /\ reported \in Nat /\ Reached \in Int
  BY TypesOfNumbers DEF Accounts
<1>3. d \in Nat /\ d = Rate * since
  BY <1>1, <1>2 DEF Numbers
<1>4. p \in Nat
  BY <1>2, <1>3, PeriodsBounds
<1>5. frac_period_rest \in 1 .. FP /\ frac_pos \in 0 .. FB - 1 /\ due >= -MaxLate
  <2>1. Jiffies(FP) \in Int
    BY <1>1, JiffiesBounds
  <2> QED
    BY <1>1, <1>2, <2>1 DEF Accounts, Exact, Ranges, TypeOK
<1>6. d < FP + Rate * (MaxLate + 1)
  <2>1. Rate * (due + since - 1) < frac_period_rest
    BY DEF Accounts, InTime
  <2>2. Rate * (since - MaxLate - 1) <= Rate * (due + since - 1)
    <3>1. ASSUME NEW a \in Int, NEW b \in Int, a <= b PROVE Rate * a <= Rate * b
      BY <1>1, <3>1
    <3>2. since - MaxLate - 1 <= due + since - 1
      BY <1>1, <1>2, <1>5 DEF Numbers
    <3>3. since - MaxLate - 1 \in Int /\ due + since - 1 \in Int
      BY <1>1, <1>2 DEF Numbers
    <3> QED
      BY <3>1, <3>2, <3>3
  <2>3. /\ Rate * (since - MaxLate - 1) = d - Rate * (MaxLate + 1)
        /\ Rate * (MaxLate + 1) \in Nat /\ Rate * (due + since - 1) \in Int
    BY <1>1, <1>2, <1>3 DEF Numbers
  <2> HIDE DEF d, FP
  <2> QED
    BY <1>1, <1>3, <1>5, <2>1, <2>2, <2>3
<1>7. (frac_pos + d) % UintSize = frac_pos + d
  <2>1. frac_pos + d \in 0 .. UintSize - 1
    <3>1. Rate * (MaxLate + 1) \in Nat
      BY <1>1
    <3> HIDE DEF d
    <3> QED
      BY <1>1, <1>3, <1>5, <1>6, <3>1 DEF Wide
  <2> HIDE DEF d
  <2> QED
    BY <1>1, <2>1
<1>8. frac_pos' = (frac_pos + d) % FB
  BY <1>7 DEF Update, PosAfter
<1>9. since' = 0 /\ frac_period_rest' = frac_period_rest + p * FP - d
  BY DEF Update
<1>10. frac_pos' \in 0 .. FB - 1
  <2>1. frac_pos + d \in Int
    BY <1>2, <1>3
  <2> QED
    BY <1>1, <1>8, <2>1, DivMod
<1>11. frac_period_rest' \in 1 .. FP
  <2>1. CASE frac_period_rest <= d
    <3>1. p = (d - frac_period_rest) \div FP + 1
      BY <2>1 DEF PeriodsIn
    <3>2. d \in Int /\ frac_period_rest \in Int
      BY <1>2, <1>3
    <3> HIDE DEF d, p, FP
    <3>3. frac_period_rest + ((d - frac_period_rest) \div FP + 1) * FP - d \in 1 .. FP
      BY <1>1, <2>1, <3>2, NextBoundary
    <3> QED
      BY <1>9, <3>1, <3>3
  <2>2. CASE ~(frac_period_rest <= d)
    <3>1. p = 0
      BY <2>2 DEF PeriodsIn
    <3>2. p * FP = 0
      BY <1>1, <3>1
    <3> HIDE DEF d, p, FP
    <3> QED
      BY <1>1, <1>3, <1>5, <1>9, <2>2, <3>2
  <2> QED
    BY <2>1, <2>2
<1>12. Reached' = Reached + d
  <2>1. Reached' = clock
    BY <1>1, <1>2, <1>9 DEF Reached
  <2> QED
    BY <1>2, <1>3, <2>1 DEF Reached
<1>13. At(Reached, frac_pos, frac_period_rest, reported + local + elapsed)
  BY DEF Accounts, Exact
<1>14. reported + local + elapsed \in Int
  BY <1>2 DEF Numbers
<1>15. At(Reached + d, (frac_pos + d) % FB, frac_period_rest + p * FP - d,
          (reported + local + elapsed) + p)
  BY <1>2, <1>3, <1>4, <1>13, <1>14, AtUpdate
<1> QED
  BY <1>4, <1>8, <1>9, <1>10, <1>11, <1>12, <1>15

\* The timer is set within its bounds.
LEMMA JiffiesRange ==
  ASSUME NEW rest \in 1 .. frac_period_size
  PROVE  Jiffies(rest) \in -MaxLate .. Jiffies(frac_period_size) /\ Jiffies(rest) > 0
<1> DEFINE a == Jiffies(rest)
           b == Jiffies(frac_period_size)
<1>1. Rate \in Nat \ {0} /\ frac_period_size \in Nat /\ MaxLate \in Nat
  BY Sizes, RateAssumption
<1>2. /\ a \in Int /\ b \in Int
      /\ Rate * (a - 1) < rest /\ rest <= Rate * a /\ frac_period_size <= Rate * b
  BY <1>1, JiffiesBounds
<1> HIDE DEF a, b
<1>3. a > 0
  <2>1. ASSUME a <= 0 PROVE Rate * a <= 0
    BY <1>1, <1>2, <2>1
  <2> QED
    BY <1>1, <1>2, <2>1
<1>4. a <= b
  <2>1. ASSUME b <= a - 1 PROVE Rate * b <= Rate * (a - 1)
    BY <1>1, <1>2, <2>1
  <2>2. Rate * b \in Int /\ Rate * (a - 1) \in Int
    BY <1>1, <1>2
  <2> QED
    BY <1>1, <1>2, <2>1, <2>2
<1>5. a \in -MaxLate .. b /\ a > 0
  BY <1>1, <1>2, <1>3, <1>4
<1> QED
  BY <1>5 DEF a, b

LEMMA CopiedNat ==
  ASSUME NEW half, NEW n \in Nat, Cpus = 1
  PROVE  Copied(half, n) \subseteq Nat
BY DEF Copied

LEMMA InitAccounts == Init => Accounts
<1> SUFFICES ASSUME Init PROVE Accounts
  OBVIOUS
<1>1. /\ frac_buffer_size \in Nat \ {0} /\ frac_period_size \in Nat \ {0}
      /\ Cycle \in Nat \ {0} /\ BufferSize \in Nat \ {0} /\ MaxLate \in Nat
  BY Sizes, RateAssumption
<1>2. 0 \in -MaxLate .. Jiffies(frac_period_size)
  <2>1. frac_period_size \in 1 .. frac_period_size
    BY <1>1
  <2>2. Jiffies(frac_period_size) > 0 /\ Jiffies(frac_period_size) \in Int
    BY <1>1, <2>1, JiffiesRange, JiffiesBounds
  <2> QED
    BY <1>1, <2>2
<1>3. /\ 0 \in 0 .. frac_buffer_size - 1 /\ 0 \in 0 .. frac_period_size
      /\ 0 \in 0 .. Cycle - 1 /\ 0 \in 0 .. BufferSize - 1
  BY <1>1
<1>4. Ranges
  BY <1>2, <1>3 DEF Init, Ranges, TypeOK, Streams
<1> QED
  BY <1>4 DEF Init, Accounts, Exact, InTime

\* Time that passes moves the two sides of each account alike.
LEMMA TickAccounts ==
  ASSUME Accounts, Tick
  PROVE  Accounts'
<1>1. /\ Rate \in Nat \ {0} /\ Cycle \in Nat \ {0} /\ MaxLate \in Nat
      /\ frac_period_size \in Nat
  BY Sizes, RateAssumption
<1>2. /\ Numbers /\ frac_pos \in Nat /\ frac_period_rest \in Nat /\ local \in Nat
      /\ clock \in Nat /\ reported \in Nat /\ Rate * since \in Nat /\ Reached \in Int
  BY TypesOfNumbers DEF Accounts
<1>3. /\ due' = due - 1 /\ since' = since + 1 /\ clock' = (clock + Rate) % Cycle
      /\ due > -MaxLate
      /\ UNCHANGED <<stream, dpcm, frac_pos, frac_period_rest, elapsed, armed, cb, local,
                     buffer_counter, reported>>
  BY DEF Tick, call
<1>4. clock' \in 0 .. Cycle - 1 /\ Congruent(clock', clock + Rate, Cycle)
  <2>1. clock + Rate \in Int
    BY <1>1, <1>2
  <2> QED
    BY <1>1, <1>3, <2>1, DivMod, ModCongruent
<1>5. Ranges'
  <2>1. due' \in -MaxLate .. Jiffies(frac_period_size)
    <3>1. Jiffies(frac_period_size) \in Int
      BY <1>1, JiffiesBounds
    <3> QED
      BY <1>1, <1>3, <3>1 DEF Accounts, Ranges, TypeOK
  <2>2. since' \in Nat
    BY <1>2, <1>3 DEF Numbers
  <2> QED
    BY <1>3, <1>4, <2>1, <2>2 DEF Accounts, Ranges, TypeOK
<1>6. Congruent(Reached', Reached, Cycle) /\ Reached' \in Int
  <2> DEFINE back == -(Rate * (since + 1))
  <2>1. /\ back = -(Rate * since) - Rate /\ back \in Int
        /\ clock' \in Int /\ clock + Rate \in Int
    BY <1>1, <1>2, <1>4 DEF Numbers
  <2>2. Congruent(clock' + back, (clock + Rate) + back, Cycle)
    <3> HIDE DEF back
    <3> QED
      BY <1>1, <1>4, <2>1, CongruentAdd
  <2>3. Reached' = clock' + back
    BY <1>1, <1>3, <2>1 DEF Reached
  <2>4. (clock + Rate) + back = Reached
    BY <1>1, <1>2, <2>1 DEF Reached
  <2> HIDE DEF back
  <2> QED
    BY <2>1, <2>2, <2>3, <2>4
<1>7. Exact'
  <2> SUFFICES ASSUME stream \in {"prepared", "running", "suspended"}
               PROVE  At(Reached', frac_pos, frac_period_rest, reported + local + elapsed)
    BY <1>3 DEF Exact, Accounts
  <2>1. At(Reached, frac_pos, frac_period_rest, reported + local + elapsed)
    BY DEF Accounts, Exact
  <2>2. reported + local + elapsed \in Int
    BY <1>2 DEF Numbers
  <2> QED
    BY <1>2, <1>6, <2>1, <2>2, AtCycle
<1>8. InTime'
  <2>1. due' + since' - 1 = due + since - 1
    BY <1>2, <1>3 DEF Numbers
  <2> QED
    BY <1>3, <2>1 DEF Accounts, InTime
<1> QED
  BY <1>5, <1>7, <1>8 DEF Accounts

\* A rearmed timer expires in time.
LEMMA RearmAccounts ==
  ASSUME Rearm(frac_period_rest'), frac_period_rest' \in 1 .. frac_period_size, since' = 0
  PROVE  /\ due' \in -MaxLate .. Jiffies(frac_period_size) /\ armed' = TRUE
         /\ InTime'
<1>1. frac_period_size \in Nat
  BY Sizes
<1>2. due' = Jiffies(frac_period_rest') /\ armed' = TRUE
  BY DEF Rearm
<1>3. due' \in Int /\ Rate * (due' - 1) < frac_period_rest'
  BY <1>1, <1>2, JiffiesBounds
<1>4. due' + since' - 1 = due' - 1
  BY <1>3
<1> QED
  BY <1>2, <1>3, <1>4, JiffiesRange DEF InTime

LEMMA CallbackBodyAccounts ==
  ASSUME Accounts, Stopping, Wide, Cpus = 1, CallbackBody
  PROVE  Accounts'
<1> DEFINE p == PeriodsIn(since * Rate)
<1>1. /\ stream = "running" /\ Update /\ Rearm(frac_period_rest')
      /\ local' = elapsed + p /\ elapsed' = 0 /\ local = 0
      /\ buffer_counter' \in Copied(HalfBuffer, buffer_counter)
      /\ cb' = IF local' > 0 THEN "report" ELSE "off"
      /\ UNCHANGED <<stream, dpcm, clock, reported>>
  BY DEF CallbackBody, Stopping, Accounts, Ranges, Counted, ghost
<1>2. /\ since' = 0 /\ frac_pos' \in 0 .. frac_buffer_size - 1
      /\ frac_period_rest' \in 1 .. frac_period_size /\ p \in Nat
      /\ At(Reached', frac_pos', frac_period_rest', (reported + local + elapsed) + p)
  BY <1>1, UpdateExact
<1> HIDE DEF p
<1>3. elapsed \in Nat /\ reported \in Nat
  BY TypesOfNumbers DEF Accounts, Numbers
<1>4. (reported + local + elapsed) + p = reported' + local' + elapsed'
  BY <1>1, <1>2, <1>3
<1>5. due' \in -MaxLate .. Jiffies(frac_period_size) /\ armed' = TRUE /\ InTime'
  BY <1>1, <1>2, RearmAccounts
<1>6. Ranges'
  <2>1. local' \in Nat /\ (cb' # "report" => local' = 0)
        /\ cb' \in {"off", "entered", "report"}
    BY <1>1, <1>2, <1>3
  <2>2. buffer_counter' \in Nat
    BY <1>1, CopiedNat DEF Accounts, Ranges, TypeOK
  <2>3. frac_period_rest' \in 0 .. frac_period_size
    BY <1>2, Sizes
  <2> QED
    BY <1>1, <1>2, <1>5, <2>1, <2>2, <2>3 DEF Accounts, Ranges, TypeOK
<1>7. Exact'
  <2>1. frac_period_rest' > 0
    BY <1>2, Sizes
  <2> QED
    BY <1>2, <1>4, <2>1 DEF Exact
<1> QED
  BY <1>5, <1>6, <1>7 DEF Accounts

\* The updates that leave the timer alone: ALSA asks for the position.
LEMMA AskedAccounts ==
  ASSUME Accounts, Wide, stream = "running", Update, elapsed' = Counted,
         due' = due, clock' = clock, reported' \in 0 .. BufferSize - 1, local' \in Nat,
         Congruent(reported' + local', reported + local, BufferSize)
  PROVE  /\ frac_pos' \in 0 .. frac_buffer_size - 1
         /\ frac_period_rest' \in 0 .. frac_period_size
         /\ elapsed' \in Nat /\ since' \in Nat /\ Exact' /\ InTime'
<1> DEFINE p == PeriodsIn(since * Rate)
           n == (reported + local + elapsed) + p
           m == reported' + local' + elapsed'
<1>1. /\ since' = 0 /\ frac_pos' \in 0 .. frac_buffer_size - 1
      /\ frac_period_rest' \in 1 .. frac_period_size /\ p \in Nat
      /\ At(Reached', frac_pos', frac_period_rest', n)
  BY UpdateExact
<1>2. /\ Numbers /\ local \in Nat /\ clock \in Nat /\ reported \in Nat /\ Rate \in Nat
      /\ frac_buffer_size \in Nat /\ frac_period_size \in Nat /\ BufferSize \in Nat
  BY TypesOfNumbers, Sizes DEF Accounts
<1>3. elapsed' = elapsed + p
  BY DEF Counted
<1> HIDE DEF p
<1>4. n \in Int /\ m \in Int /\ elapsed' \in Nat
  BY <1>1, <1>2, <1>3 DEF Numbers
<1>5. Congruent(m, n, BufferSize)
  <2>0. reported' \in Int
    BY <1>2
  <2>1. Congruent((reported' + local') + elapsed', (reported + local) + elapsed', BufferSize)
    <3>1. /\ reported' + local' \in Int /\ reported + local \in Int
          /\ elapsed' \in Int /\ BufferSize \in Int
      BY <1>2, <1>4, <2>0
    <3> QED
      BY <3>1, CongruentAdd, Zenon
  <2>2. (reported + local) + elapsed' = n
    BY <1>1, <1>2, <1>3 DEF Numbers
  <2> QED
    BY <2>1, <2>2
<1> HIDE DEF n, m
<1>6. Reached' \in Int /\ frac_pos' \in Int /\ frac_period_rest' \in Int
  <2>1. Reached' = clock
    BY <1>1, <1>2 DEF Reached
  <2> QED
    BY <1>1, <1>2, <2>1
<1>7. At(Reached', frac_pos', frac_period_rest', m)
  BY <1>1, <1>4, <1>5, <1>6, AtReported
<1>8. frac_period_rest' > 0 /\ frac_period_rest' \in 0 .. frac_period_size
  BY <1>1, <1>2
<1>9. Rate * (due + since - 1)' < frac_period_rest'
  BY <1>2, UpdateExpiry DEF Accounts, InTime
<1> QED
  BY <1>1, <1>4, <1>7, <1>8, <1>9 DEF Exact, InTime, m

\* The callback's other steps, and the other substream.
LEMMA SoftirqAccounts ==
  ASSUME Accounts, Stopping, Wide, Cpus = 1, Tick \/ TimerStep \/ OtherSubstream
  PROVE  Accounts'
<1>1. CASE Tick
  BY <1>1, TickAccounts
<1>2. CASE CallbackBody
  BY <1>2, CallbackBodyAccounts
<1>3. CASE Expire
  <2>1. /\ UNCHANGED <<stream, dpcm, frac_pos, frac_period_rest, elapsed, since, due, local,
                       buffer_counter, clock, reported>>
        /\ armed' = FALSE /\ cb' = "entered" /\ cb = "off"
    BY <1>3 DEF Expire, acct, ghost
  <2> QED
    BY <2>1 DEF Accounts, Ranges, TypeOK, Exact, InTime, Reached
<1>4. CASE CallbackReport
  <2>1. /\ stream = "running" /\ Update /\ elapsed' = Counted
        /\ due' = due /\ clock' = clock /\ local' = 0 /\ cb' = "off"
        /\ reported' = (reported + local) % BufferSize
        /\ stream' \in {"running", "xrun"} /\ armed' \in {armed, FALSE}
        /\ dpcm' = dpcm /\ buffer_counter' = buffer_counter
    BY <1>4 DEF CallbackReport, Stopping, DelTimer, timer
  <2>2. /\ reported \in Nat /\ local \in Nat /\ BufferSize \in Nat \ {0}
    BY TypesOfNumbers, Sizes DEF Accounts
  <2>3. /\ reported' \in 0 .. BufferSize - 1
        /\ Congruent(reported' + local', reported + local, BufferSize)
    <3>1. reported + local \in Int
      BY <2>2
    <3>2. reported' \in 0 .. BufferSize - 1 /\ reported' \in Int
      BY <2>1, <2>2, <3>1, DivMod
    <3>3. reported' + local' = reported'
      BY <2>1, <3>2
    <3> QED
      BY <2>1, <2>2, <3>1, <3>2, <3>3, ModCongruent
  <2>4. /\ frac_pos' \in 0 .. frac_buffer_size - 1
        /\ frac_period_rest' \in 0 .. frac_period_size
        /\ elapsed' \in Nat /\ since' \in Nat /\ Exact' /\ InTime'
    BY <2>1, <2>3, AskedAccounts
  <2> QED
    BY <2>1, <2>3, <2>4 DEF Accounts, Ranges, TypeOK, Streams
<1>5. CASE OtherSubstream
  <2>1. /\ buffer_counter' \in {0} \cup Copied(OtherHalf, buffer_counter)
        /\ UNCHANGED <<stream, dpcm, frac_pos, frac_period_rest, elapsed, since, due, armed,
                       cb, local, clock, reported>>
    BY <1>5 DEF OtherSubstream, acct, timer, ghost
  <2>2. buffer_counter' \in Nat
    BY <2>1, CopiedNat DEF Accounts, Ranges, TypeOK
  <2> QED
    BY <2>1, <2>2 DEF Accounts, Ranges, TypeOK, Exact, InTime, Reached
<1> QED
  BY <1>1, <1>2, <1>3, <1>4, <1>5 DEF TimerStep

LEMMA PrepareAccounts ==
  ASSUME Accounts, Cpus = 1, Prepare
  PROVE  Accounts'
<1>1. /\ frac_buffer_size \in Nat \ {0} /\ frac_period_size \in Nat \ {0}
      /\ Cycle \in Nat \ {0} /\ BufferSize \in Nat \ {0} /\ Rate \in Nat
  BY Sizes
<1>2. /\ stream' = "prepared" /\ frac_pos' = 0 /\ frac_period_rest' = frac_period_size
      /\ elapsed' = 0 /\ clock' = 0 /\ since' = 0 /\ reported' = 0 /\ cb = "off"
      /\ UNCHANGED <<dpcm, due, armed, cb, local, buffer_counter>>
  BY RateAssumption DEF Prepare, ElapsedReset, UserRuns, timer, call
<1>3. local = 0
  BY <1>2 DEF Accounts, Ranges
<1>4. At(0, 0, frac_period_size, 0)
  <2>1. 0 = 0 + 0 * frac_buffer_size /\ 0 = 0 + 0 * BufferSize
    BY <1>1
  <2>2. Congruent(0, 0, frac_buffer_size) /\ Congruent(0, 0, BufferSize)
    BY <2>1 DEF Congruent
  <2>3. 0 + frac_period_size = (0 + 1) * frac_period_size
    BY <1>1
  <2> QED
    BY <2>2, <2>3 DEF At
<1>5. Reached' = 0 /\ reported' + local' + elapsed' = 0
  BY <1>1, <1>2, <1>3 DEF Reached
<1>6. /\ 0 \in 0 .. frac_buffer_size - 1 /\ frac_period_size \in 0 .. frac_period_size
      /\ 0 \in 0 .. Cycle - 1 /\ 0 \in 0 .. BufferSize - 1 /\ frac_period_size > 0
  BY <1>1
<1>7. Ranges'
  BY <1>2, <1>6 DEF Accounts, Ranges, TypeOK, Streams
<1>8. Exact' /\ InTime'
  BY <1>2, <1>4, <1>5, <1>6 DEF Exact, InTime
<1> QED
  BY <1>7, <1>8 DEF Accounts

LEMMA StartAccounts ==
  ASSUME Accounts, Start
  PROVE  Accounts'
<1>1. /\ frac_period_size \in Nat /\ Cycle \in Nat \ {0} /\ Rate \in Nat
  BY Sizes
<1>2. /\ stream \in {"prepared", "suspended"} /\ stream' = "running"
      /\ buffer_counter' = 0 /\ since' = 0 /\ clock' = Reached % Cycle
      /\ Rearm(frac_period_rest)
      /\ UNCHANGED <<dpcm, frac_pos, frac_period_rest, elapsed, cb, local, reported>>
  BY DEF Start, Reached
<1>3. /\ Numbers /\ frac_pos \in Nat /\ frac_period_rest \in Nat /\ local \in Nat
      /\ reported \in Nat /\ Reached \in Int
  BY TypesOfNumbers DEF Accounts
<1>4. /\ frac_period_rest > 0
      /\ At(Reached, frac_pos, frac_period_rest, reported + local + elapsed)
  BY <1>2 DEF Accounts, Exact
<1>5. clock' \in 0 .. Cycle - 1 /\ clock' \in Int /\ Congruent(clock', Reached, Cycle)
  BY <1>1, <1>2, <1>3, DivMod, ModCongruent
<1>6. Reached' = clock'
  BY <1>1, <1>2, <1>5 DEF Reached
<1>7. At(Reached', frac_pos, frac_period_rest, reported + local + elapsed)
  <2>1. reported + local + elapsed \in Int
    BY <1>3 DEF Numbers
  <2> QED
    BY <1>3, <1>4, <1>5, <1>6, <2>1, AtCycle
<1>8. due' \in -MaxLate .. Jiffies(frac_period_size) /\ armed' = TRUE /\ InTime'
  <2>1. frac_period_rest' \in 1 .. frac_period_size
    BY <1>1, <1>2, <1>3, <1>4 DEF Accounts, Ranges, TypeOK
  <2>2. Rearm(frac_period_rest')
    BY <1>2
  <2> QED
    BY <1>2, <2>1, <2>2, RearmAccounts
<1>9. Ranges'
  BY <1>2, <1>5, <1>8 DEF Accounts, Ranges, TypeOK, Streams
<1>10. Exact'
  BY <1>2, <1>4, <1>7 DEF Exact
<1> QED
  BY <1>8, <1>9, <1>10 DEF Accounts

\* The user's calls.
LEMMA CallAccounts ==
  ASSUME Accounts, Wide, Cpus = 1,
         Open \/ HwParams \/ HwFree \/ Prepare \/ Start \/ Stop \/ Pointer \/ Close
  PROVE  Accounts'
<1>1. CASE Open
  <2>1. /\ stream' = "open" /\ dpcm' = "live"
        /\ frac_pos' = 0 /\ frac_period_rest' = 0 /\ elapsed' = 0 /\ since' = 0
        /\ UNCHANGED <<due, armed, cb, local, buffer_counter, clock, reported>>
    BY <1>1 DEF Open, timer, call, ghost
  <2>2. 0 \in 0 .. frac_buffer_size - 1 /\ 0 \in 0 .. frac_period_size
    BY Sizes
  <2> QED
    BY <2>1, <2>2 DEF Accounts, Ranges, TypeOK, Streams, Exact, InTime
<1>2. CASE HwParams \/ HwFree \/ Close
  <2>1. /\ stream' \in {"setup", "open", "closed"} /\ dpcm' \in {"none", "live"}
        /\ UNCHANGED <<frac_pos, frac_period_rest, elapsed, since, due, armed, cb, local,
                       buffer_counter, clock, reported>>
    BY <1>2 DEF HwParams, HwFree, Close, acct, timer, call, ghost, Accounts, Ranges, TypeOK
  <2> QED
    BY <2>1 DEF Accounts, Ranges, TypeOK, Streams, Exact, InTime
<1>3. CASE Prepare
  BY <1>3, PrepareAccounts
<1>4. CASE Start
  BY <1>4, StartAccounts
<1>5. CASE Stop
  <2>1. /\ stream = "running" /\ stream' \in {"setup", "suspended"} /\ armed' = FALSE
        /\ UNCHANGED <<dpcm, frac_pos, frac_period_rest, elapsed, since, due, cb, local,
                       buffer_counter, clock, reported>>
    BY <1>5 DEF Stop, DelTimer, acct, call, ghost
  <2> QED
    BY <2>1 DEF Accounts, Ranges, TypeOK, Streams, Exact, InTime, Reached
<1>6. CASE Pointer
  <2>1. /\ stream = "running" /\ Update /\ elapsed' = Counted
        /\ UNCHANGED <<stream, dpcm, due, armed, cb, local, buffer_counter, clock, reported>>
    BY <1>6 DEF Pointer, timer, call, ghost
  <2>2. /\ reported \in Nat /\ local \in Nat /\ BufferSize \in Nat
        /\ reported \in 0 .. BufferSize - 1
    BY TypesOfNumbers, Sizes DEF Accounts, Ranges, TypeOK
  <2>3. Congruent(reported' + local', reported + local, BufferSize)
    <3>1. reported + local = (reported + local) + 0 * BufferSize
      BY <2>2
    <3> QED
      BY <2>1, <3>1 DEF Congruent
  <2>4. /\ frac_pos' \in 0 .. frac_buffer_size - 1
        /\ frac_period_rest' \in 0 .. frac_period_size
        /\ elapsed' \in Nat /\ since' \in Nat /\ Exact' /\ InTime'
    BY <2>1, <2>2, <2>3, AskedAccounts
  <2> QED
    BY <2>1, <2>4 DEF Accounts, Ranges, TypeOK, Streams
<1> QED
  BY <1>1, <1>2, <1>3, <1>4, <1>5, <1>6

\* What the accounts say when the ghost clock is read modulo Cycle.
LEMMA AccountsExact ==
  ASSUME Accounts, stream \in {"running", "suspended"}
  PROVE  /\ frac_pos = Played % frac_buffer_size
         /\ frac_period_rest > 0
         /\ (Played + frac_period_rest) % frac_period_size = 0
         /\ (reported + local + elapsed) % BufferSize = Played \div frac_period_size
<1> DEFINE FP == frac_period_size
           n == reported + local + elapsed
<1>1. /\ FP \in Nat \ {0} /\ frac_buffer_size \in Nat \ {0} /\ Cycle \in Nat \ {0}
      /\ BufferSize \in Nat \ {0} /\ Cycle = BufferSize * FP
  BY Sizes
<1>2. /\ frac_pos \in Int /\ frac_period_rest \in Int /\ Reached \in Int /\ n \in Int
  BY TypesOfNumbers DEF Accounts, Numbers
<1>3. /\ frac_period_rest \in 1 .. FP /\ frac_pos \in 0 .. frac_buffer_size - 1
      /\ At(Reached, frac_pos, frac_period_rest, n)
  BY <1>1, <1>2 DEF Accounts, Exact, Ranges, TypeOK
<1>4. /\ Played = Reached % Cycle /\ Played \in 0 .. Cycle - 1 /\ Played \in Int
      /\ Congruent(Played, Reached, Cycle)
  <2>1. Played = Reached % Cycle
    BY DEF Played, Reached
  <2> QED
    BY <1>1, <1>2, <2>1, DivMod, ModCongruent
<1> HIDE DEF n
<1>5. At(Played, frac_pos, frac_period_rest, n)
  BY <1>2, <1>3, <1>4, AtCycle
<1>6. PICK j \in Int : Played + frac_period_rest = (j + 1) * FP /\ Congruent(n, j, BufferSize)
  BY <1>5 DEF At
<1>7. Played % frac_buffer_size = frac_pos
  BY <1>1, <1>3, <1>4, <1>5, CongruentMod DEF At
<1> HIDE DEF FP
<1>8. (Played + frac_period_rest) % FP = 0
  <2>1. Played + frac_period_rest = 0 + (j + 1) * FP
    BY <1>1, <1>6
  <2>2. 0 \in 0 .. FP - 1 /\ j + 1 \in Int /\ Played + frac_period_rest \in Int
    BY <1>1, <1>2, <1>4
  <2> QED
    BY <1>1, <2>1, <2>2, DivUnique
<1>9. Played = (FP - frac_period_rest) + j * FP /\ j * FP \in Int
  <2>1. (j + 1) * FP = j * FP + FP /\ j * FP \in Int
    BY <1>1
  <2> QED
    BY <1>1, <1>2, <1>4, <1>6, <2>1
<1>10. Played \div FP = j
  <2>1. FP - frac_period_rest \in 0 .. FP - 1
    BY <1>1, <1>3
  <2> QED
    BY <1>1, <1>4, <1>9, <2>1, DivUnique
<1>11. j \in 0 .. BufferSize - 1
  <2>1. j >= 0
    <3>1. ASSUME j <= -1 PROVE j * FP <= -FP
      BY <1>1, <3>1
    <3> QED
      BY <1>1, <1>3, <1>4, <1>9, <3>1
  <2>2. j < BufferSize
    <3>1. ASSUME j >= BufferSize PROVE j * FP >= BufferSize * FP
      BY <1>1, <3>1
    <3>2. BufferSize * FP \in Int
      BY <1>1
    <3> QED
      BY <1>1, <1>3, <1>4, <1>9, <3>1, <3>2
  <2> QED
    BY <1>1, <2>1, <2>2
<1>12. n % BufferSize = j
  BY <1>1, <1>2, <1>6, <1>11, CongruentMod
<1>13. frac_period_rest > 0
  BY <1>1, <1>3
<1> QED
  BY <1>7, <1>8, <1>10, <1>12, <1>13 DEF FP, n

LEMMA AccountsInvariance ==
  ASSUME Cpus = 1, Wide
  PROVE  Spec => []Accounts
<1>1. Accounts /\ Stopping /\ [Next]_vars => Accounts'
  <2> SUFFICES ASSUME Accounts, Stopping, [Next]_vars PROVE Accounts'
    OBVIOUS
  <2>1. CASE UNCHANGED vars
    BY <2>1 DEF vars, acct, timer, call, ghost, Accounts, Ranges, TypeOK, Exact, InTime,
                Reached
  <2>2. CASE Next
    BY <2>2, SoftirqAccounts, CallAccounts DEF Next
  <2> QED
    BY <2>1, <2>2
<1>2. Stopping /\ [Next]_vars => Stopping'
  BY StepStopping
<1> QED
  BY InitAccounts, InitStopping, <1>1, <1>2, PTL DEF Spec

\* On one processor, and if frac_pos holds one buffer, one period and what is
\* played in the longest delay, every variable keeps its type, and position and
\* rest their ranges.
THEOREM TypeCorrect ==
  ASSUME Cpus = 1, Wide
  PROVE  Spec => []TypeOK
<1>1. Accounts => TypeOK
  BY DEF Accounts, Ranges
<1> QED
  BY <1>1, AccountsInvariance, PTL

\* Under the same assumption, for every rate, HZ, period and buffer, whoever
\* makes the updates and wherever a suspend comes between, the position is the
\* number of samples played modulo the buffer, and the rest leads to a period
\* boundary.
THEOREM PositionIsExact ==
  ASSUME Cpus = 1, Wide
  PROVE  Spec => []PositionExact
<1>1. Accounts => PositionExact
  BY AccountsExact DEF PositionExact
<1> QED
  BY <1>1, AccountsInvariance, PTL

\* And every period boundary that has been passed is counted once: reported,
\* about to be, or in elapsed.
THEOREM PeriodsAreCounted ==
  ASSUME Cpus = 1, Wide
  PROVE  Spec => []NoPeriodLost
<1>1. Accounts => NoPeriodLost
  BY AccountsExact DEF NoPeriodLost
<1> QED
  BY <1>1, AccountsInvariance, PTL
-----------------------------------------------------------------------------

(***************************************************************************)
(* The place in the music.                                                 *)
(***************************************************************************)

\* The case that the property is about, and what holds in it.
Matching == Cpus = 1 /\ HalfBuffer = OtherHalf /\ MusicLength % HalfBuffer = 0

CopyPlace ==
  Matching => buffer_counter \in Nat /\ HalfBuffer * buffer_counter <= MusicLength

\* Whole copies that have not reached the end of the music leave room for one.
LEMMA CopiedPlace ==
  ASSUME Matching, NEW n \in Nat, HalfBuffer * n <= MusicLength,
         NEW m \in Copied(HalfBuffer, n)
  PROVE  m \in Nat /\ HalfBuffer * m <= MusicLength
<1> DEFINE q == MusicLength \div HalfBuffer
<1>1. HalfBuffer \in Nat \ {0} /\ MusicLength \in Nat \ {0}
  BY RateAssumption
<1>2. q \in Int /\ MusicLength = HalfBuffer * q
  <2>1. MusicLength = HalfBuffer * q + (MusicLength % HalfBuffer) /\ q \in Int
    BY <1>1, DivMod
  <2>2. MusicLength % HalfBuffer = 0
    BY DEF Matching
  <2> QED
    BY <1>1, <2>1, <2>2
<1> HIDE DEF q
<1>3. m = IF HalfBuffer * n = MusicLength THEN 0 ELSE n + 1
  BY RateAssumption DEF Copied, AtEnd, Matching
<1>4. CASE HalfBuffer * n = MusicLength
  BY <1>1, <1>3, <1>4
<1>5. CASE HalfBuffer * n # MusicLength
  <2>1. n < q
    <3>1. ASSUME q <= n PROVE HalfBuffer * q <= HalfBuffer * n
      BY <1>1, <1>2, <3>1
    <3>2. HalfBuffer * n \in Int
      BY <1>1
    <3> QED
      BY <1>1, <1>2, <1>5, <3>1, <3>2
  <2>2. ASSUME n + 1 <= q PROVE HalfBuffer * (n + 1) <= HalfBuffer * q
    BY <1>1, <1>2, <2>2
  <2> QED
    BY <1>2, <1>3, <1>5, <2>1, <2>2
<1> QED
  BY <1>4, <1>5

\* Whatever the music's length and the buffers' sizes, the callbacks copy from
\* inside the music if one processor runs both, the buffers have one size, and
\* half of it divides the music.
THEOREM CopyStaysInMusic == Spec => []CopyStartsInMusic
<1>1. /\ HalfBuffer \in Nat \ {0} /\ MusicLength \in Nat \ {0} /\ MusicTail \in Nat \ {0}
  BY RateAssumption
<1>2. HalfBuffer * 0 <= MusicLength
  BY <1>1
<1>3. Init => CopyPlace
  BY <1>2 DEF Init, CopyPlace
<1>4. CopyPlace /\ [Next]_vars => CopyPlace'
  <2> SUFFICES ASSUME CopyPlace, [Next]_vars, Matching
               PROVE  buffer_counter' \in Nat /\ HalfBuffer * buffer_counter' <= MusicLength
    BY DEF CopyPlace
  <2>1. buffer_counter \in Nat /\ HalfBuffer * buffer_counter <= MusicLength
    BY DEF CopyPlace
  <2>2. buffer_counter' \in {buffer_counter, 0} \cup Copied(HalfBuffer, buffer_counter)
    BY DEF Next, vars, call, Tick, TimerStep, Expire, CallbackBody, CallbackReport,
           OtherSubstream, Open, HwParams, HwFree, Prepare, Start, Stop, Pointer, Close,
           Matching
  <2> QED
    BY <1>2, <2>1, <2>2, CopiedPlace
<1>5. CopyPlace => CopyStartsInMusic
  <2> SUFFICES ASSUME CopyPlace, Matching
               PROVE  HalfBuffer * buffer_counter \in music
    BY DEF CopyStartsInMusic, Matching
  <2>1. buffer_counter \in Nat /\ HalfBuffer * buffer_counter <= MusicLength
    BY DEF CopyPlace
  <2>2. HalfBuffer * buffer_counter \in Nat
    BY <1>1, <2>1
  <2> QED
    BY <1>1, <2>1, <2>2 DEF music
<1> QED
  BY <1>3, <1>4, <1>5, PTL DEF Spec
=============================================================================
