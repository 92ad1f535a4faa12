---------------------------- MODULE StreamTimer ----------------------------
(***************************************************************************)
(* What a sound driver's timer promises the stream it drives, without      *)
(* time, lock or calls in progress: a running stream is never without its  *)
(* timer; a stream is started only when the timer of its last run is       *)
(* gone; the struct is not freed under a callback; and a stop leaves at    *)
(* most one more effect to a callback it did not wait for.  GpioTimer on   *)
(* one processor and SoundGenTimer implement this.                         *)
(***************************************************************************)
VARIABLES
  owner,  \* the struct with the timer in it: "none" or "live"
  run,    \* the stream runs, or is being started
  timer,  \* "idle", "queued", or "firing": its callback has been entered
  more    \* the callback may still report a period or queue the timer again

vars == <<owner, run, timer, more>>

Init == owner = "none" /\ run = FALSE /\ timer = "idle" /\ more = FALSE

Open ==
  /\ owner = "none" /\ timer = "idle"
  /\ owner' = "live"
  /\ UNCHANGED <<run, timer, more>>

Start ==
  /\ owner = "live" /\ ~run /\ timer = "idle"
  /\ run' = TRUE /\ timer' = "queued" /\ more' = TRUE
  /\ UNCHANGED owner

\* Stop takes the timer away, or lets it run out.  A callback that has looked
\* at the stream before may go on.
Stop ==
  /\ run
  /\ run' = FALSE
  /\ timer' \in {timer, "idle"}
  /\ more' \in {FALSE, timer' = "firing"}
  /\ UNCHANGED owner

\* A later call dequeues what stop has left.
Cancel ==
  /\ timer = "queued" /\ ~run
  /\ timer' = "idle"
  /\ UNCHANGED <<owner, run, more>>

Fire ==
  /\ timer = "queued"
  /\ timer' = "firing"
  /\ UNCHANGED <<owner, run, more>>

\* The two effects of a callback.  After a stop it has one of them, once.
Report ==
  /\ timer = "firing" /\ more
  /\ more' = run
  /\ UNCHANGED <<owner, run, timer>>

Rearm ==
  /\ timer = "firing" /\ more
  /\ timer' = "queued" /\ more' = run
  /\ UNCHANGED <<owner, run>>

\* Only after a stop does a callback end without the timer.
Finish ==
  /\ timer = "firing" /\ ~run /\ ~more
  /\ timer' = "idle"
  /\ UNCHANGED <<owner, run, more>>

\* The struct goes, and a queued timer with it.
Close ==
  /\ owner = "live" /\ ~run /\ timer # "firing"
  /\ owner' = "none" /\ timer' = "idle"
  /\ UNCHANGED <<run, more>>

Next ==
  \/ Open \/ Start \/ Stop \/ Cancel \/ Close
  \/ Fire \/ Report \/ Rearm \/ Finish

Spec == Init /\ [][Next]_vars
=============================================================================
