------------------------------ MODULE Nunchuck ------------------------------
(***************************************************************************)
(* The nunchuck driver, an I2C driver whose input device is polled by a    *)
(* work item while a file is open.  Its resources are managed by the       *)
(* driver core (devm), which gives them back in reverse order when probe   *)
(* has failed or remove has returned.                                      *)
(*                                                                         *)
(* pdev is the I2C client, which counts as added while the driver, that is *)
(* offered it, is registered.  held may contain "polldev", "data" (struct  *)
(* nunchuck_data) and "node" (the input device is registered).             *)
(***************************************************************************)
EXTENDS PlatformModule

VARIABLE poll    \* the work item: "off", "queued" or "running"

I2c == {"nunchuck"}

\* module_i2c_driver: a client that is there is probed at once.
NunchuckInit ==
  /\ driver \in I2c /\ module = "unloaded"
  /\ \E fail \in Failing({"i2c_register_driver"}) :
       IF fail = "none"
       THEN module' = "loading" /\ pdrv' = TRUE /\ pdev' = "added" /\ bound' = "probing"
       ELSE UNCHANGED <<modVars, bound>>
  /\ UNCHANGED <<driver, held, lost, file, poll>>

\* A transfer that fails ends the probe if it is one of the two that wake the
\* controller up, and is not noticed if it is one of the two readings.
NunchuckProbe ==
  /\ driver \in I2c /\ bound = "probing"
  /\ \E fail \in Failing({"i2c_master_send", "i2c_master_recv",
                          "input_register_polled_device"}) :
       IF fail \in {"none", "i2c_master_recv"}
       THEN bound' = "bound" /\ held' = {"polldev", "data", "node"}
       ELSE bound' = "unbound" /\ UNCHANGED held
  /\ UNCHANGED <<driver, modVars, lost, file, poll>>

\* The first file starts the polling.  It holds no reference to the module.
NunchuckOpen(f) ==
  /\ driver \in I2c /\ "node" \in held /\ ~Open(f)
  /\ file' = [file EXCEPT ![f] = "open"]
  /\ poll' = IF poll = "off" THEN "queued" ELSE poll
  /\ UNCHANGED <<driver, modVars, bindVars>>

\* mutant: the work item is cancelled without waiting for it
CancelNoWait == poll' = IF poll = "queued" THEN "off" ELSE poll

\* cancel_delayed_work_sync
CancelSync == poll # "running" /\ poll' = "off"

\* The last file of a device that is still there stops it.
NunchuckClose(f) ==
  /\ driver \in I2c /\ Open(f)
  /\ file' = [file EXCEPT ![f] = "closed"]
  /\ IF \E g \in Files \ {f} : Open(g) THEN UNCHANGED poll
                                       ELSE CancelSync
  /\ UNCHANGED <<driver, modVars, bindVars>>

\* nunchuck_poll, which sleeps twice and reads six bytes, and what it is called
\* from: the work item, which queues itself again.
PollBegin ==
  /\ poll = "queued" /\ poll' = "running"
  /\ UNCHANGED platVars

PollEnd ==
  /\ poll = "running" /\ poll' = "queued"
  /\ UNCHANGED platVars

\* nunchuck_remove does nothing.  After it the input device is unregistered,
\* which ends the polling, whatever files are open, ...
NunchuckUnregister ==
  /\ driver \in I2c /\ bound = "removing" /\ "node" \in held
  /\ CancelSync
  /\ held' = held \ {"node"}
  /\ UNCHANGED <<driver, modVars, bound, lost, file>>

\* ... and the structs are freed.
NunchuckFree ==
  /\ driver \in I2c /\ bound = "removing" /\ "node" \notin held
  /\ held' = {} /\ bound' = "unbound"
  /\ UNCHANGED <<driver, modVars, lost, file, poll>>

NunchuckRemove == NunchuckUnregister \/ NunchuckFree
NunchuckFileStep(f) == NunchuckOpen(f) \/ NunchuckClose(f)
PollStep == PollBegin \/ PollEnd
=============================================================================
