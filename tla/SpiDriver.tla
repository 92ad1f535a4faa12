----------------------------- MODULE SpiDriver -----------------------------
(***************************************************************************)
(* The whole SPI character driver: SpiDevice composed with the data path,  *)
(* omap3_spi_write and omap3_spi_read.  Each open file carries at most one *)
(* call at a time; a program counter says where that call is.  A step ends *)
(* wherever another task can run: before each mutex_lock, between locking  *)
(* and unlocking, and between the copies made under a lock.                *)
(***************************************************************************)
EXTENDS SpiDevice

CONSTANTS
  ChipSelect,  \* spi->chip_select of each device
  Msgs,        \* messages a user writes: records [cs, ndb, group, id]
  BufLen       \* length of read_buffer, cut down from BUFSIZE

\* A buffer of zeros, read as a message.
Zero == [cs |-> 0, ndb |-> 0, group |-> 0, id |-> 0]

ASSUME ChipSelectAssumption == ChipSelect \in [Devs -> 0 .. 3]
ASSUME MsgsAssumption ==
  /\ BufLen \in Nat
  /\ \A m \in Msgs : /\ m \in [cs : 0 .. 3, ndb : Nat, group : Nat, id : Nat]
                     /\ m.ndb + m.group <= BufLen

VARIABLES
  pc,          \* where the call running on each file is
  lspi,        \* write's local spi
  msg,         \* the user's buffer
  params,      \* write's local params
  pos,         \* write_msg's loop variable i
  temp_buf,    \* the message the chunk in temp_buf was copied from
  buf_lock,    \* holder of spidrv->buf_lock, per struct, or NULL
  contents,    \* the message in spidrv->buffer, per struct
  read_lock,   \* holder of read_lock, or NULL
  read_buffer, \* per index: the message whose reply is there, or Zero
  last_len

callVars == <<lspi, msg, params, pos, temp_buf>>
bufVars  == <<buf_lock, contents>>
readVars == <<read_lock, read_buffer, last_len>>
ioVars   == <<pc, callVars, bufVars, readVars>>
vars     == <<devVars, ioVars>>

Indices == 0 .. BufLen - 1

\* the part of write that holds buf_lock; the parts that hold read_lock
Writing == {"copy", "parse", "chunk", "xfer", "sync", "done"}
Reading == {"sync", "rcopy"}
Pcs == {"idle", "lock", "fault", "rlock", "rcopy", "hung"} \cup Writing

At(f, a) == pc[f] = a
Goto(f, a) == pc' = [pc EXCEPT ![f] = a]
Mine(f) == priv[f]  \* spidrv, in the calls on f

(***************************************************************************)
(* omap3_spi_write.                                                        *)
(***************************************************************************)

\* spidrv->spi is read before buf_lock is taken, and without spi_lock.
WriteStart(f, m) ==
  /\ At(f, "idle") /\ priv[f] # NULL
  /\ Goto(f, "lock")
  /\ lspi' = [lspi EXCEPT ![f] = spi[Mine(f)]]
  /\ msg' = [msg EXCEPT ![f] = m]
  /\ UNCHANGED <<params, pos, temp_buf, bufVars, readVars>>

\* mutant: write does not wait for buf_lock
NoWait(s) == TRUE

BufFree(s) == buf_lock[s] = NULL

\* mutex_lock, memset
WriteLock(f) ==
  /\ At(f, "lock") /\ BufFree(Mine(f))
  /\ buf_lock' = [buf_lock EXCEPT ![Mine(f)] = f]
  /\ contents' = [contents EXCEPT ![Mine(f)] = Zero]
  /\ Goto(f, "copy")
  /\ UNCHANGED <<callVars, readVars>>

\* copy_from_user; when it fails the error path unlocks ...
WriteCopy(f) ==
  /\ At(f, "copy")
  /\ \/ /\ contents' = [contents EXCEPT ![Mine(f)] = msg[f]]
        /\ Goto(f, "parse")
        /\ UNCHANGED buf_lock
     \/ /\ "efault" \in Env
        /\ buf_lock' = [buf_lock EXCEPT ![Mine(f)] = NULL]
        /\ Goto(f, "fault")
        /\ UNCHANGED contents
  /\ UNCHANGED <<callVars, readVars>>

\* ... and falls through to the common mutex_unlock, which frees the lock
\* whoever holds it by then.
WriteFault(f) ==
  /\ At(f, "fault")
  /\ buf_lock' = [buf_lock EXCEPT ![Mine(f)] = NULL]
  /\ Goto(f, "idle")
  /\ UNCHANGED <<callVars, contents, readVars>>

\* mutant: bytes 7 and 8 of the header change places
FieldsSwapped(m) == [m EXCEPT !.ndb = m.group, !.group = m.ndb]

\* params, as parse_msg fills it from the buffer
Parsed(m) == m

\* mutants: the error return keeps the lock; last_len is set from group_by
KeepLock(s) == buf_lock
GroupLength(p) == p.group

Unlock(s) == [buf_lock EXCEPT ![s] = NULL]
MsgLength(p) == p.ndb

\* parse_msg and the head of write_msg.  A NULL spi, or no memory for
\* temp_buf, ends the task where it stands, holding buf_lock.
WriteParse(f) ==
  LET p == Parsed(contents[Mine(f)])
  IN /\ At(f, "parse")
     /\ \/ /\ lspi[f] = NULL
           /\ Goto(f, "hung")
           /\ UNCHANGED <<params, pos, buf_lock, last_len>>
        \/ /\ lspi[f] # NULL /\ p.cs # ChipSelect[lspi[f]]
           /\ buf_lock' = Unlock(Mine(f))
           /\ Goto(f, "idle")
           /\ UNCHANGED <<params, pos, last_len>>
        \/ /\ lspi[f] # NULL /\ p.cs = ChipSelect[lspi[f]]
           /\ params' = [params EXCEPT ![f] = p]
           /\ pos' = [pos EXCEPT ![f] = 0]
           /\ last_len' = MsgLength(p)
           /\ \/ Goto(f, "chunk")
              \/ "nomem" \in Env /\ p.ndb > 0 /\ p.group > 0 /\ Goto(f, "hung")
           /\ UNCHANGED buf_lock
     /\ UNCHANGED <<lspi, msg, temp_buf, contents, read_lock, read_buffer>>

\* Entries from .. from + n - 1 of read_buffer become v.
Filled(from, n, v) ==
  [i \in Indices |-> IF i \in from .. from + n - 1 THEN v ELSE read_buffer[i]]

\* The loop of write_msg: one more chunk, or done.  transmit_msg clears its
\* part of read_buffer before it takes read_lock.
WriteChunk(f) ==
  LET p == params[f]
  IN /\ At(f, "chunk")
     /\ \/ /\ pos[f] < p.ndb
           /\ temp_buf' = [temp_buf EXCEPT ![f] = contents[Mine(f)]]
           /\ read_buffer' = Filled(pos[f], p.group, Zero)
           /\ Goto(f, "xfer")
        \/ /\ pos[f] >= p.ndb
           /\ Goto(f, "done")
           /\ UNCHANGED <<temp_buf, read_buffer>>
     /\ UNCHANGED <<lspi, msg, params, pos, bufVars, read_lock, last_len>>

\* mutant: transmit and read do not wait for read_lock
NoReadWait == TRUE

ReadFree == read_lock = NULL

XferLock(f) ==
  /\ At(f, "xfer") /\ ReadFree
  /\ read_lock' = f
  /\ Goto(f, "sync")
  /\ UNCHANGED <<callVars, bufVars, read_buffer, last_len>>

XferLen(p) == IF p.ndb < p.group THEN p.ndb ELSE p.group

\* mutant: the loop does not advance
NoStep(p) == 0

LoopStep(p) == p.group

\* spi_sync: the reply to the chunk in temp_buf arrives.
XferSync(f) ==
  LET p == params[f]
  IN /\ At(f, "sync")
     /\ \/ read_buffer' = Filled(pos[f], XferLen(p), temp_buf[f])
        \/ "sync" \in Env /\ UNCHANGED read_buffer
     /\ read_lock' = NULL
     /\ pos' = [pos EXCEPT ![f] = @ + LoopStep(p)]
     /\ Goto(f, "chunk")
     /\ UNCHANGED <<lspi, msg, params, temp_buf, bufVars, last_len>>

WriteDone(f) ==
  /\ At(f, "done")
  /\ buf_lock' = [buf_lock EXCEPT ![Mine(f)] = NULL]
  /\ Goto(f, "idle")
  /\ UNCHANGED <<callVars, contents, readVars>>

(***************************************************************************)
(* omap3_spi_read: one read_buffer and one last_len for all devices.       *)
(***************************************************************************)

ReadStart(f) ==
  /\ At(f, "idle") /\ priv[f] # NULL
  /\ Goto(f, "rlock")
  /\ UNCHANGED <<callVars, bufVars, readVars>>

ReadLock(f) ==
  /\ At(f, "rlock") /\ ReadFree
  /\ read_lock' = f
  /\ Goto(f, "rcopy")
  /\ UNCHANGED <<callVars, bufVars, read_buffer, last_len>>

\* copy_to_user, whether it fails or not, and mutex_unlock on both paths.
ReadCopy(f) ==
  /\ At(f, "rcopy")
  /\ read_lock' = NULL
  /\ Goto(f, "idle")
  /\ UNCHANGED <<callVars, bufVars, read_buffer, last_len>>

(***************************************************************************)
(* The device side.  Probe initialises the new struct's buf_lock, and the  *)
(* read_lock all devices share.  The VFS calls release once no call runs:  *)
(* a task that dies in a call closes its files, but its locks stay locked. *)
(***************************************************************************)

\* mutex_init(&read_lock), unless the probe died before it
ReadLockAfterProbe(d) == IF dev'[d] = "dead" THEN read_lock ELSE NULL

DriverProbe(d) ==
  /\ Probe(d)
  /\ "hotplug" \in Env \/ \A f \in Files : priv[f] = NULL
  /\ read_lock' = ReadLockAfterProbe(d)
  /\ buf_lock' = [s \in Structs |-> IF mem[s] = "free" THEN NULL ELSE buf_lock[s]]
  /\ UNCHANGED <<pc, callVars, contents, read_buffer, last_len>>

\* A freshly loaded module has fresh static data.
DriverLoad ==
  /\ InitChrdev
  /\ read_lock' = NULL
  /\ read_buffer' = [i \in Indices |-> Zero]
  /\ last_len' = 0
  /\ UNCHANGED <<pc, callVars, bufVars>>

DriverModuleStep ==
  \/ DriverLoad
  \/ (InitClass \/ InitDriver \/ ExitDriver \/ ExitFinish) /\ UNCHANGED ioVars

\* "hung" stays: the dead task's file is not opened again.
DriverOpen(f) == At(f, "idle") /\ (\E m \in Minors : Open(f, m)) /\ UNCHANGED ioVars
DriverRelease(f) == pc[f] \in {"idle", "hung"} /\ Release(f) /\ UNCHANGED ioVars

-----------------------------------------------------------------------------

DriverInit ==
  /\ Init
  /\ pc = [f \in Files |-> "idle"]
  /\ lspi = [f \in Files |-> NULL]
  /\ msg = [f \in Files |-> Zero]
  /\ params = [f \in Files |-> Zero]
  /\ pos = [f \in Files |-> 0]
  /\ temp_buf = [f \in Files |-> Zero]
  /\ buf_lock = [s \in Structs |-> NULL]
  /\ contents = [s \in Structs |-> Zero]
  /\ read_lock = NULL
  /\ read_buffer = [i \in Indices |-> Zero]
  /\ last_len = 0

\* The calls' own steps, once begun: those that wait for a lock, and the rest.
LockStep(f) == WriteLock(f) \/ XferLock(f) \/ ReadLock(f)

RunStep(f) ==
  \/ WriteCopy(f) \/ WriteFault(f) \/ WriteParse(f) \/ WriteChunk(f)
  \/ XferSync(f) \/ WriteDone(f) \/ ReadCopy(f)

IoStep(f) ==
  \/ \E m \in Msgs : WriteStart(f, m)
  \/ ReadStart(f)
  \/ LockStep(f)
  \/ RunStep(f)

DriverNext ==
  \/ DriverModuleStep
  \/ \E d \in Devs : \/ DriverProbe(d)
                     \/ (RemoveClear(d) \/ RemoveUnlink(d)) /\ UNCHANGED ioVars
  \/ \E f \in Files : \/ DriverOpen(f) \/ DriverRelease(f)
                      \/ IoStep(f) /\ UNCHANGED devVars

DriverSpec == DriverInit /\ [][DriverNext]_vars

\* A call that runs goes on running (the SPI controller answers), and mutexes
\* serve their waiters in turn.  No user is obliged to make a call.
DriverFairness ==
  \A f \in Files : /\ WF_vars(RunStep(f) /\ UNCHANGED devVars)
                   /\ SF_vars(LockStep(f) /\ UNCHANGED devVars)

FairDriverSpec == DriverSpec /\ Fairness /\ DriverFairness

-----------------------------------------------------------------------------

(***************************************************************************)
(* Properties.                                                             *)
(***************************************************************************)

\* Every variable has its type.
DriverTypeOK ==
  /\ pc \in [Files -> Pcs]
  /\ lspi \in [Files -> Devs \cup {NULL}]
  /\ msg \in [Files -> Msgs \cup {Zero}]
  /\ params \in [Files -> Msgs \cup {Zero}]
  /\ pos \in [Files -> 0 .. BufLen]
  /\ temp_buf \in [Files -> Msgs \cup {Zero}]
  /\ buf_lock \in [Structs -> Files \cup {NULL}]
  /\ contents \in [Structs -> Msgs \cup {Zero}]
  /\ read_lock \in Files \cup {NULL}
  /\ read_buffer \in [Indices -> Msgs \cup {Zero}]
  /\ last_len \in Nat

\* Concurrent writers do not mix: from copy_from_user to the last chunk,
\* spidrv->buffer holds the message of the one writer that uses it.
BufferStable ==
  \A f \in Files :
    pc[f] \in Writing \ {"copy"} => /\ contents[Mine(f)] = msg[f]
                                   /\ buf_lock[Mine(f)] = f

\* No return path keeps a lock: who holds one is inside its section, or died
\* there.
LocksHeld ==
  /\ \A s \in Structs : buf_lock[s] # NULL =>
       \/ pc[buf_lock[s]] \in Writing /\ priv[buf_lock[s]] = s
       \/ pc[buf_lock[s]] = "hung"
  /\ read_lock # NULL => pc[read_lock] \in Reading

\* read_lock is a lock: at most one task uses read_buffer under it.
ReadLockExclusive ==
  \A f, g \in Files : pc[f] \in Reading /\ pc[g] \in Reading => f = g

\* A message is sent to a device only while the driver is bound to it, and
\* through the struct of that device.
SyncBound ==
  \A f \in Files : pc[f] \in {"xfer", "sync"} =>
    lspi[f] # NULL /\ dev[lspi[f]] = "bound" /\ drvdata[lspi[f]] = Mine(f)

\* Between writes on a single device, which is not probed anew while a write on
\* it is under way, what read returns (last_len entries of read_buffer) is the
\* whole reply to one message and to no other.
QuietReply ==
  (\A f \in Files : pc[f] \notin {"chunk", "xfer", "sync", "hung"}) /\ last_len > 0
    => \E m \in Msgs : /\ m.ndb = last_len
                      /\ \A i \in 0 .. last_len - 1 : read_buffer[i] = m

\* Every write returns, and gets its locks in turn with the others.
WriteCompletes ==
  \A f \in Files : pc[f] \in Writing \cup {"lock"} ~> pc[f] = "idle"

=============================================================================
