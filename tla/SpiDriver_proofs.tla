-------------------------- MODULE SpiDriver_proofs --------------------------
(***************************************************************************)
(* The locks of the SPI driver, for any number of devices, structs, files  *)
(* and messages, and with the device lifetime below them: what each lock   *)
(* protects, and under which assumption on the environment.  Then the data *)
(* that no lock covers as a whole: the reply that a later read gets.       *)
(* Last, that none of this disturbs the device lifetime.                   *)
(***************************************************************************)
EXTENDS SpiDriver, SpiDevice_proofs

\* Types, and that a call runs on an open file only.
Calls ==
  /\ pc \in [Files -> Pcs]
  /\ lspi \in [Files -> Devs \cup {NULL}]
  /\ msg \in [Files -> Msgs \cup {Zero}]
  /\ buf_lock \in [Structs -> Files \cup {NULL}]
  /\ contents \in [Structs -> Msgs \cup {Zero}]
  /\ read_lock \in Files \cup {NULL}
  /\ \A f \in Files : pc[f] \notin {"idle", "hung"} => priv[f] # NULL

\* Whoever is in a section has its lock: of read_lock, without hotplug, ...
ReadLocked == \A f \in Files : pc[f] \in Reading => read_lock = f

\* ... and of buf_lock, without failing copies.
BufLocked ==
  \A f \in Files :
    /\ pc[f] # "fault"
    /\ pc[f] \in Writing => buf_lock[priv[f]] = f
    /\ pc[f] \in Writing \ {"copy"} => contents[priv[f]] = msg[f]

\* An open file's struct is that of a bound device, and a write has read which,
\* unless devices are unbound under open files.
Attached(f) ==
  LET s == priv[f] IN spi[s] # NULL /\ dev[spi[s]] = "bound" /\ drvdata[spi[s]] = s

FileBound ==
  \A f \in Files : priv[f] # NULL =>
    /\ Attached(f)
    /\ pc[f] \in Writing \cup {"lock"} => lspi[f] = spi[priv[f]]

DInv ==
  /\ IInv /\ Calls /\ LocksHeld
  /\ "hotplug" \notin Env => ReadLocked
  /\ "efault" \notin Env => BufLocked
  /\ "unbind" \notin Env => FileBound

\* Every step of the driver is a step of its device lifetime, or none.
LEMMA DeviceStepOfDriver == DriverNext => [Next]_devVars
BY DEF DriverNext, DriverModuleStep, DriverLoad, DriverProbe, DriverOpen, DriverRelease,
   Next, ModuleStep, DeviceStep, FileStep

\* A file is open only while the module is live; what it holds is allocated.
LEMMA OpenFile ==
  ASSUME IInv, NEW f \in Files, priv[f] # NULL
  PROVE  module = "live" /\ priv[f] \in Structs /\ mem[priv[f]] = "live"
<1>1. module = "live"
  BY DEF IInv, Phases
<1>2. priv[f] \in Structs
  BY DEF IInv, TypeOK
<1>3. f \in Holders(priv[f])
  BY DEF Holders
<1> QED
  BY <1>1, <1>2, <1>3 DEF IInv, NoDangling

\* Nothing runs before the module is loaded.
LEMMA InitDInv == DriverInit => DInv
<1> SUFFICES ASSUME DriverInit PROVE DInv
  OBVIOUS
<1>1. IInv
  BY InitIInv DEF DriverInit
<1>2. Calls
  BY NullAssumption DEF DriverInit, Calls, Pcs
<1>3. LocksHeld
  BY DEF DriverInit, LocksHeld
<1>4. ReadLocked /\ BufLocked
  BY DEF DriverInit, ReadLocked, BufLocked, Reading, Writing
<1>5. FileBound
  BY DEF DriverInit, Init, FileBound
<1> QED
  BY <1>1, <1>2, <1>3, <1>4, <1>5 DEF DInv

-----------------------------------------------------------------------------
(* The device side. *)

\* Loading and unloading: no file is open where it matters.
LEMMA ModuleStepDInv ==
  ASSUME DInv, IInv', DriverModuleStep
  PROVE  DInv'
<1>1. UNCHANGED <<spi, dev, drvdata, priv>>
  BY DEF DriverModuleStep, DriverLoad, InitChrdev, InitClass, InitDriver, ExitDriver,
     ExitFinish, coreVars, objVars
<1>2. CASE UNCHANGED ioVars
  BY <1>1, <1>2 DEF DInv, Calls, LocksHeld, ReadLocked, BufLocked, FileBound, Attached,
     ioVars, callVars, bufVars, readVars
<1>3. CASE DriverLoad
  <2>1. \A f \in Files : priv[f] = NULL /\ pc[f] \in {"idle", "hung"}
    BY <1>3 DEF DriverLoad, InitChrdev, DInv, IInv, Phases, Calls
  <2>2. read_lock' = NULL /\ UNCHANGED <<pc, lspi, msg, buf_lock, contents>>
    BY <1>3 DEF DriverLoad, callVars, bufVars
  <2> QED
    BY <1>1, <2>1, <2>2 DEF DInv, Calls, LocksHeld, ReadLocked, BufLocked, FileBound,
       Attached, Reading, Writing
<1> QED
  BY <1>2, <1>3 DEF DriverModuleStep

\* A probe initialises read_lock, which all share, and the buf_lock of a struct
\* that no file holds.
LEMMA ProbeDInv ==
  ASSUME DInv, IInv', NEW d \in Devs, DriverProbe(d)
  PROVE  DInv'
<1>1. UNCHANGED <<pc, lspi, msg, contents, priv>>
  BY DEF DriverProbe, callVars, Probe, ProbeDevice, ProbeCreateFails, ProbeNoMinor,
     ProbeNoMemory
<1>2. \A f \in Files : priv[f] # NULL => buf_lock'[priv[f]] = buf_lock[priv[f]]
  BY OpenFile DEF DriverProbe, DInv
<1>3. \A s \in Structs : buf_lock'[s] \in {NULL, buf_lock[s]}
  BY DEF DriverProbe
<1>4. buf_lock' \in [Structs -> Files \cup {NULL}]
  BY DEF DriverProbe, DInv, Calls
<1>5. read_lock' \in {read_lock, NULL}
  BY DEF DriverProbe, ReadLockAfterProbe
<1>6. "hotplug" \notin Env => \A f \in Files : pc[f] \in {"idle", "hung"}
  BY DEF DriverProbe, DInv, Calls
<1>7. Calls' /\ LocksHeld'
  BY <1>1, <1>3, <1>4, <1>5 DEF DInv, Calls, LocksHeld
<1>8. "hotplug" \notin Env => ReadLocked'
  BY <1>1, <1>6 DEF ReadLocked, Reading
<1>9. "efault" \notin Env => BufLocked'
  BY <1>1, <1>2 DEF DInv, BufLocked, Calls, Writing
<1>10. "unbind" \notin Env => FileBound'
  <2> SUFFICES ASSUME "unbind" \notin Env, NEW f \in Files, priv[f] # NULL
               PROVE  /\ spi'[priv[f]] = spi[priv[f]] /\ Attached(f)'
    BY <1>1 DEF FileBound, DInv
  <2>1. /\ priv[f] \in Structs /\ mem[priv[f]] = "live" /\ Attached(f)
        /\ spi[priv[f]] \in Devs
    BY OpenFile DEF DInv, FileBound, Attached, IInv, TypeOK
  <2>2. spi'[priv[f]] = spi[priv[f]]
    BY <2>1 DEF DriverProbe, Probe, ProbeDevice, ProbeCreateFails, ProbeNoMinor,
       ProbeNoMemory, Kzalloc, objVars, DInv, IInv, TypeOK
  <2>3. /\ dev[d] = "unbound"
        /\ \A e \in Devs \ {d} : dev'[e] = dev[e] /\ drvdata'[e] = drvdata[e]
    BY DEF DriverProbe, Probe, ProbeDevice, ProbeCreateFails, ProbeNoMinor, ProbeNoMemory,
       CanProbe, coreVars, DInv, IInv, TypeOK
  <2> QED
    BY <1>1, <2>1, <2>2, <2>3 DEF Attached
<1> QED
  BY <1>7, <1>8, <1>9, <1>10 DEF DInv

\* Without "unbind" only a going module removes, and then no file is open.
LEMMA RemoveDInv ==
  ASSUME DInv, IInv', NEW d \in Devs, RemoveClear(d) \/ RemoveUnlink(d), UNCHANGED ioVars
  PROVE  DInv'
<1>1. UNCHANGED <<pc, lspi, msg, buf_lock, contents, read_lock, priv>>
  BY DEF RemoveClear, RemoveUnlink, ioVars, callVars, bufVars, readVars
<1>2. Calls' /\ LocksHeld' /\ (ReadLocked => ReadLocked') /\ (BufLocked => BufLocked')
  BY <1>1 DEF DInv, Calls, LocksHeld, ReadLocked, BufLocked
<1>3. "unbind" \notin Env => \A f \in Files : priv[f] = NULL
  BY DEF RemoveClear, RemoveUnlink, DInv, IInv, Phases, Ownership
<1>4. "unbind" \notin Env => FileBound'
  BY <1>1, <1>3 DEF FileBound
<1> QED
  BY <1>2, <1>4 DEF DInv

\* Open finds a struct on device_list; release ends no call.
LEMMA FileStepDInv ==
  ASSUME DInv, IInv', NEW f \in Files,
         DriverOpen(f) \/ DriverRelease(f)
  PROVE  DInv'
<1>1. UNCHANGED <<pc, lspi, msg, buf_lock, contents, read_lock, spi, dev, drvdata>>
  BY DEF DriverOpen, Open, DriverRelease, Release, ioVars, callVars, bufVars, readVars, coreVars
<1>2. /\ pc[f] \in {"idle", "hung"}
      /\ \A g \in Files \ {f} : priv'[g] = priv[g]
  BY DEF DriverOpen, Open, DriverRelease, Release, At, DInv, Calls, IInv, TypeOK
<1>3. Calls' /\ (ReadLocked => ReadLocked') /\ (BufLocked => BufLocked')
  BY <1>1, <1>2 DEF DInv, Calls, ReadLocked, BufLocked, Writing
<1>4. LocksHeld'
  BY <1>1, <1>2 DEF DInv, Calls, LocksHeld, Writing
<1>5. "unbind" \notin Env => FileBound'
  <2> SUFFICES ASSUME "unbind" \notin Env, priv'[f] # NULL PROVE Attached(f)'
    BY <1>1, <1>2 DEF FileBound, DInv, Attached, Writing
  <2> PICK s \in device_list : priv' = [priv EXCEPT ![f] = s] /\ module = "live"
    BY DEF DriverOpen, Open, DriverRelease, Release, DInv, IInv, TypeOK
  <2> PICK d \in Devs : Owner(d) = s
    BY DEF DInv, IInv, Ownership, Owned
  <2>1. s \in Structs /\ s # NULL /\ priv'[f] = s
    BY NullAssumption DEF DInv, IInv, TypeOK
  <2>2. rm[d] = NULL
    BY DEF DInv, IInv, Phases
  <2>3. dev[d] = "bound" /\ drvdata[d] = s /\ spi[s] = d
    BY <2>1, <2>2 DEF DInv, IInv, Ownership, Owner
  <2> QED
    BY <1>1, <2>1, <2>3, NullAssumption DEF Attached
<1> QED
  BY <1>3, <1>4, <1>5 DEF DInv

-----------------------------------------------------------------------------
(* The calls. *)

\* A step of the call on f moves no other call and touches no other struct.
LEMMA IoFrame ==
  ASSUME DInv, NEW f \in Files, IoStep(f), UNCHANGED devVars
  PROVE  /\ \A g \in Files \ {f} : /\ pc'[g] = pc[g] /\ lspi'[g] = lspi[g]
                                 /\ msg'[g] = msg[g]
         /\ priv' = priv /\ priv[f] \in Structs
         /\ \A s \in Structs \ {priv[f]} : /\ buf_lock'[s] = buf_lock[s]
                                          /\ contents'[s] = contents[s]
         /\ (At(f, "lock") \/ ~At(f, "idle")) => UNCHANGED <<lspi, msg>>
<1>1. priv' = priv
  BY DEF devVars
<1>2. priv[f] \in Structs
  BY DEF DInv, Calls, IoStep, LockStep, RunStep, WriteStart, ReadStart, WriteLock, XferLock,
     ReadLock, WriteCopy, WriteFault, WriteParse, WriteChunk, XferSync, WriteDone, ReadCopy,
     At, IInv, TypeOK
<1>3. \A g \in Files \ {f} : pc'[g] = pc[g]
  BY DEF DInv, Calls, IoStep, LockStep, RunStep, WriteStart, ReadStart, WriteLock, XferLock,
     ReadLock, WriteCopy, WriteFault, WriteParse, WriteChunk, XferSync, WriteDone, ReadCopy,
     Goto
<1>4. \/ UNCHANGED <<lspi, msg>>
      \/ /\ At(f, "idle")
         /\ \A g \in Files \ {f} : lspi'[g] = lspi[g] /\ msg'[g] = msg[g]
  BY DEF DInv, Calls, IoStep, LockStep, RunStep, WriteStart, ReadStart, WriteLock, XferLock,
     ReadLock, WriteCopy, WriteFault, WriteParse, WriteChunk, XferSync, WriteDone, ReadCopy,
     callVars
<1>5. \A s \in Structs \ {priv[f]} : buf_lock'[s] = buf_lock[s] /\ contents'[s] = contents[s]
  BY DEF DInv, Calls, IoStep, LockStep, RunStep, WriteStart, ReadStart, WriteLock, XferLock,
     ReadLock, WriteCopy, WriteFault, WriteParse, WriteChunk, XferSync, WriteDone, ReadCopy,
     bufVars, Mine, Unlock
<1> QED
  BY <1>1, <1>2, <1>3, <1>4, <1>5 DEF At

\* What the step does to f's own place and locks.
LEMMA IoOwn ==
  ASSUME DInv, NEW f \in Files, IoStep(f), UNCHANGED devVars
  PROVE  Calls' /\ LocksHeld'
<1> DEFINE s == priv[f]
<1>1. /\ priv' = priv /\ s \in Structs /\ s # NULL
      /\ \A g \in Files \ {f} : pc'[g] = pc[g]
      /\ \A t \in Structs \ {s} : buf_lock'[t] = buf_lock[t]
  BY IoFrame, NullAssumption
<1>2. Calls'
  BY <1>1, NullAssumption
  DEF DInv, Calls, Pcs, Writing, IoStep, LockStep, RunStep, WriteStart, ReadStart, WriteLock,
      XferLock, ReadLock, WriteCopy, WriteFault, WriteParse, WriteChunk, XferSync, WriteDone,
      ReadCopy, Goto, At, Mine, Unlock, callVars, bufVars, readVars, IInv, TypeOK
<1>3. \A t \in Structs : buf_lock'[t] # NULL =>
        \/ pc'[buf_lock'[t]] \in Writing /\ priv[buf_lock'[t]] = t
        \/ pc'[buf_lock'[t]] = "hung"
  BY <1>1, NullAssumption
  DEF DInv, Calls, LocksHeld, Pcs, Writing, IoStep, LockStep, RunStep, WriteStart, ReadStart,
      WriteLock, XferLock, ReadLock, WriteCopy, WriteFault, WriteParse, WriteChunk, XferSync,
      WriteDone, ReadCopy, Goto, At, Mine, Unlock, callVars, bufVars, readVars
<1>4. read_lock' # NULL => pc'[read_lock'] \in Reading
  BY <1>1, NullAssumption
  DEF DInv, Calls, LocksHeld, Pcs, Reading, IoStep, LockStep, RunStep, WriteStart, ReadStart,
      WriteLock, XferLock, ReadLock, WriteCopy, WriteFault, WriteParse, WriteChunk, XferSync,
      WriteDone, ReadCopy, Goto, At, callVars, bufVars, readVars
<1> QED
  BY <1>1, <1>2, <1>3, <1>4 DEF LocksHeld

\* read_lock: without hotplug nobody resets it under its holder.
LEMMA IoReadLocked ==
  ASSUME DInv, ReadLocked, NEW f \in Files, IoStep(f), UNCHANGED devVars
  PROVE  ReadLocked'
<1>1. \A g \in Files \ {f} : pc'[g] = pc[g]
  BY IoFrame
<1>2. f # NULL
  BY NullAssumption
<1>3. CASE read_lock' = read_lock
  <2>1. pc'[f] \in Reading => pc[f] \in Reading
    BY <1>2, <1>3
    DEF DInv, Calls, LocksHeld, Reading, IoStep, LockStep, RunStep, WriteStart, ReadStart,
        WriteLock, XferLock, ReadLock, ReadFree, WriteCopy, WriteFault, WriteParse, WriteChunk,
        XferSync, WriteDone, ReadCopy, Goto, At
  <2> QED
    BY <1>1, <1>3, <2>1 DEF ReadLocked
<1>4. CASE read_lock' # read_lock
  <2>1. XferLock(f) \/ ReadLock(f) \/ XferSync(f) \/ ReadCopy(f)
    BY <1>4
    DEF IoStep, LockStep, RunStep, WriteStart, ReadStart, WriteLock, WriteCopy, WriteFault,
        WriteParse, WriteChunk, WriteDone, readVars
  <2>2. CASE XferLock(f) \/ ReadLock(f)
    <3>1. read_lock = NULL /\ read_lock' = f
      BY <2>2 DEF XferLock, ReadLock, ReadFree
    <3> QED
      BY <1>1, <1>2, <3>1, NullAssumption DEF ReadLocked
  <2>3. CASE XferSync(f) \/ ReadCopy(f)
    <3>1. pc[f] \in Reading /\ pc'[f] \notin Reading
      BY <2>3 DEF XferSync, ReadCopy, At, Goto, Reading, DInv, Calls
    <3> QED
      BY <1>1, <3>1 DEF ReadLocked
  <2> QED
    BY <2>1, <2>2, <2>3
<1> QED
  BY <1>3, <1>4

\* buf_lock: without failing copies, who is in the section keeps it, and the
\* buffer with it.
LEMMA IoBufLocked ==
  ASSUME DInv, BufLocked, "efault" \notin Env, NEW f \in Files, IoStep(f), UNCHANGED devVars
  PROVE  BufLocked'
<1> DEFINE s == priv[f]
<1>1. /\ priv' = priv /\ s \in Structs /\ s # NULL /\ f # NULL
      /\ \A g \in Files \ {f} : pc'[g] = pc[g] /\ msg'[g] = msg[g]
      /\ \A t \in Structs \ {s} : buf_lock'[t] = buf_lock[t] /\ contents'[t] = contents[t]
      /\ ~At(f, "idle") => msg' = msg
  BY IoFrame, NullAssumption
<1>2. \A g \in Files : pc[g] \in Writing => priv[g] \in Structs
  BY DEF DInv, Calls, Writing, IInv, TypeOK
<1>3. \/ buf_lock'[s] = buf_lock[s] /\ contents'[s] = contents[s]
      \/ pc[f] \in Writing
      \/ WriteLock(f)
  BY <1>1
  DEF DInv, BufLocked, Writing, IoStep, LockStep, RunStep, WriteStart, ReadStart, XferLock,
      ReadLock, WriteCopy, WriteFault, WriteParse, WriteChunk, XferSync, WriteDone, ReadCopy,
      At, bufVars
<1>4. ASSUME NEW g \in Files \ {f}
      PROVE  /\ pc'[g] # "fault"
             /\ pc'[g] \in Writing => buf_lock'[priv'[g]] = g
             /\ pc'[g] \in Writing \ {"copy"} => contents'[priv'[g]] = msg'[g]
  <2>1. CASE pc[g] \notin Writing \/ priv[g] # s
    BY <1>1, <1>2, <2>1 DEF BufLocked
  <2>2. CASE pc[g] \in Writing /\ priv[g] = s
    <3>1. buf_lock[s] = g
      BY <2>2 DEF BufLocked
    <3>2. pc[f] \notin Writing /\ ~WriteLock(f)
      BY <1>1, <3>1, NullAssumption DEF BufLocked, WriteLock, BufFree, Mine
    <3> QED
      BY <1>1, <1>3, <2>2, <3>2 DEF BufLocked
  <2> QED
    BY <2>1, <2>2
<1>5. /\ pc'[f] # "fault"
      /\ pc'[f] \in Writing => buf_lock'[s] = f
      /\ pc'[f] \in Writing \ {"copy"} => contents'[s] = msg'[f]
  BY <1>1
  DEF DInv, Calls, BufLocked, Writing, IoStep, LockStep, RunStep, WriteStart, ReadStart,
      WriteLock, XferLock, ReadLock, WriteCopy, WriteFault, WriteParse, WriteChunk, XferSync,
      WriteDone, ReadCopy, Goto, At, Mine, bufVars, callVars
<1> QED
  BY <1>1, <1>4, <1>5 DEF BufLocked

\* A write reads spidrv->spi once, while the file keeps the module and so the
\* device bound.
LEMMA IoFileBound ==
  ASSUME DInv, FileBound, NEW f \in Files, IoStep(f), UNCHANGED devVars
  PROVE  FileBound'
<1>1. /\ UNCHANGED <<priv, spi, dev, drvdata>>
      /\ \A g \in Files \ {f} : pc'[g] = pc[g] /\ lspi'[g] = lspi[g]
  BY IoFrame DEF devVars, coreVars, objVars
<1>2. pc'[f] \in Writing \cup {"lock"} => lspi'[f] = spi[priv[f]]
  BY
  DEF DInv, Calls, FileBound, Writing, IoStep, LockStep, RunStep, WriteStart, ReadStart,
      WriteLock, XferLock, ReadLock, WriteCopy, WriteFault, WriteParse, WriteChunk, XferSync,
      WriteDone, ReadCopy, Goto, At, Mine, callVars
<1> QED
  BY <1>1, <1>2 DEF FileBound, Attached

\* Every step of the driver keeps the invariant.
LEMMA StepDInv == SafeEnv /\ DInv /\ [DriverNext]_vars => DInv'
<1> SUFFICES ASSUME SafeEnv, DInv, [DriverNext]_vars PROVE DInv'
  OBVIOUS
<1>1. IInv'
  BY DeviceStepOfDriver, StepIInv DEF DInv, vars
<1>2. CASE UNCHANGED vars
  BY <1>1, <1>2 DEF vars, devVars, ioVars, callVars, bufVars, readVars, coreVars, objVars,
     DInv, Calls, LocksHeld, ReadLocked, BufLocked, FileBound, Attached
<1>3. ASSUME NEW f \in Files, IoStep(f), UNCHANGED devVars PROVE DInv'
  BY <1>1, <1>3, IoOwn, IoReadLocked, IoBufLocked, IoFileBound DEF DInv
<1> QED
  BY <1>1, <1>2, <1>3, ModuleStepDInv, ProbeDInv, RemoveDInv, FileStepDInv DEF DriverNext

\* The invariant of the composed driver, whatever devices, files and messages.
LEMMA DriverInvariance == SafeEnv => (DriverSpec => []DInv)
<1> SUFFICES ASSUME SafeEnv PROVE DriverSpec => []DInv
  OBVIOUS
<1>1. DInv /\ [DriverNext]_vars => DInv'
  BY StepDInv
<1> QED
  BY InitDInv, <1>1, PTL DEF DriverSpec

\* No return path of write or read keeps a lock: whoever holds buf_lock or
\* read_lock is inside its section, and holds the lock of its own file's struct,
\* or died there; also when copies fail and when probes reset read_lock.
THEOREM LocksAreHeld == SafeEnv => (DriverSpec => []LocksHeld)
<1>1. DInv => LocksHeld
  BY DEF DInv
<1> QED
  BY <1>1, DriverInvariance, PTL

\* As long as copy_from_user does not fail, spidrv->buffer keeps the message of
\* the one writer that uses it from the copy to the last chunk.
THEOREM BufferIsStable ==
  ASSUME SafeEnv, "efault" \notin Env
  PROVE  DriverSpec => []BufferStable
<1>1. DInv => BufferStable
  BY DEF DInv, BufLocked, BufferStable, Mine, Writing
<1> QED
  BY <1>1, DriverInvariance, PTL

\* As long as no device is probed while files are in use, at most one task uses
\* read_buffer under read_lock.
THEOREM ReadersExclude ==
  ASSUME SafeEnv, "hotplug" \notin Env
  PROVE  DriverSpec => []ReadLockExclusive
<1>1. DInv => ReadLockExclusive
  BY DEF DInv, ReadLocked, ReadLockExclusive
<1> QED
  BY <1>1, DriverInvariance, PTL

\* As long as only rmmod unbinds devices, a message goes to a device to which
\* the driver is bound, and through that device's struct: although write reads
\* spidrv->spi without a lock.
THEOREM SyncsAreBound ==
  ASSUME SafeEnv, "unbind" \notin Env
  PROVE  DriverSpec => []SyncBound
<1>1. DInv => SyncBound
  BY DEF DInv, FileBound, Attached, SyncBound, Calls, Writing, Mine
<1> QED
  BY <1>1, DriverInvariance, PTL
-----------------------------------------------------------------------------
(* The data of the calls. *)

Messages == Msgs \cup {Zero}

\* The types that Calls leaves out, and that the loop of write_msg sends only
\* while there is something left.
CallData ==
  /\ params \in [Files -> Messages] /\ temp_buf \in [Files -> Messages]
  /\ pos \in [Files -> 0 .. BufLen]
  /\ read_buffer \in [Indices -> Messages] /\ last_len \in Nat
  /\ \A f \in Files : pc[f] \in {"xfer", "sync"} => pos[f] < params[f].ndb

LEMMA MessageType ==
  ASSUME NEW m \in Messages
  PROVE  m.ndb \in Nat /\ m.group \in Nat /\ m.ndb + m.group <= BufLen
<1>1. CASE m = Zero
  BY <1>1, MsgsAssumption DEF Zero
<1>2. CASE m \in Msgs
  <2>1. m \in [cs : 0 .. 3, ndb : Nat, group : Nat, id : Nat] /\ m.ndb + m.group <= BufLen
    BY <1>2, MsgsAssumption
  <2> QED
    BY <2>1
<1> QED
  BY <1>1, <1>2 DEF Messages

LEMMA FilledType ==
  ASSUME CallData, NEW from, NEW n, NEW v \in Messages
  PROVE  Filled(from, n, v) \in [Indices -> Messages]
BY DEF Filled, CallData

LEMMA InitCallData == DriverInit => CallData
BY MsgsAssumption DEF DriverInit, CallData, Messages

\* Every step keeps the types; pos ends at most one group after the message.
LEMMA IoCallData ==
  ASSUME DInv, CallData, NEW f \in Files, IoStep(f), UNCHANGED devVars
  PROVE  CallData'
<1> USE DEF CallData
<1>0. /\ \A g \in Files \ {f} : pc'[g] = pc[g]
      /\ priv[f] \in Structs
  BY IoFrame
<1>a. pc \in [Files -> Pcs] /\ contents[priv[f]] \in Messages
  BY <1>0 DEF DInv, Calls, Messages
<1>1. ASSUME UNCHANGED <<params, pos, temp_buf, read_buffer, last_len>>,
             pc'[f] \in {"xfer", "sync"} => pc[f] \in {"xfer", "sync"}
      PROVE  CallData'
  BY <1>0, <1>1
<1>2. CASE (\E m \in Msgs : WriteStart(f, m)) \/ WriteLock(f) \/ WriteCopy(f)
             \/ WriteFault(f) \/ WriteDone(f)
  <2>1. UNCHANGED <<params, pos, temp_buf, read_buffer, last_len>>
    BY <1>2 DEF WriteStart, WriteLock, WriteCopy, WriteFault, WriteDone, callVars, readVars
  <2>2. pc'[f] \notin {"xfer", "sync"}
    BY <1>a, <1>2 DEF WriteStart, WriteLock, WriteCopy, WriteFault, WriteDone, Goto
  <2> QED
    BY <1>1, <2>1, <2>2
<1>3. CASE XferLock(f) \/ ReadStart(f) \/ ReadLock(f) \/ ReadCopy(f)
  <2>1. UNCHANGED <<params, pos, temp_buf, read_buffer, last_len>>
    BY <1>3 DEF XferLock, ReadStart, ReadLock, ReadCopy, callVars, readVars
  <2>2. pc'[f] \in {"xfer", "sync"} => pc[f] \in {"xfer", "sync"}
    BY <1>a, <1>3 DEF XferLock, ReadStart, ReadLock, ReadCopy, At, Goto
  <2> QED
    BY <1>1, <2>1, <2>2
<1>4. CASE WriteParse(f)
  <2> DEFINE p == contents[priv[f]]
  <2>1. /\ params' \in {params, [params EXCEPT ![f] = p]}
        /\ pos' \in {pos, [pos EXCEPT ![f] = 0]}
        /\ last_len' \in {last_len, p.ndb}
        /\ UNCHANGED <<temp_buf, read_buffer>>
    BY <1>4 DEF WriteParse, Parsed, MsgLength, Mine
  <2>2. pc'[f] \notin {"xfer", "sync"}
    BY <1>a, <1>4 DEF WriteParse, Goto
  <2>3. p.ndb \in Nat /\ BufLen \in Nat
    BY <1>a, MessageType, MsgsAssumption
  <2>4. params'\in [Files -> Messages] /\ pos' \in [Files -> 0 .. BufLen] /\ last_len' \in Nat
    BY <1>a, <2>1, <2>3
  <2>5. \A g \in Files \ {f} : params'[g] = params[g] /\ pos'[g] = pos[g]
    BY <2>1
  <2> QED
    BY <1>0, <2>1, <2>2, <2>4, <2>5
<1>5. CASE WriteChunk(f)
  <2> DEFINE p == params[f]
  <2>1. /\ UNCHANGED <<params, pos, last_len>>
        /\ temp_buf' \in {temp_buf, [temp_buf EXCEPT ![f] = contents[priv[f]]]}
        /\ read_buffer' \in {read_buffer, Filled(pos[f], p.group, Zero)}
    BY <1>5 DEF WriteChunk, Mine
  <2>2. pc'[f] \in {"xfer", "sync"} => pos[f] < p.ndb
    BY <1>a, <1>5 DEF WriteChunk, Goto
  <2>3. read_buffer' \in [Indices -> Messages]
    BY <2>1, FilledType DEF Messages
  <2> QED
    BY <1>0, <1>a, <2>1, <2>2, <2>3
<1>6. CASE XferSync(f)
  <2> DEFINE p == params[f]
  <2>1. /\ UNCHANGED <<params, temp_buf, last_len>>
        /\ pos' = [pos EXCEPT ![f] = @ + p.group]
        /\ read_buffer' \in {read_buffer, Filled(pos[f], XferLen(p), temp_buf[f])}
        /\ pc[f] = "sync" /\ pc'[f] = "chunk"
    BY <1>6, <1>a DEF XferSync, LoopStep, At, Goto
  <2>2. read_buffer' \in [Indices -> Messages]
    BY <2>1, FilledType
  <2>3. pos[f] + p.group \in 0 .. BufLen
    <3>1. p.ndb \in Nat /\ p.group \in Nat /\ p.ndb + p.group <= BufLen /\ BufLen \in Nat
      BY MessageType, MsgsAssumption
    <3>2. pos[f] < p.ndb /\ pos[f] \in Nat
      BY <2>1, <3>1
    <3> QED
      BY <3>1, <3>2
  <2>4. pos' \in [Files -> 0 .. BufLen] /\ \A g \in Files \ {f} : pos'[g] = pos[g]
    BY <2>1, <2>3
  <2> QED
    BY <1>0, <2>1, <2>2, <2>4
<1> QED
  BY <1>2, <1>3, <1>4, <1>5, <1>6 DEF IoStep, LockStep, RunStep

LEMMA StepCallData == DInv /\ CallData /\ [DriverNext]_vars => CallData'
<1> SUFFICES ASSUME DInv, CallData, [DriverNext]_vars PROVE CallData'
  OBVIOUS
<1>1. CASE UNCHANGED ioVars
  BY <1>1 DEF CallData, ioVars, callVars, readVars
<1>2. CASE DriverLoad
  BY <1>2 DEF DriverLoad, CallData, callVars, Messages
<1>3. ASSUME NEW d \in Devs, DriverProbe(d) PROVE CallData'
  BY <1>3 DEF DriverProbe, CallData, callVars
<1>4. ASSUME NEW f \in Files, IoStep(f), UNCHANGED devVars PROVE CallData'
  BY <1>4, IoCallData
<1> QED
  BY <1>1, <1>2, <1>3, <1>4 DEF DriverNext, DriverModuleStep, DriverOpen, DriverRelease, vars

\* Every variable of the composed driver keeps its type; in particular no write
\* goes on past the end of its message by more than the read buffer allows.
THEOREM DriverTypes == SafeEnv => (DriverSpec => []DriverTypeOK)
<1>1. SafeEnv => (DInv /\ CallData /\ [DriverNext]_vars => DInv' /\ CallData')
  BY StepDInv, StepCallData
<1>2. DInv /\ CallData => DriverTypeOK
  BY DEF DInv, Calls, CallData, DriverTypeOK, Messages
<1> SUFFICES ASSUME SafeEnv PROVE DriverSpec => []DriverTypeOK
  OBVIOUS
<1>3. DInv /\ CallData /\ [DriverNext]_vars => DInv' /\ CallData'
  BY <1>1
<1> QED
  BY InitDInv, InitCallData, <1>2, <1>3, PTL DEF DriverSpec
-----------------------------------------------------------------------------
(* What a reader gets between writes, on a single device. *)

Sending == {"chunk", "xfer", "sync", "done"}

\* With one device, all open files are on one struct, the one that is listed.
OneStruct ==
  \A f \in Files : priv[f] # NULL =>
    /\ \A g \in Files : priv[g] # NULL => priv[g] = priv[f]
    /\ \A s \in device_list : s = priv[f]

\* The first n entries are replies to m.
RepliesTo(m, n) == \A i \in Indices : i < n => read_buffer[i] = m

\* The write on f has its reply as far as it has come.
Underway(f) ==
  /\ msg[f] \in Msgs /\ params[f] = msg[f] /\ last_len = msg[f].ndb
  /\ RepliesTo(msg[f], IF pos[f] < msg[f].ndb THEN pos[f] ELSE msg[f].ndb)
  /\ pc[f] = "done" => pos[f] >= msg[f].ndb
  /\ pc[f] \in {"xfer", "sync"} => temp_buf[f] = msg[f]

WholeReply ==
  last_len > 0 => \E m \in Msgs : m.ndb = last_len /\ RepliesTo(m, m.ndb)

\* From a write that hung on, nothing is said.
Replies ==
  /\ \A f \in Files : pc[f] \in Writing \cup {"lock"} => msg[f] \in Msgs
  /\ (\A f \in Files : pc[f] # "hung") =>
       /\ \A f \in Files : pc[f] \in Sending => Underway(f)
       /\ (\A f \in Files : pc[f] \notin Sending) => WholeReply

\* What the property rests on: one device, not probed under open files, copies
\* and transfers that do not fail.
Quiet ==
  /\ \A d, e \in Devs : d = e
  /\ Env \cap {"hotplug", "efault", "sync"} = {}

LEMMA StepOneStruct ==
  Quiet /\ DInv /\ IInv' /\ OneStruct /\ [DriverNext]_vars => OneStruct'
<1> SUFFICES ASSUME Quiet, DInv, IInv', OneStruct, [DriverNext]_vars PROVE OneStruct'
  OBVIOUS
<1>1. \A s, t \in device_list : s = t
  BY DEF DInv, IInv, Ownership, Owned, Quiet
<1>2. CASE UNCHANGED vars
  BY <1>2 DEF vars, devVars, listVars, OneStruct
<1>3. CASE DriverModuleStep
  <2>1. priv' = priv /\ device_list' \in {device_list, {}}
    BY <1>3 DEF DriverModuleStep, DriverLoad, InitChrdev, InitClass, InitDriver, ExitDriver,
       ExitFinish, listVars
  <2> QED
    BY <2>1 DEF OneStruct
<1>4. ASSUME NEW d \in Devs, DriverProbe(d) PROVE OneStruct'
  <2>1. \A f \in Files : priv'[f] = NULL
    BY <1>4 DEF DriverProbe, Quiet, Probe, ProbeDevice, ProbeCreateFails, ProbeNoMinor,
       ProbeNoMemory
  <2> QED
    BY <2>1 DEF OneStruct
<1>5. ASSUME NEW d \in Devs, RemoveClear(d) \/ RemoveUnlink(d) PROVE OneStruct'
  <2>1. priv' = priv /\ device_list' \subseteq device_list
    BY <1>5 DEF RemoveClear, RemoveUnlink, ListDel, listVars
  <2> QED
    BY <2>1 DEF OneStruct
<1>6. ASSUME NEW f \in Files, DriverOpen(f) PROVE OneStruct'
  <2> PICK s \in device_list : priv' = [priv EXCEPT ![f] = s]
    BY <1>6 DEF DriverOpen, Open
  <2>1. /\ device_list' = device_list /\ priv'[f] = s
        /\ \A g \in Files \ {f} : priv'[g] = priv[g]
    BY <1>6 DEF DriverOpen, Open, listVars, DInv, IInv, TypeOK
  <2> QED
    BY <1>1, <2>1 DEF OneStruct
<1>7. ASSUME NEW f \in Files, DriverRelease(f) PROVE OneStruct'
  <2>1. /\ device_list' = device_list /\ priv'[f] = NULL
        /\ \A g \in Files \ {f} : priv'[g] = priv[g]
    BY <1>7 DEF DriverRelease, Release, listVars, DInv, IInv, TypeOK
  <2> QED
    BY <2>1 DEF OneStruct
<1>8. ASSUME UNCHANGED devVars PROVE OneStruct'
  BY <1>8 DEF devVars, listVars, OneStruct
<1> QED
  BY <1>2, <1>3, <1>4, <1>5, <1>6, <1>7, <1>8 DEF DriverNext

\* Two writes of one device do not send at once.
LEMMA OneWriter ==
  ASSUME DInv, OneStruct, Quiet, NEW f \in Files, NEW g \in Files,
         pc[f] \in Writing, pc[g] \in Writing
  PROVE  f = g
<1>1. priv[f] # NULL /\ priv[g] # NULL
  BY DEF DInv, Calls, Writing
<1>2. priv[f] = priv[g]
  BY <1>1 DEF OneStruct
<1>3. BufLocked
  BY DEF DInv, Quiet
<1> QED
  BY <1>2, <1>3 DEF BufLocked

\* A step of a call that sends nothing and changes no reply.
LEMMA AsideReplies ==
  ASSUME Replies, pc \in [Files -> Pcs], NEW f \in Files,
         \A g \in Files \ {f} : pc'[g] = pc[g] /\ msg'[g] = msg[g],
         pc[f] # "hung", pc[f] \notin Sending, pc'[f] \notin Sending,
         pc'[f] \in Writing \cup {"lock"} => msg'[f] \in Msgs,
         UNCHANGED <<params, pos, temp_buf, read_buffer, last_len>>
  PROVE  Replies'
<1>1. \A g \in Files : pc'[g] \in Sending <=> pc[g] \in Sending
  OBVIOUS
<1>2. ASSUME NEW g \in Files, pc[g] \in Sending, Underway(g) PROVE Underway(g)'
  BY <1>2 DEF Underway, RepliesTo
<1>3. WholeReply => WholeReply'
  BY DEF WholeReply, RepliesTo
<1>4. (\A g \in Files : pc'[g] # "hung") => \A g \in Files : pc[g] # "hung"
  OBVIOUS
<1> QED
  BY <1>1, <1>2, <1>3, <1>4 DEF Replies

\* A step of the one call that sends, now or next.
LEMMA SenderReplies ==
  ASSUME DInv, OneStruct, Quiet, Replies, NEW f \in Files, pc[f] \in Writing,
         \A g \in Files \ {f} : pc'[g] = pc[g] /\ msg'[g] = msg[g],
         msg'[f] = msg[f],
         pc'[f] = "hung" \/ (pc'[f] \in Sending /\ Underway(f)')
                         \/ (pc'[f] = "idle" /\ WholeReply')
  PROVE  Replies'
<1>1. \A g \in Files \ {f} : pc[g] \notin Writing
  BY OneWriter
<1>2. \A g \in Files \ {f} : pc'[g] \notin Sending
  BY <1>1 DEF Writing, Sending
<1>3. \A g \in Files : pc'[g] \in Writing \cup {"lock"} => msg'[g] \in Msgs
  BY DEF Replies, Sending, Writing
<1>4. CASE pc'[f] = "hung"
  BY <1>3, <1>4 DEF Replies
<1>5. CASE pc'[f] \in Sending /\ Underway(f)'
  <2>1. \A g \in Files : pc'[g] \in Sending => Underway(g)'
    BY <1>2, <1>5
  <2> QED
    BY <1>3, <1>5, <2>1 DEF Replies
<1>6. CASE pc'[f] = "idle" /\ WholeReply'
  <2>1. \A g \in Files : pc'[g] \notin Sending
    BY <1>2, <1>6 DEF Sending
  <2> QED
    BY <1>3, <1>6, <2>1 DEF Replies
<1> QED
  BY <1>4, <1>5, <1>6

LEMMA IoReplies ==
  ASSUME DInv, CallData, OneStruct, Quiet, Replies,
         NEW f \in Files, IoStep(f), UNCHANGED devVars
  PROVE  Replies'
<1>0. /\ \A g \in Files \ {f} : pc'[g] = pc[g] /\ msg'[g] = msg[g]
      /\ priv[f] \in Structs /\ (~At(f, "idle") => msg' = msg)
      /\ pc \in [Files -> Pcs] /\ msg \in [Files -> Msgs \cup {Zero}] /\ BufLocked
  BY IoFrame DEF DInv, Calls, Quiet
<1>1. CASE (\E m \in Msgs : WriteStart(f, m)) \/ WriteLock(f) \/ WriteCopy(f)
             \/ ReadStart(f) \/ ReadLock(f) \/ ReadCopy(f)
  <2>1. /\ UNCHANGED <<params, pos, temp_buf, read_buffer, last_len>>
        /\ pc[f] \in {"idle", "lock", "copy", "rlock", "rcopy"}
        /\ pc'[f] \in {"idle", "lock", "copy", "parse", "rlock", "rcopy"}
    BY <1>0, <1>1 DEF WriteStart, WriteLock, WriteCopy, ReadStart, ReadLock, ReadCopy, At, Goto,
       callVars, readVars, Quiet
  <2>2. pc'[f] \in Writing \cup {"lock"} => msg'[f] \in Msgs
    <3>1. CASE \E m \in Msgs : WriteStart(f, m)
      BY <1>0, <3>1 DEF WriteStart
    <3>2. CASE WriteLock(f) \/ WriteCopy(f)
      BY <1>0, <3>2 DEF WriteLock, WriteCopy, At, Replies, Writing
    <3>3. CASE ReadStart(f) \/ ReadLock(f) \/ ReadCopy(f)
      BY <1>0, <3>3 DEF ReadStart, ReadLock, ReadCopy, Goto, Writing
    <3> QED
      BY <1>1, <3>1, <3>2, <3>3
  <2>3. pc[f] # "hung" /\ pc[f] \notin Sending /\ pc'[f] \notin Sending
    BY <2>1 DEF Sending
  <2> QED
    BY <1>0, <2>1, <2>2, <2>3, AsideReplies
<1>2. CASE WriteFault(f)
  BY <1>0, <1>2 DEF WriteFault, At, BufLocked
<1>3. CASE WriteParse(f)
  <2>1. pc[f] = "parse" /\ contents[priv[f]] = msg[f] /\ msg[f] \in Msgs /\ msg' = msg
    BY <1>0, <1>3 DEF WriteParse, At, BufLocked, Writing, Replies
  <2>2. CASE pc'[f] = "hung"
    BY <1>0, <2>1, <2>2, SenderReplies DEF Writing
  <2>3. CASE pc'[f] = "idle"
    <3>1. UNCHANGED <<params, pos, temp_buf, read_buffer, last_len>>
      BY <1>0, <1>3, <2>3 DEF WriteParse, Goto
    <3> QED
      BY <1>0, <2>1, <2>3, <3>1, AsideReplies DEF Sending, Writing
  <2>4. CASE pc'[f] = "chunk"
    <3>1. /\ params'[f] = msg[f] /\ pos'[f] = 0 /\ last_len' = msg[f].ndb
          /\ UNCHANGED read_buffer
      BY <1>0, <1>3, <2>1, <2>4 DEF WriteParse, Goto, Mine, Parsed, MsgLength, CallData
    <3>2. RepliesTo(msg[f], 0)'
      BY DEF RepliesTo, Indices
    <3>3. msg[f].ndb \in Nat
      BY <2>1, MessageType DEF Messages
    <3>4. Underway(f)'
      BY <2>1, <2>4, <3>1, <3>2, <3>3 DEF Underway, RepliesTo, Indices
    <3> QED
      BY <1>0, <2>1, <2>4, <3>4, SenderReplies DEF Sending, Writing
  <2> QED
    BY <1>0, <1>3, <2>2, <2>3, <2>4 DEF WriteParse, Goto
<1>4. ASSUME pc[f] \in Sending, pc'[f] \in {"chunk", "xfer", "sync", "done", "idle"},
             \A g \in Files : pc[g] # "hung",
             Underway(f) => (pc'[f] \in Sending /\ Underway(f)') \/ (pc'[f] = "idle" /\ WholeReply')
      PROVE  Replies'
  <2>1. Underway(f) /\ pc[f] \in Writing /\ msg' = msg
    BY <1>0, <1>4 DEF Replies, Sending, Writing, At
  <2> QED
    BY <1>0, <1>4, <2>1, SenderReplies
<1>5. ASSUME \E g \in Files : pc[g] = "hung"
      PROVE  Replies'
  <2> PICK g \in Files : pc[g] = "hung"
    BY <1>5
  <2>1. g # f
    BY DEF IoStep, LockStep, RunStep, WriteStart, ReadStart, WriteLock, XferLock, ReadLock,
       WriteCopy, WriteFault, WriteParse, WriteChunk, XferSync, WriteDone, ReadCopy, At
  <2>2. pc'[g] = "hung"
    BY <1>0, <2>1
  <2>3. pc'[f] \in Writing \cup {"lock"} => msg'[f] \in Msgs
    <3>1. CASE \E m \in Msgs : WriteStart(f, m)
      BY <1>0, <3>1 DEF WriteStart
    <3>2. CASE ReadStart(f) \/ ReadLock(f) \/ ReadCopy(f) \/ WriteFault(f)
      BY <1>0, <3>2 DEF ReadStart, ReadLock, ReadCopy, WriteFault, Goto, Writing
    <3>3. CASE WriteLock(f) \/ XferLock(f) \/ WriteCopy(f) \/ WriteParse(f) \/ WriteChunk(f)
                 \/ XferSync(f) \/ WriteDone(f)
      BY <1>0, <3>3 DEF WriteLock, XferLock, WriteCopy, WriteParse, WriteChunk, XferSync,
         WriteDone, At, Replies, Writing
    <3> QED
      BY <3>1, <3>2, <3>3 DEF IoStep, LockStep, RunStep
  <2> QED
    BY <1>0, <2>2, <2>3 DEF Replies
<1>6. CASE WriteChunk(f) /\ \A g \in Files : pc[g] # "hung"
  <2>1. pc[f] = "chunk" /\ UNCHANGED <<msg, params, pos, last_len>> /\ pc'[f] \in {"xfer", "done"}
    BY <1>0, <1>6 DEF WriteChunk, At, Goto
  <2>2. ASSUME Underway(f) PROVE Underway(f)'
    <3>1. msg[f].ndb \in Nat /\ pos[f] \in Nat /\ contents[priv[f]] = msg[f]
      BY <1>0, <2>1, <2>2, MessageType DEF Underway, Messages, BufLocked, Writing, CallData
    <3>2. CASE pos[f] < msg[f].ndb
      <4>1. /\ temp_buf'[f] = msg[f] /\ pc'[f] = "xfer"
            /\ read_buffer' = Filled(pos[f], msg[f].group, Zero)
        BY <1>0, <1>6, <2>2, <3>1, <3>2 DEF WriteChunk, Goto, Mine, Underway, CallData
      <4>2. \A i \in Indices : i < pos[f] => read_buffer'[i] = read_buffer[i]
        BY <3>1, <4>1 DEF Filled, Indices
      <4> QED
        BY <2>1, <2>2, <3>2, <4>1, <4>2 DEF Underway, RepliesTo
    <3>3. CASE ~(pos[f] < msg[f].ndb)
      <4>1. UNCHANGED <<temp_buf, read_buffer>> /\ pc'[f] = "done"
        BY <1>0, <1>6, <2>2, <3>3 DEF WriteChunk, Goto, Underway
      <4> QED
        BY <2>1, <2>2, <3>1, <3>3, <4>1 DEF Underway, RepliesTo
    <3> QED
      BY <3>2, <3>3
  <2> QED
    BY <1>4, <1>6, <2>1, <2>2 DEF Sending
<1>7. CASE XferLock(f) /\ \A g \in Files : pc[g] # "hung"
  <2>1. /\ pc[f] = "xfer" /\ pc'[f] = "sync"
        /\ UNCHANGED <<msg, params, pos, temp_buf, read_buffer, last_len>>
    BY <1>0, <1>7 DEF XferLock, At, Goto, callVars
  <2>2. Underway(f) => Underway(f)'
    BY <2>1 DEF Underway, RepliesTo
  <2> QED
    BY <1>4, <1>7, <2>1, <2>2 DEF Sending
<1>8. CASE XferSync(f) /\ \A g \in Files : pc[g] # "hung"
  <2>1. /\ pc[f] = "sync" /\ pc'[f] = "chunk" /\ UNCHANGED <<msg, params, temp_buf, last_len>>
        /\ read_buffer' = Filled(pos[f], XferLen(params[f]), temp_buf[f])
        /\ pos'[f] = pos[f] + params[f].group
    BY <1>0, <1>8 DEF XferSync, At, Goto, LoopStep, Quiet, CallData
  <2>2. ASSUME Underway(f) PROVE Underway(f)'
    <3> DEFINE m == msg[f]
    <3>1. m.ndb \in Nat /\ m.group \in Nat /\ pos[f] \in Nat /\ BufLen \in Nat
      BY <2>2, MessageType, MsgsAssumption DEF Underway, Messages, CallData
    <3>2. params[f] = m /\ temp_buf[f] = m /\ pos[f] < m.ndb
      BY <2>1, <2>2 DEF Underway, CallData
    <3>3. \A i \in Indices : i < pos[f] => read_buffer[i] = m
      BY <2>2, <3>2 DEF Underway, RepliesTo
    <3>4. XferLen(m) = IF m.ndb < m.group THEN m.ndb ELSE m.group
      BY DEF XferLen
    <3> HIDE DEF m
    <3>5. \A i \in Indices : i < pos[f] + m.group /\ i < m.ndb => read_buffer'[i] = m
      <4> SUFFICES ASSUME NEW i \in Indices, i < pos[f] + m.group, i < m.ndb
                   PROVE  read_buffer'[i] = m
        OBVIOUS
      <4>1. i \in Nat
        BY <3>1 DEF Indices
      <4>2. i < pos[f] \/ i \in pos[f] .. pos[f] + XferLen(m) - 1
        BY <3>1, <3>2, <3>4, <4>1
      <4> QED
        BY <2>1, <3>2, <3>3, <4>2 DEF Filled
    <3> QED
      BY <2>1, <2>2, <3>1, <3>2, <3>5 DEF Underway, RepliesTo, m, Indices
  <2> QED
    BY <1>4, <1>8, <2>1, <2>2 DEF Sending
<1>9. CASE WriteDone(f) /\ \A g \in Files : pc[g] # "hung"
  <2>1. pc[f] = "done" /\ pc'[f] = "idle" /\ UNCHANGED <<msg, read_buffer, last_len>>
    BY <1>0, <1>9 DEF WriteDone, At, Goto, callVars, readVars
  <2>2. ASSUME Underway(f) PROVE WholeReply'
    <3>1. msg[f] \in Msgs /\ msg[f].ndb = last_len /\ msg[f].ndb \in Nat /\ pos[f] \in Nat
      BY <2>2, MessageType DEF Underway, Messages, CallData
    <3>2. RepliesTo(msg[f], msg[f].ndb)
      BY <2>1, <2>2, <3>1 DEF Underway
    <3> QED
      BY <2>1, <3>1, <3>2 DEF WholeReply, RepliesTo
  <2> QED
    BY <1>4, <1>9, <2>1, <2>2 DEF Sending
<1> QED
  BY <1>1, <1>2, <1>3, <1>5, <1>6, <1>7, <1>8, <1>9 DEF IoStep, LockStep, RunStep

LEMMA StepReplies ==
  Quiet /\ DInv /\ CallData /\ OneStruct /\ Replies /\ [DriverNext]_vars => Replies'
<1> SUFFICES ASSUME Quiet, DInv, CallData, OneStruct, Replies, [DriverNext]_vars
             PROVE  Replies'
  OBVIOUS
<1>1. ASSUME UNCHANGED <<pc, callVars, read_buffer, last_len>> PROVE Replies'
  BY <1>1 DEF Replies, Underway, WholeReply, RepliesTo, callVars
<1>2. CASE UNCHANGED ioVars
  BY <1>1, <1>2 DEF ioVars, readVars
<1>3. CASE DriverLoad
  <2>1. \A f \in Files : pc[f] \in {"idle", "hung"}
    BY <1>3 DEF DriverLoad, InitChrdev, DInv, IInv, Phases, Calls
  <2>2. pc' = pc /\ last_len' = 0
    BY <1>3 DEF DriverLoad
  <2> QED
    BY <2>1, <2>2 DEF Replies, Writing, Sending, WholeReply
<1>4. ASSUME NEW d \in Devs, DriverProbe(d) PROVE Replies'
  BY <1>1, <1>4 DEF DriverProbe
<1>5. ASSUME NEW f \in Files, IoStep(f), UNCHANGED devVars PROVE Replies'
  BY <1>5, IoReplies
<1> QED
  BY <1>2, <1>3, <1>4, <1>5 DEF DriverNext, DriverModuleStep, DriverOpen, DriverRelease, vars

\* On a single device that is not probed anew under open files, and while
\* copies and transfers succeed, a read between writes finds the whole reply to
\* one message, however long the messages are and however many writers there
\* are: last_len and read_buffer agree, though no lock covers both.
THEOREM RepliesAreQuiet ==
  ASSUME SafeEnv, Quiet
  PROVE  DriverSpec => []QuietReply
<1>1. DriverInit => OneStruct /\ Replies
  BY DEF DriverInit, Init, OneStruct, Replies, Writing, Sending, WholeReply
<1>2. /\ DInv /\ CallData /\ OneStruct /\ Replies /\ [DriverNext]_vars
           => DInv' /\ CallData' /\ OneStruct' /\ Replies'
  <2>1. DInv' => IInv'
    BY DEF DInv
  <2> QED
    BY <2>1, StepDInv, StepCallData, StepOneStruct, StepReplies
<1>3. ASSUME DInv, CallData, Replies PROVE QuietReply
  <2> SUFFICES ASSUME \A f \in Files : pc[f] \notin {"chunk", "xfer", "sync", "hung"},
                      last_len > 0
               PROVE  \E m \in Msgs : /\ m.ndb = last_len
                                      /\ \A i \in 0 .. last_len - 1 : read_buffer[i] = m
    BY DEF QuietReply
  <2>0. \A f \in Files : pc[f] # "hung"
    OBVIOUS
  <2>1. \E m \in Msgs : m.ndb = last_len /\ RepliesTo(m, m.ndb)
    <3>1. CASE \A f \in Files : pc[f] \notin Sending
      <4>1. WholeReply
        BY <2>0, <3>1, <1>3 DEF Replies
      <4> QED
        BY <4>1 DEF WholeReply
    <3>2. ASSUME NEW f \in Files, pc[f] \in Sending
          PROVE  \E m \in Msgs : m.ndb = last_len /\ RepliesTo(m, m.ndb)
      <4>1. pc[f] = "done" /\ Underway(f)
        BY <1>3, <2>0, <3>2 DEF Sending, Replies
      <4>2. msg[f] \in Msgs /\ msg[f].ndb \in Nat /\ pos[f] \in Nat
        BY <1>3, <4>1, MessageType DEF Underway, Messages, CallData
      <4>3. msg[f].ndb = last_len /\ RepliesTo(msg[f], msg[f].ndb)
        BY <4>1, <4>2 DEF Underway
      <4> QED
        BY <4>2, <4>3
    <3> QED
      BY <3>1, <3>2
  <2> PICK m \in Msgs : m.ndb = last_len /\ RepliesTo(m, m.ndb)
    BY <2>1
  <2>2. m.ndb \in Nat /\ m.ndb <= BufLen /\ BufLen \in Nat
    <3>1. m.ndb \in Nat /\ m.group \in Nat /\ m.ndb + m.group <= BufLen
      BY MessageType DEF Messages
    <3> QED
      BY <3>1, MsgsAssumption
  <2>3. \A i \in 0 .. last_len - 1 : i \in Indices /\ i < m.ndb
    BY <2>2 DEF Indices
  <2> QED
    BY <2>3 DEF RepliesTo
<1> QED
  BY InitDInv, InitCallData, <1>1, <1>2, <1>3, PTL DEF DriverSpec

-----------------------------------------------------------------------------
(* The data path does not disturb the lifetime below it.                   *)

\* Whatever calls run, and whatever they hold, the composition is a behaviour
\* of the device lifetime: no step of write or read touches the list, the
\* counts or the structs, and what probe, load and release do beyond SpiDevice
\* they do to the locks and buffers only.  It holds in every environment.
THEOREM DriverIsDevice == DriverSpec => Spec
<1>1. DriverInit => Init
  BY DEF DriverInit
<1>2. [DriverNext]_vars => [Next]_devVars
  BY DeviceStepOfDriver DEF vars
<1> QED
  BY <1>1, <1>2, PTL DEF DriverSpec, Spec

\* So with writers and readers running, struct spidrv_data is still the
\* reference-counted object: a write cannot keep it alive, nor lose it.
THEOREM DriverImplementsRefcount == SafeEnv => (DriverSpec => RefcountSpec)
BY DriverIsDevice, Refinement
=============================================================================
