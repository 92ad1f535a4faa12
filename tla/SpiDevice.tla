----------------------------- MODULE SpiDevice -----------------------------
(***************************************************************************)
(* Lifetime of struct spidrv_data, the per-device object of the SPI        *)
(* character driver (spi_driver/spi_driver.c): module load and unload,     *)
(* probe and remove of SPI devices, open and release of /dev nodes.        *)
(*                                                                         *)
(* Every critical section of device_list_lock is one action: the lock      *)
(* protects everything the section touches except spidrv->spi, and each    *)
(* section reads that field at most once.  omap3_spi_remove is two         *)
(* actions, because it clears spidrv->spi under spi_lock BEFORE it takes   *)
(* device_list_lock; other processes run in between.                       *)
(***************************************************************************)
EXTENDS Naturals, FiniteSets

CONSTANTS
  Devs,     \* SPI devices on the bus (struct spi_device)
  Structs,  \* addresses kzalloc may return for a struct spidrv_data
  Files,    \* struct file: one per open descriptor
  NMinors,  \* N_SPI_MINORS
  UintMax,  \* largest unsigned int: spidrv->users wraps there
  NULL,
  Env       \* what the environment may do: a set of EnvEvents

EnvEvents == {"unload",    \* rmmod
              "unbind",    \* a device is unbound while the module stays loaded
              "window",    \* release runs inside remove's unlocked window
              "nomem",     \* kzalloc returns NULL
              "create",    \* device_create fails
              "register",  \* class_register or spi_register_driver fails
              "hotplug",   \* a device is probed while files are in use
              "efault",    \* copy_from_user or copy_to_user fails
              "sync"}      \* spi_sync fails

ASSUME NMinorsAssumption == NMinors \in Nat \ {0}
ASSUME FilesAssumption ==
  /\ IsFiniteSet(Files)
  /\ UintMax \in Nat
  /\ Cardinality(Files) <= UintMax
ASSUME NullAssumption == NULL \notin Devs \cup Structs \cup Files
ASSUME EnvAssumption == Env \subseteq EnvEvents

Minors == 0 .. NMinors - 1

VARIABLES
  module,            \* module state: "unloaded", "coming", "live", "going"
  registered,        \* what omap3_init_spidriver has registered
  dev,               \* driver core: "unbound", "bound", "removing", "dead"
  drvdata,           \* spi_get_drvdata(spi) of each device
  rm,                \* local variable spidrv of a running omap3_spi_remove
  mem,               \* allocator: "free" or "live", per struct address
  spi, devt, users,  \* fields of struct spidrv_data
  buffer,            \*   (buffer: TRUE iff spidrv->buffer is allocated)
  device_list,       \* the structs on the global device_list
  minors,            \* bitmap of used minor numbers
  nodes,             \* device nodes made by device_create
  device_list_lock,  \* "unlocked", or "locked" by a task that never unlocks
  priv               \* filp->private_data, NULL when the file is not open

modVars  == <<module, registered>>
coreVars == <<dev, drvdata, rm>>
objVars  == <<mem, spi, devt, users, buffer>>
listVars == <<device_list, minors, nodes, device_list_lock>>
devVars  == <<modVars, coreVars, objVars, listVars, priv>>

ModuleStates == {"unloaded", "coming", "live", "going"}
Registrations == {"chrdev", "class", "driver"}
DevStates == {"unbound", "bound", "removing", "dead"}

Holders(s) == {f \in Files : priv[f] = s}

(***************************************************************************)
(* Module load (omap3_init_spidriver) and unload (omap3_exit_spidriver).   *)
(***************************************************************************)

InitChrdev ==
  /\ module = "unloaded"
  /\ module' = "coming"
  /\ registered' = {"chrdev"}
  \* the static data of a freshly loaded module
  /\ device_list' = {} /\ minors' = {} /\ device_list_lock' = "unlocked"
  /\ UNCHANGED <<coreVars, objVars, nodes, priv>>

InitClass ==
  /\ module = "coming" /\ registered = {"chrdev"}
  /\ \/ registered' = registered \cup {"class"} /\ UNCHANGED module
     \/ /\ "register" \in Env
        /\ registered' = registered \ {"chrdev"}
        /\ module' = "unloaded"
  /\ UNCHANGED <<coreVars, objVars, listVars, priv>>

\* mutant: the error path forgets unregister_chrdev
UnwindClassOnly == {"class"}

\* What the error path after spi_register_driver takes back.
Unwind == {"class", "chrdev"}

InitDriver ==
  /\ module = "coming" /\ registered = {"chrdev", "class"}
  /\ \/ registered' = registered \cup {"driver"} /\ module' = "live"
     \/ /\ "register" \in Env
        /\ registered' = registered \ Unwind
        /\ module' = "unloaded"
  /\ UNCHANGED <<coreVars, objVars, listVars, priv>>

\* mutant: spi_fops without .owner
NotPinned == TRUE

Unpinned == \A f \in Files : priv[f] = NULL

\* rmmod starts only when no file is open: each open file pins the module
\* (.owner = THIS_MODULE in spi_fops), and a going module cannot be opened.
ExitDriver ==
  /\ "unload" \in Env
  /\ module = "live"
  /\ Unpinned
  /\ module' = "going"
  /\ UNCHANGED <<registered, coreVars, objVars, listVars, priv>>

\* spi_unregister_driver returns once every device is unbound; then
\* class_destroy and unregister_chrdev.
ExitFinish ==
  /\ module = "going"
  /\ \A d \in Devs : dev[d] = "unbound"
  /\ registered' = {}
  /\ module' = "unloaded"
  /\ UNCHANGED <<coreVars, objVars, listVars, priv>>

(***************************************************************************)
(* omap3_spi_probe.                                                        *)
(***************************************************************************)

\* mutant: devices are still probed while the driver is being unregistered
CanProbeGoing(d) == module \in {"live", "going"} /\ dev[d] = "unbound"

CanProbe(d) == module = "live" /\ dev[d] = "unbound"

\* kzalloc succeeds: address s, zeroed, spidrv->spi set.
Kzalloc(d, s) ==
  /\ mem[s] = "free"
  /\ spi' = [spi EXCEPT ![s] = d]
  /\ users' = [users EXCEPT ![s] = 0]
  /\ buffer' = [buffer EXCEPT ![s] = FALSE]

\* find_first_zero_bit returns m; it returns NMinors when every bit is set.
FirstZeroBit(m) ==
  /\ m \in 0 .. NMinors
  /\ m \notin minors
  /\ \A k \in (0 .. NMinors) \ minors : m <= k

Available(m) == m < NMinors

ProbeDevice(d, s) ==
  /\ CanProbe(d) /\ device_list_lock = "unlocked"
  /\ Kzalloc(d, s)
  /\ mem' = [mem EXCEPT ![s] = "live"]
  /\ \E m \in 0 .. NMinors :
       /\ FirstZeroBit(m) /\ Available(m)
       /\ devt' = [devt EXCEPT ![s] = m]
       /\ nodes' = nodes \cup {m}
       /\ minors' = minors \cup {m}
  /\ device_list' = device_list \cup {s}
  /\ drvdata' = [drvdata EXCEPT ![d] = s]
  /\ dev' = [dev EXCEPT ![d] = "bound"]
  /\ UNCHANGED <<modVars, rm, device_list_lock, priv>>

\* device_create fails: the lock is released and the struct freed again.
ProbeCreateFails(d, s) ==
  /\ "create" \in Env
  /\ CanProbe(d) /\ device_list_lock = "unlocked"
  /\ Kzalloc(d, s)
  /\ \E m \in 0 .. NMinors :
       /\ FirstZeroBit(m) /\ Available(m)
       /\ devt' = [devt EXCEPT ![s] = m]
  /\ UNCHANGED <<modVars, coreVars, mem, listVars, priv>>

\* No minor is left: the function returns between lock and unlock, and the
\* struct is neither freed nor reachable from anywhere.
ProbeNoMinor(d, s) ==
  /\ CanProbe(d) /\ device_list_lock = "unlocked"
  /\ \E m \in 0 .. NMinors : FirstZeroBit(m) /\ ~Available(m)
  /\ Kzalloc(d, s)
  /\ mem' = [mem EXCEPT ![s] = "live"]
  /\ device_list_lock' = "locked"
  /\ UNCHANGED <<modVars, coreVars, devt, device_list, minors, nodes, priv>>

\* kzalloc returns NULL: only a message is printed, and the next line stores
\* through the null pointer.  The probing task dies with the device's lock.
ProbeNoMemory(d) ==
  /\ "nomem" \in Env
  /\ CanProbe(d)
  /\ dev' = [dev EXCEPT ![d] = "dead"]
  /\ UNCHANGED <<modVars, drvdata, rm, objVars, listVars, priv>>

Probe(d) ==
  \/ \E s \in Structs : \/ ProbeDevice(d, s)
                        \/ ProbeCreateFails(d, s)
                        \/ ProbeNoMinor(d, s)
  \/ ProbeNoMemory(d)

(***************************************************************************)
(* omap3_spi_open and omap3_spi_release.                                   *)
(***************************************************************************)

\* mutant: only the first user is counted
CountOnce(u) == IF u = 0 THEN 1 ELSE u

IncUint(u) == IF u = UintMax THEN 0 ELSE u + 1
DecUint(u) == IF u = 0 THEN UintMax ELSE u - 1

\* Opening node m finds a struct with that devt, allocates the buffer when
\* it has none, counts the user.  An open that finds no struct, or no memory
\* for the buffer, changes nothing and is not a step.
Open(f, m) ==
  /\ module = "live"
  /\ device_list_lock = "unlocked"
  /\ priv[f] = NULL
  /\ \E s \in device_list :
       /\ devt[s] = m
       /\ buffer' = [buffer EXCEPT ![s] = TRUE]
       /\ users' = [users EXCEPT ![s] = IncUint(@)]
       /\ priv' = [priv EXCEPT ![f] = s]
  /\ UNCHANGED <<modVars, coreVars, mem, spi, devt, listVars>>

\* mutant: release always frees the struct
FreeAlways(s) == TRUE

\* dofree: the device is already gone, so the last user frees the struct.
DoFree(s) == spi[s] = NULL

Release(f) ==
  LET s == priv[f]
      last == DecUint(users[s]) = 0
  IN /\ device_list_lock = "unlocked"
     /\ s # NULL
     /\ "window" \in Env \/ \A d \in Devs : rm[d] # s
     /\ priv' = [priv EXCEPT ![f] = NULL]
     /\ users' = [users EXCEPT ![s] = DecUint(@)]
     /\ buffer' = [buffer EXCEPT ![s] = @ /\ ~last]
     /\ mem' = [mem EXCEPT ![s] = IF last /\ DoFree(s) THEN "free" ELSE @]
     /\ UNCHANGED <<modVars, coreVars, spi, devt, listVars>>

(***************************************************************************)
(* omap3_spi_remove: first the part under spi_lock, then the part under    *)
(* device_list_lock.                                                       *)
(***************************************************************************)

RemoveClear(d) ==
  /\ dev[d] = "bound"
  /\ module = "going" \/ (module = "live" /\ "unbind" \in Env)
  /\ drvdata[d] # NULL
  /\ rm' = [rm EXCEPT ![d] = drvdata[d]]
  /\ spi' = [spi EXCEPT ![drvdata[d]] = NULL]
  /\ drvdata' = [drvdata EXCEPT ![d] = NULL]
  /\ dev' = [dev EXCEPT ![d] = "removing"]
  /\ UNCHANGED <<modVars, mem, devt, users, buffer, listVars, priv>>

\* mutants: the bit stays set, users is not tested
BitKept(m) == minors
FreeUsed(s) == TRUE

ListDel(s) == device_list \ {s}
ClearBit(m) == minors \ {m}

\* remove frees the struct itself only when nobody has it open.
Unused(s) == users[s] = 0

RemoveUnlink(d) ==
  LET s == rm[d]
  IN /\ dev[d] = "removing"
     /\ device_list_lock = "unlocked"
     /\ device_list' = ListDel(s)
     /\ nodes' = nodes \ {devt[s]}
     /\ minors' = ClearBit(devt[s])
     /\ mem' = [mem EXCEPT ![s] = IF Unused(s) THEN "free" ELSE @]
     /\ rm' = [rm EXCEPT ![d] = NULL]
     /\ dev' = [dev EXCEPT ![d] = "unbound"]
     /\ UNCHANGED <<modVars, drvdata, spi, devt, users, buffer,
                    device_list_lock, priv>>

-----------------------------------------------------------------------------

Init ==
  /\ module = "unloaded" /\ registered = {}
  /\ dev = [d \in Devs |-> "unbound"]
  /\ drvdata = [d \in Devs |-> NULL]
  /\ rm = [d \in Devs |-> NULL]
  /\ mem = [s \in Structs |-> "free"]
  /\ spi = [s \in Structs |-> NULL]
  /\ devt = [s \in Structs |-> 0]
  /\ users = [s \in Structs |-> 0]
  /\ buffer = [s \in Structs |-> FALSE]
  /\ device_list = {} /\ minors = {} /\ nodes = {}
  /\ device_list_lock = "unlocked"
  /\ priv = [f \in Files |-> NULL]

ModuleStep == InitChrdev \/ InitClass \/ InitDriver \/ ExitDriver \/ ExitFinish

DeviceStep(d) == Probe(d) \/ RemoveClear(d) \/ RemoveUnlink(d)

FileStep(f) == Release(f) \/ \E m \in Minors : Open(f, m)

Next ==
  \/ ModuleStep
  \/ \E d \in Devs : DeviceStep(d)
  \/ \E f \in Files : FileStep(f)

Spec == Init /\ [][Next]_devVars

\* A running remove and a running rmmod are kernel threads that no user can
\* hold back; nobody is obliged to open, close, probe or unload.
Fairness ==
  /\ \A d \in Devs : WF_devVars(RemoveUnlink(d))
  /\ \A d \in Devs : WF_devVars(module = "going" /\ RemoveClear(d))
  /\ WF_devVars(ExitFinish)

FairSpec == Spec /\ Fairness

-----------------------------------------------------------------------------

(***************************************************************************)
(* Properties.                                                             *)
(***************************************************************************)

\* The struct a device of the driver core leads to: through its driver data
\* while it is bound, through the local variable of a running remove.
Owner(d) == IF dev[d] = "removing" THEN rm[d] ELSE drvdata[d]
Owned == {s \in Structs : \E d \in Devs : Owner(d) = s}

\* Every variable has its type (probe's minor stays below N_SPI_MINORS).
TypeOK ==
  /\ module \in ModuleStates
  /\ registered \subseteq Registrations
  /\ dev \in [Devs -> DevStates]
  /\ drvdata \in [Devs -> Structs \cup {NULL}]
  /\ rm \in [Devs -> Structs \cup {NULL}]
  /\ mem \in [Structs -> {"free", "live"}]
  /\ spi \in [Structs -> Devs \cup {NULL}]
  /\ devt \in [Structs -> Minors]
  /\ users \in [Structs -> 0 .. UintMax]
  /\ buffer \in [Structs -> BOOLEAN]
  /\ device_list \subseteq Structs
  /\ minors \subseteq Minors
  /\ nodes \subseteq Minors
  /\ device_list_lock \in {"unlocked", "locked"}
  /\ priv \in [Files -> Structs \cup {NULL}]

\* The three ways to find a struct agree: the driver core's data pointers,
\* the back pointer spidrv->spi and device_list.  No two devices share a
\* struct, a bound device's struct points back to it, a struct being removed
\* points nowhere, and the list holds exactly the structs devices lead to.
Ownership ==
  /\ \A d \in Devs : /\ (drvdata[d] # NULL) <=> (dev[d] = "bound")
                     /\ (rm[d] # NULL) <=> (dev[d] = "removing")
                     /\ dev[d] = "bound" => spi[drvdata[d]] = d
                     /\ dev[d] = "removing" => spi[rm[d]] = NULL
  /\ \A d, e \in Devs : Owner(d) = Owner(e) => d = e \/ Owner(d) = NULL
  /\ device_list = Owned

\* No use after free: whatever can still be reached, from the list, from a
\* device, from a remove in progress or from an open file, is allocated.
NoDangling ==
  \A s \in Structs :
    s \in device_list \cup Owned \/ Holders(s) # {} => mem[s] = "live"

\* spidrv->users is the number of open files on the struct, and the write
\* buffer exists exactly while there is one.
UsersCount ==
  \A s \in Structs : mem[s] = "live" =>
    /\ users[s] = Cardinality(Holders(s))
    /\ buffer[s] <=> users[s] > 0

\* The bitmap, the device nodes and the listed structs agree: each listed
\* struct has a minor of its own, and no other minor is in use.
MinorsExact ==
  /\ minors = {m \in Minors : \E s \in device_list : devt[s] = m}
  /\ nodes = minors
  /\ \A s, t \in device_list : devt[s] = devt[t] => s = t

\* A struct nobody can reach any more is freed, except by the probe that
\* returned with the lock held.
NoLeak ==
  \A s \in Structs :
    mem[s] = "live" => \/ s \in Owned
                       \/ Holders(s) # {} /\ spi[s] = NULL
                       \/ device_list_lock = "locked"

\* An unloaded module leaves nothing behind: no registration, no node, no
\* struct, no open file.
UnloadClean ==
  module = "unloaded" =>
    /\ registered = {} /\ nodes = {} /\ device_list = {}
    /\ \A s \in Structs : mem[s] = "free"
    /\ \A f \in Files : priv[f] = NULL

\* What the module's state says about the rest: the registrations follow it,
\* files are open only while it is live, devices are bound only while it is
\* live or going; and a lock that is never released leaves a device bound.
Phases ==
  /\ module = "unloaded" => registered = {}
  /\ module \in {"live", "going"} => registered = Registrations
  /\ module # "live" => \A f \in Files : priv[f] = NULL
  /\ module \notin {"live", "going"} => \A d \in Devs : dev[d] = "unbound"
  /\ \A d \in Devs : rm[d] # NULL => module = "going" \/ "unbind" \in Env
  /\ device_list_lock = "locked" => device_list # {}

\* The inductive invariant behind the theorems of SpiDevice_proofs.
IInv ==
  /\ TypeOK /\ Phases /\ Ownership /\ NoDangling
  /\ UsersCount /\ MinorsExact /\ NoLeak

\* "if something failed, free the struct", says omap3_spi_probe: every struct
\* that stays allocated is still reachable.
FailedProbeFrees ==
  \A s \in Structs : mem[s] = "live" => s \in Owned \/ Holders(s) # {}

\* Seen from outside, the driver's structs are plain reference-counted
\* objects: bound exactly while on device_list, then kept for their files and
\* no longer.  The struct that a failed probe leaves behind, the lock still
\* held, was never visible to anyone.
objState ==
  [s \in Structs |->
     IF s \in device_list THEN "bound"
     ELSE IF mem[s] = "free" \/ (device_list_lock = "locked" /\ Holders(s) = {})
     THEN "free" ELSE "zombie"]

Refcount == INSTANCE SpiRefcount WITH obj <- objState, ref <- priv
RefcountSpec == Refcount!Spec

\* rmmod, once begun, ends.
ExitCompletes == module = "going" ~> module = "unloaded"

=============================================================================
