-------------------------- MODULE SpiDevice_proofs --------------------------
(***************************************************************************)
(* Proofs that the invariants of SpiDevice hold for all numbers of         *)
(* devices, structs, files and minors, in every environment except the one *)
(* in which a release may run inside the unlocked window of a remove that  *)
(* is not part of rmmod.  IInv is inductive; UnloadClean follows from it.  *)
(* So does, at the end, that each step is a step of SpiRefcount or none.   *)
(***************************************************************************)
EXTENDS SpiDevice, FiniteSetTheorems, TLAPS

\* The environments the theorems are about.
SafeEnv == ~({"window", "unbind"} \subseteq Env)

-----------------------------------------------------------------------------
(* Counting the files on a struct. *)

\* The files on a struct are finitely many, and unsigned int can count them.
LEMMA HoldersFinite ==
  ASSUME NEW s
  PROVE  /\ IsFiniteSet(Holders(s))
         /\ Cardinality(Holders(s)) \in Nat
         /\ Cardinality(Holders(s)) <= UintMax
<1>1. Holders(s) \subseteq Files  BY DEF Holders
<1>2. IsFiniteSet(Files) /\ UintMax \in Nat /\ Cardinality(Files) <= UintMax
  BY FilesAssumption
<1>3. IsFiniteSet(Holders(s)) /\ Cardinality(Holders(s)) <= Cardinality(Files)
  BY <1>1, <1>2, FS_Subset
<1>4. Cardinality(Holders(s)) \in Nat /\ Cardinality(Files) \in Nat
  BY <1>2, <1>3, FS_CardinalityType
<1> QED BY <1>2, <1>3, <1>4

\* A count of zero means no file at all.
LEMMA HoldersEmpty ==
  ASSUME NEW s
  PROVE  Cardinality(Holders(s)) = 0 <=> Holders(s) = {}
BY HoldersFinite, FS_EmptySet

\* Opening adds one file to the count of one struct, and the counter does
\* not wrap.
LEMMA HoldersOpen ==
  ASSUME TypeOK, NEW f \in Files, NEW s \in Structs, priv[f] = NULL,
         priv' = [priv EXCEPT ![f] = s]
  PROVE  /\ Holders(s)' = Holders(s) \cup {f}
         /\ Cardinality(Holders(s)') = Cardinality(Holders(s)) + 1
         /\ Cardinality(Holders(s)) < UintMax
         /\ \A t \in Structs \ {s} : Holders(t)' = Holders(t)
<1>1. s # NULL  BY NullAssumption
<1>2. Holders(s)' = Holders(s) \cup {f} /\ f \notin Holders(s)
  BY <1>1 DEF Holders, TypeOK
<1>3. \A t \in Structs \ {s} : Holders(t)' = Holders(t)
  BY NullAssumption DEF Holders, TypeOK
<1>4. Holders(s) \cup {f} \subseteq Files  BY DEF Holders
<1>5. Cardinality(Holders(s) \cup {f}) <= UintMax
  <2>1. Cardinality(Holders(s) \cup {f}) <= Cardinality(Files)
    BY <1>4, FilesAssumption, FS_Subset
  <2>2. Cardinality(Holders(s) \cup {f}) \in Nat /\ Cardinality(Files) \in Nat
    BY <1>4, FilesAssumption, FS_Subset, FS_CardinalityType
  <2> QED BY <2>1, <2>2, FilesAssumption
<1>6. Cardinality(Holders(s) \cup {f}) = Cardinality(Holders(s)) + 1
  BY <1>2, HoldersFinite, FS_AddElement
<1> QED BY <1>2, <1>3, <1>5, <1>6, HoldersFinite, FilesAssumption

\* Closing takes one file off the count of one struct.
LEMMA HoldersRelease ==
  ASSUME TypeOK, NEW f \in Files, NEW s \in Structs, priv[f] = s,
         priv' = [priv EXCEPT ![f] = NULL]
  PROVE  /\ Holders(s)' = Holders(s) \ {f}
         /\ Cardinality(Holders(s)) > 0
         /\ Cardinality(Holders(s)') = Cardinality(Holders(s)) - 1
         /\ \A t \in Structs \ {s} : Holders(t)' = Holders(t)
<1>1. s # NULL  BY NullAssumption
<1>2. Holders(s)' = Holders(s) \ {f} /\ f \in Holders(s)
  BY <1>1 DEF Holders, TypeOK
<1>3. \A t \in Structs \ {s} : Holders(t)' = Holders(t)
  BY NullAssumption DEF Holders, TypeOK
<1>4. Cardinality(Holders(s) \ {f}) = Cardinality(Holders(s)) - 1
  BY <1>2, HoldersFinite, FS_RemoveElement
<1>5. Cardinality(Holders(s)) # 0  BY <1>2, HoldersEmpty
<1> QED BY <1>2, <1>3, <1>4, <1>5, HoldersFinite

-----------------------------------------------------------------------------
(* The inductive invariant. *)

\* The invariant holds initially.
LEMMA InitIInv == Init => IInv
<1> SUFFICES ASSUME Init PROVE IInv  OBVIOUS
<1>1. Owned = {} /\ \A s \in Structs : Holders(s) = {}
  BY NullAssumption DEF Init, Owned, Owner, Holders
<1>2. TypeOK
  BY NMinorsAssumption, FilesAssumption
     DEF Init, TypeOK, ModuleStates, DevStates, Minors
<1>3. Phases  BY DEF Init, Phases
<1>4. Ownership  BY <1>1 DEF Init, Ownership, Owner
<1>5. NoDangling /\ UsersCount /\ NoLeak
  BY <1>1 DEF Init, NoDangling, UsersCount, NoLeak
<1>6. MinorsExact  BY DEF Init, MinorsExact
<1> QED BY <1>2, <1>3, <1>4, <1>5, <1>6 DEF IInv

\* Loading and unloading the module change nothing but the module's own
\* state; the reset of static data at load finds it reset.
LEMMA ModuleStepFrame ==
  ASSUME IInv, ModuleStep
  PROVE  UNCHANGED <<coreVars, objVars, listVars, priv>>
<1> USE DEF IInv
<1>1. UNCHANGED <<coreVars, objVars, nodes, priv>>
  BY DEF ModuleStep, InitChrdev, InitClass, InitDriver, ExitDriver, ExitFinish,
         listVars
<1>2. UNCHANGED <<device_list, minors>> /\ device_list_lock' = device_list_lock
  <2>1. CASE InitChrdev
    <3>1. \A d \in Devs : Owner(d) = NULL
      BY <2>1 DEF InitChrdev, Phases, Ownership, Owner
    <3>2. device_list = {}  BY <3>1, NullAssumption DEF Ownership, Owned
    <3>3. minors = {} /\ device_list_lock = "unlocked"
      BY <3>2 DEF MinorsExact, Phases, TypeOK
    <3> QED BY <2>1, <3>2, <3>3 DEF InitChrdev
  <2> QED BY <2>1 DEF ModuleStep, InitClass, InitDriver, ExitDriver, ExitFinish,
                      listVars
<1> QED BY <1>1, <1>2 DEF listVars

\* Hence they preserve the invariant.
LEMMA ModuleStepIInv == IInv /\ ModuleStep => IInv'
<1> SUFFICES ASSUME IInv, ModuleStep PROVE IInv'  OBVIOUS
<1> USE DEF IInv
<1>1. UNCHANGED <<coreVars, objVars, nodes, priv>>
  BY ModuleStepFrame DEF listVars
<1>2. UNCHANGED <<device_list, minors>> /\ device_list_lock' = device_list_lock
  BY ModuleStepFrame DEF listVars
<1>3. \A s : Holders(s)' = Holders(s)  BY <1>1 DEF Holders
<1>4. Owned' = Owned /\ \A d : Owner(d)' = Owner(d)
  BY <1>1 DEF Owned, Owner, coreVars
<1>5. TypeOK'
  BY <1>1, <1>2 DEF TypeOK, coreVars, objVars, ModuleStep, InitChrdev, InitClass,
     InitDriver, ExitDriver, ExitFinish, ModuleStates, Registrations
<1>6. Phases'
  <2>1. UNCHANGED <<dev, rm, priv, device_list, device_list_lock>>
    BY <1>1, <1>2 DEF coreVars
  <2>2. \A d \in Devs : rm[d] # NULL => dev[d] # "unbound"  BY DEF Ownership
  <2>3. CASE InitChrdev  BY <2>1, <2>2, <2>3 DEF InitChrdev, Phases
  <2>4. CASE InitClass  BY <2>1, <2>2, <2>4 DEF InitClass, Phases
  <2>5. CASE InitDriver
    BY <2>1, <2>2, <2>5 DEF InitDriver, Unwind, Registrations, Phases
  <2>6. CASE ExitDriver  BY <2>1, <2>2, <2>6 DEF ExitDriver, Unpinned, Phases
  <2>7. CASE ExitFinish  BY <2>1, <2>2, <2>7 DEF ExitFinish, Phases
  <2> QED BY <2>3, <2>4, <2>5, <2>6, <2>7 DEF ModuleStep
<1>7. (Ownership /\ NoDangling)'
  BY <1>1, <1>2, <1>3, <1>4 DEF Ownership, NoDangling, coreVars, objVars
<1>8. (UsersCount /\ MinorsExact /\ NoLeak)'
  BY <1>1, <1>2, <1>3, <1>4 DEF UsersCount, MinorsExact, NoLeak, objVars
<1> QED BY <1>5, <1>6, <1>7, <1>8

\* A successful probe preserves it: the struct was free, so nobody led to it,
\* and the minor was in use by no struct on the list.
LEMMA ProbeDeviceIInv ==
  ASSUME IInv, NEW d \in Devs, NEW s \in Structs, ProbeDevice(d, s)
  PROVE  IInv'
<1> USE DEF IInv
<1> PICK m \in 0 .. NMinors :
      /\ FirstZeroBit(m) /\ Available(m)
      /\ devt' = [devt EXCEPT ![s] = m]
      /\ nodes' = nodes \cup {m}
      /\ minors' = minors \cup {m}
  BY DEF ProbeDevice
<1>1. m \in Minors \ minors
  BY NMinorsAssumption DEF FirstZeroBit, Available, Minors
<1>2. s \notin device_list /\ s \notin Owned /\ Holders(s) = {}
  BY DEF ProbeDevice, Kzalloc, NoDangling
<1>3. s # NULL /\ d # NULL  BY NullAssumption
<1>4. \A t : Holders(t)' = Holders(t)  BY DEF ProbeDevice, Holders
<1>5. /\ Owner(d)' = s /\ Owner(d) = NULL
      /\ \A e \in Devs \ {d} : Owner(e)' = Owner(e)
  BY DEF ProbeDevice, CanProbe, Ownership, Owner, TypeOK
<1>6. Owned' = Owned \cup {s}
  BY <1>5, NullAssumption DEF Owned
<1>7. TypeOK'
  BY <1>1, FilesAssumption DEF TypeOK, ProbeDevice, Kzalloc, modVars, DevStates
<1>8. Phases'
  <2>1. module = "live" /\ UNCHANGED <<modVars, rm, priv>>
    BY DEF ProbeDevice, CanProbe
  <2>2. device_list' # {}  BY DEF ProbeDevice
  <2> QED BY <2>1, <2>2 DEF Phases, modVars
<1>9. Ownership'
  <2>1. \A e \in Devs :
          /\ (drvdata'[e] # NULL) <=> (dev'[e] = "bound")
          /\ (rm'[e] # NULL) <=> (dev'[e] = "removing")
    BY <1>3 DEF Ownership, ProbeDevice, CanProbe, TypeOK
  <2>2. \A e \in Devs : /\ dev'[e] = "bound" => spi'[drvdata'[e]] = e
                        /\ dev'[e] = "removing" => spi'[rm'[e]] = NULL
    <3> SUFFICES ASSUME NEW e \in Devs
                 PROVE  /\ dev'[e] = "bound" => spi'[drvdata'[e]] = e
                        /\ dev'[e] = "removing" => spi'[rm'[e]] = NULL
      OBVIOUS
    <3>1. CASE e = d  BY <3>1 DEF ProbeDevice, Kzalloc, TypeOK
    <3>2. CASE e # d
      <4>1. drvdata'[e] = drvdata[e] /\ rm'[e] = rm[e] /\ dev'[e] = dev[e]
        BY <3>2 DEF ProbeDevice, TypeOK
      <4>2. Owner(e) # s  BY <1>2 DEF Owned
      <4>3. \A t \in Structs \ {s} : spi'[t] = spi[t]
        BY DEF ProbeDevice, Kzalloc, TypeOK
      <4> QED BY <4>1, <4>2, <4>3 DEF Ownership, Owner, TypeOK
    <3> QED BY <3>1, <3>2
  <2>3. \A e, g \in Devs :
          Owner(e)' = Owner(g)' => e = g \/ Owner(e)' = NULL
    BY <1>2, <1>5 DEF Ownership, Owned
  <2>4. (device_list = Owned)'
    BY <1>6 DEF Ownership, ProbeDevice
  <2> QED BY <2>1, <2>2, <2>3, <2>4 DEF Ownership
<1>10. NoDangling'
  BY <1>4, <1>6 DEF NoDangling, ProbeDevice, TypeOK
<1>11. UsersCount'
  BY <1>2, <1>4, HoldersEmpty DEF UsersCount, ProbeDevice, Kzalloc, TypeOK
<1>12. MinorsExact'
  <2>1. devt'[s] = m /\ \A t \in device_list : devt'[t] = devt[t] /\ devt[t] # m
    BY <1>1, <1>2 DEF MinorsExact, TypeOK
  <2>2. device_list' = device_list \cup {s}  BY DEF ProbeDevice
  <2> QED BY <1>1, <2>1, <2>2 DEF MinorsExact
<1>13. NoLeak'
  BY <1>2, <1>4, <1>6 DEF NoLeak, ProbeDevice, Kzalloc, TypeOK
<1> QED BY <1>7, <1>8, <1>9, <1>10, <1>11, <1>12, <1>13

\* A probe that fails writes only to a struct that was free.  The one that
\* finds no minor leaves it allocated and the lock held; every minor is then
\* in use, so the list is not empty.
LEMMA ProbeFailsIInv ==
  ASSUME IInv, NEW d \in Devs, NEW s \in Structs,
         ProbeCreateFails(d, s) \/ ProbeNoMinor(d, s)
  PROVE  IInv'
<1> USE DEF IInv
<1>1. /\ mem[s] = "free" /\ Kzalloc(d, s)
      /\ UNCHANGED <<modVars, coreVars, device_list, minors, nodes, priv>>
  BY DEF ProbeCreateFails, ProbeNoMinor, Kzalloc, listVars
<1>2. s \notin device_list /\ s \notin Owned /\ Holders(s) = {}
  BY <1>1 DEF NoDangling
<1>3. \A t : Holders(t)' = Holders(t)  BY <1>1 DEF Holders
<1>4. Owned' = Owned /\ \A e : Owner(e)' = Owner(e)
  BY <1>1 DEF Owned, Owner, coreVars
<1>5. \A t \in Structs \ {s} :
        /\ spi'[t] = spi[t] /\ users'[t] = users[t] /\ buffer'[t] = buffer[t]
        /\ mem'[t] = mem[t] /\ devt'[t] = devt[t]
  BY DEF ProbeCreateFails, ProbeNoMinor, Kzalloc, TypeOK
<1>6. /\ mem'[s] = "live" => device_list_lock' = "locked"
      /\ device_list_lock = "locked" => device_list_lock' = "locked"
      /\ users'[s] = 0 /\ ~buffer'[s]
  BY <1>1 DEF ProbeCreateFails, ProbeNoMinor, Kzalloc, listVars, TypeOK
<1>7. TypeOK'
  <2>1. devt' \in [Structs -> Minors]
    BY NMinorsAssumption
    DEF TypeOK, ProbeCreateFails, ProbeNoMinor, Available, Minors
  <2>2. /\ mem' \in [Structs -> {"free", "live"}]
        /\ device_list_lock' \in {"unlocked", "locked"}
    BY DEF TypeOK, ProbeCreateFails, ProbeNoMinor, listVars
  <2>3. /\ spi' \in [Structs -> Devs \cup {NULL}]
        /\ users' \in [Structs -> 0 .. UintMax]
        /\ buffer' \in [Structs -> BOOLEAN]
    BY <1>1, FilesAssumption DEF TypeOK, Kzalloc
  <2> QED BY <1>1, <2>1, <2>2, <2>3 DEF TypeOK, modVars, coreVars
<1>8. Phases'
  <2>1. CASE ProbeCreateFails(d, s)
    BY <1>1, <2>1 DEF ProbeCreateFails, Phases, modVars, coreVars, listVars
  <2>2. CASE ProbeNoMinor(d, s)
    <3>1. PICK m \in 0 .. NMinors : FirstZeroBit(m) /\ ~Available(m)
      BY <2>2 DEF ProbeNoMinor
    <3>2. 0 \in minors
      BY <3>1, NMinorsAssumption DEF FirstZeroBit, Available
    <3>3. device_list # {}  BY <3>2 DEF MinorsExact
    <3> QED BY <1>1, <3>3 DEF Phases, modVars, coreVars
  <2> QED BY <2>1, <2>2
<1>9. Ownership'
  <2>1. \A e \in Devs : Owner(e) # s  BY <1>2 DEF Owned
  <2>2. \A e \in Devs : /\ dev[e] = "bound" => spi'[drvdata[e]] = e
                        /\ dev[e] = "removing" => spi'[rm[e]] = NULL
    BY <1>5, <2>1 DEF Ownership, Owner, TypeOK
  <2> QED BY <1>1, <1>4, <2>2 DEF Ownership, coreVars
<1>10. NoDangling'
  BY <1>1, <1>2, <1>3, <1>4, <1>5 DEF NoDangling
<1>11. UsersCount'
  <2>1. Cardinality(Holders(s)) = 0  BY <1>2, HoldersEmpty
  <2> QED BY <1>3, <1>5, <1>6, <2>1 DEF UsersCount
<1>12. MinorsExact'
  <2>1. \A t \in device_list : devt'[t] = devt[t]  BY <1>2, <1>5 DEF TypeOK
  <2> QED BY <1>1, <2>1 DEF MinorsExact
<1>13. NoLeak'
  BY <1>3, <1>4, <1>5, <1>6 DEF NoLeak
<1> QED BY <1>7, <1>8, <1>9, <1>10, <1>11, <1>12, <1>13

\* A probe without memory changes only the device's state.
LEMMA ProbeNoMemoryIInv ==
  ASSUME IInv, NEW d \in Devs, ProbeNoMemory(d)
  PROVE  IInv'
<1> USE DEF IInv
<1>1. UNCHANGED <<modVars, drvdata, rm, objVars, listVars, priv>>
  BY DEF ProbeNoMemory
<1>2. \A t : Holders(t)' = Holders(t)  BY <1>1 DEF Holders
<1>3. Owned' = Owned /\ \A e \in Devs : Owner(e)' = Owner(e)
  <2>1. \A e \in Devs : Owner(e)' = Owner(e)
    BY DEF ProbeNoMemory, CanProbe, Owner, TypeOK
  <2> QED BY <2>1 DEF Owned
<1>4. TypeOK'
  BY <1>1 DEF TypeOK, ProbeNoMemory, DevStates, modVars, objVars, listVars
<1>5. Phases'
  BY <1>1 DEF Phases, ProbeNoMemory, CanProbe, modVars, listVars
<1>6. Ownership'
  BY <1>1, <1>3 DEF Ownership, ProbeNoMemory, CanProbe, TypeOK, objVars, listVars
<1>7. (NoDangling /\ UsersCount)'
  BY <1>1, <1>2, <1>3 DEF NoDangling, UsersCount, objVars, listVars
<1>8. (MinorsExact /\ NoLeak)'
  BY <1>1, <1>2, <1>3 DEF MinorsExact, NoLeak, objVars, listVars
<1> QED BY <1>4, <1>5, <1>6, <1>7, <1>8

\* open counts the file it adds.
LEMMA OpenIInv ==
  ASSUME IInv, NEW f \in Files, NEW m \in Minors, Open(f, m)
  PROVE  IInv'
<1> USE DEF IInv
<1> PICK s \in device_list :
      /\ buffer' = [buffer EXCEPT ![s] = TRUE]
      /\ users' = [users EXCEPT ![s] = IncUint(@)]
      /\ priv' = [priv EXCEPT ![f] = s]
  BY DEF Open
<1>1. s \in Structs /\ mem[s] = "live" /\ priv[f] = NULL /\ module = "live"
  BY DEF TypeOK, NoDangling, Open
<1>2. UNCHANGED <<modVars, coreVars, mem, spi, devt, listVars>>  BY DEF Open
<1>3. /\ Holders(s)' = Holders(s) \cup {f}
      /\ Cardinality(Holders(s)') = Cardinality(Holders(s)) + 1
      /\ Cardinality(Holders(s)) < UintMax
      /\ \A t \in Structs \ {s} : Holders(t)' = Holders(t)
  BY <1>1, HoldersOpen
<1>4. Owned' = Owned /\ \A e : Owner(e)' = Owner(e)
  BY <1>2 DEF Owned, Owner, coreVars
<1>5. users'[s] = users[s] + 1 /\ users'[s] \in 0 .. UintMax
  <2>1. users[s] = Cardinality(Holders(s)) /\ users[s] \in Nat
    BY <1>1, HoldersFinite DEF UsersCount
  <2>2. users'[s] = IncUint(users[s])  BY <1>1 DEF TypeOK
  <2> QED BY <1>3, <2>1, <2>2, FilesAssumption DEF IncUint
<1>6. TypeOK'
  <2>1. users' \in [Structs -> 0 .. UintMax]
    BY <1>1, <1>5 DEF TypeOK
  <2> QED BY <1>1, <1>2, <2>1 DEF TypeOK, modVars, coreVars, listVars
<1>7. Phases'
  BY <1>1, <1>2 DEF Phases, modVars, coreVars, listVars
<1>8. Ownership'
  BY <1>2, <1>4 DEF Ownership, coreVars, listVars
<1>9. NoDangling'
  BY <1>1, <1>2, <1>3, <1>4 DEF NoDangling, listVars
<1>10. UsersCount'
  <2>1. \A t \in Structs \ {s} : users'[t] = users[t] /\ buffer'[t] = buffer[t]
    BY <1>1 DEF TypeOK
  <2>2. buffer'[s] /\ users'[s] > 0
    BY <1>1, <1>5, <1>3, HoldersFinite DEF TypeOK, UsersCount
  <2>3. users'[s] = Cardinality(Holders(s)')
    BY <1>1, <1>3, <1>5 DEF UsersCount
  <2> QED BY <1>2, <1>3, <2>1, <2>2, <2>3 DEF UsersCount
<1>11. MinorsExact'  BY <1>2 DEF MinorsExact, listVars
<1>12. NoLeak'
  <2>1. s \in Owned  BY DEF Ownership
  <2> QED BY <1>2, <1>3, <1>4, <2>1 DEF NoLeak, listVars
<1> QED BY <1>6, <1>7, <1>8, <1>9, <1>10, <1>11, <1>12

\* In a safe environment no release meets a remove in progress: either the
\* environment excludes it, or the remove belongs to rmmod, which waits for
\* all files to be closed.
LEMMA NoReleaseInRemove ==
  ASSUME SafeEnv, IInv, NEW f \in Files, Release(f)
  PROVE  \A d \in Devs : rm[d] # priv[f]
BY DEF SafeEnv, IInv, Phases, Release

\* release frees the struct only when its device is gone and f was the last
\* file on it, so that nobody leads to it any more.
LEMMA ReleaseIInv ==
  ASSUME SafeEnv, IInv, NEW f \in Files, Release(f)
  PROVE  IInv'
<1> USE DEF IInv
<1> PICK s \in Structs : s = priv[f]
  BY DEF TypeOK, Release
<1> PICK last \in BOOLEAN : last <=> DecUint(users[s]) = 0
  OBVIOUS
<1>1. /\ s \in Structs /\ mem[s] = "live" /\ module = "live"
      /\ device_list_lock = "unlocked"
  <2>1. s \in Structs /\ s # NULL  BY DEF Release
  <2>2. f \in Holders(s)  BY DEF Holders
  <2> QED BY <2>1, <2>2 DEF NoDangling, Phases, Release
<1>2. /\ priv' = [priv EXCEPT ![f] = NULL]
      /\ users' = [users EXCEPT ![s] = DecUint(@)]
      /\ buffer' = [buffer EXCEPT ![s] = @ /\ ~last]
      /\ mem' = [mem EXCEPT ![s] = IF last /\ DoFree(s) THEN "free" ELSE @]
      /\ UNCHANGED <<modVars, coreVars, spi, devt, listVars>>
  BY DEF Release
<1>3. /\ Holders(s)' = Holders(s) \ {f}
      /\ Cardinality(Holders(s)) > 0
      /\ Cardinality(Holders(s)') = Cardinality(Holders(s)) - 1
      /\ \A t \in Structs \ {s} : Holders(t)' = Holders(t)
  BY <1>1, <1>2, HoldersRelease
<1>4. Owned' = Owned /\ \A e : Owner(e)' = Owner(e)
  BY <1>2 DEF Owned, Owner, coreVars
<1>5. /\ users'[s] = users[s] - 1 /\ users'[s] \in 0 .. UintMax
      /\ users'[s] = Cardinality(Holders(s)')
      /\ last <=> Holders(s)' = {}
      /\ last <=> users'[s] = 0
  <2>1. users[s] = Cardinality(Holders(s)) /\ users[s] \in Nat
    BY <1>1, HoldersFinite DEF UsersCount
  <2>2. users'[s] = DecUint(users[s])  BY <1>1, <1>2 DEF TypeOK
  <2>3. DecUint(users[s]) = users[s] - 1  BY <1>3, <2>1 DEF DecUint
  <2>4. users[s] <= UintMax  BY <1>1 DEF TypeOK
  <2>5. users[s] - 1 = 0 <=> Holders(s)' = {}
    <3>1. Cardinality(Holders(s) \ {f}) = 0 <=> Holders(s) \ {f} = {}
      <4>1. IsFiniteSet(Holders(s) \ {f})
        BY HoldersFinite, FS_Subset
      <4> QED BY <4>1, FS_EmptySet
    <3> QED BY <1>3, <2>1, <3>1
  <2> QED BY <1>3, <2>1, <2>2, <2>3, <2>4, <2>5, FilesAssumption
<1>6. \A t \in Structs \ {s} : /\ users'[t] = users[t] /\ buffer'[t] = buffer[t]
                               /\ mem'[t] = mem[t]
  BY <1>1, <1>2 DEF TypeOK
<1>7. mem'[s] = IF last /\ spi[s] = NULL THEN "free" ELSE "live"
  BY <1>1, <1>2 DEF TypeOK, DoFree
<1>8. buffer'[s] <=> buffer[s] /\ ~last
  BY <1>1, <1>2 DEF TypeOK
<1>9. spi[s] = NULL => s \notin Owned
  <2> SUFFICES ASSUME NEW d \in Devs, Owner(d) = s, spi[s] = NULL PROVE FALSE
    BY DEF Owned
  <2>1. dev[d] # "removing"
    BY NoReleaseInRemove DEF Owner
  <2>2. drvdata[d] = s /\ drvdata[d] # NULL
    BY <1>1, <2>1, NullAssumption DEF Owner
  <2> QED BY <2>2, NullAssumption DEF Ownership
<1>10. TypeOK'
  <2>1. users' \in [Structs -> 0 .. UintMax]
    BY <1>1, <1>2, <1>5 DEF TypeOK
  <2>2. mem' \in [Structs -> {"free", "live"}]
    BY <1>1, <1>2, <1>7 DEF TypeOK
  <2>3. buffer' \in [Structs -> BOOLEAN]
    BY <1>1, <1>2 DEF TypeOK
  <2>4. priv' \in [Files -> Structs \cup {NULL}]  BY <1>2 DEF TypeOK
  <2> QED BY <1>2, <2>1, <2>2, <2>3, <2>4 DEF TypeOK, modVars, coreVars, listVars
<1>11. Phases'
  BY <1>1, <1>2 DEF Phases, modVars, coreVars, listVars
<1>12. Ownership'
  BY <1>2, <1>4 DEF Ownership, coreVars, listVars
<1>13. NoDangling'
  <2>1. spi[s] = NULL => s \notin device_list  BY <1>9 DEF Ownership
  <2>2. device_list' = device_list  BY <1>2 DEF listVars
  <2>3. last /\ spi[s] = NULL => s \notin device_list' \cup Owned' /\ Holders(s)' = {}
    BY <1>4, <1>5, <1>9, <2>1, <2>2
  <2>4. mem'[s] # "live" => s \notin device_list' \cup Owned' /\ Holders(s)' = {}
    BY <1>7, <2>3
  <2> QED BY <1>3, <1>4, <1>6, <2>2, <2>4 DEF NoDangling
<1>14. UsersCount'
  <2>1. buffer'[s] <=> users'[s] > 0
    <3>1. buffer[s]  BY <1>1, <1>3 DEF UsersCount
    <3>2. last <=> users'[s] = 0  BY <1>5
    <3>3. \A n \in 0 .. UintMax : n > 0 <=> n # 0  BY FilesAssumption
    <3>4. users'[s] > 0 <=> users'[s] # 0  BY <1>5, <3>3
    <3> QED BY <1>8, <3>1, <3>2, <3>4
  <2>2. ASSUME NEW t \in Structs, t # s, mem'[t] = "live"
        PROVE  /\ users'[t] = Cardinality(Holders(t)')
               /\ buffer'[t] <=> users'[t] > 0
    BY <1>3, <1>6, <2>2 DEF UsersCount
  <2>3. users'[s] = Cardinality(Holders(s)')  BY <1>5
  <2> QED BY <2>1, <2>2, <2>3 DEF UsersCount
<1>15. MinorsExact'  BY <1>2 DEF MinorsExact, listVars
<1>16. NoLeak'
  <2>1. mem'[s] = "live" => s \in Owned' \/ (Holders(s)' # {} /\ spi'[s] = NULL)
    BY <1>1, <1>2, <1>4, <1>5, <1>7 DEF NoLeak
  <2> QED BY <1>2, <1>3, <1>4, <1>6, <2>1 DEF NoLeak, listVars
<1> QED BY <1>10, <1>11, <1>12, <1>13, <1>14, <1>15, <1>16

\* The first half of remove moves the struct from the driver data to the
\* local variable and clears the back pointer.
LEMMA RemoveClearIInv ==
  ASSUME IInv, NEW d \in Devs, RemoveClear(d)
  PROVE  IInv'
<1> USE DEF IInv
<1> PICK s \in Structs : s = drvdata[d]
  BY DEF RemoveClear, TypeOK
<1>1. /\ rm' = [rm EXCEPT ![d] = s]
      /\ spi' = [spi EXCEPT ![s] = NULL]
      /\ drvdata' = [drvdata EXCEPT ![d] = NULL]
      /\ dev' = [dev EXCEPT ![d] = "removing"]
      /\ UNCHANGED <<modVars, mem, devt, users, buffer, listVars, priv>>
  BY DEF RemoveClear
<1>2. s # NULL /\ dev[d] = "bound"  BY DEF RemoveClear
<1>3. \A t : Holders(t)' = Holders(t)  BY <1>1 DEF Holders
<1>4. \A e \in Devs : Owner(e)' = Owner(e)
  BY <1>1, <1>2 DEF Owner, TypeOK
<1>5. Owned' = Owned /\ s \in Owned
  BY <1>2, <1>4 DEF Owned, Owner
<1>6. TypeOK'
  BY <1>1 DEF TypeOK, DevStates, modVars, listVars
<1>7. Phases'
  <2>1. module = "going" \/ "unbind" \in Env  BY DEF RemoveClear
  <2>2. module \in {"live", "going"}  BY DEF RemoveClear
  <2> QED BY <1>1, <2>1, <2>2 DEF Phases, modVars, listVars
<1>8. Ownership'
  <2> SUFFICES ASSUME NEW e \in Devs
               PROVE  /\ (drvdata'[e] # NULL) <=> (dev'[e] = "bound")
                      /\ (rm'[e] # NULL) <=> (dev'[e] = "removing")
                      /\ dev'[e] = "bound" => spi'[drvdata'[e]] = e
                      /\ dev'[e] = "removing" => spi'[rm'[e]] = NULL
    BY <1>1, <1>4, <1>5 DEF Ownership, listVars
  <2>1. CASE e = d  BY <1>1, <1>2, <2>1 DEF Ownership, TypeOK
  <2>2. CASE e # d
    <3>1. drvdata'[e] = drvdata[e] /\ rm'[e] = rm[e] /\ dev'[e] = dev[e]
      BY <1>1, <2>2 DEF TypeOK
    <3>2. Owner(d) = s  BY <1>2 DEF Owner
    <3>3. Owner(e) # s  BY <1>2, <2>2, <3>2 DEF Ownership
    <3>4. \A t \in Structs \ {s} : spi'[t] = spi[t]  BY <1>1 DEF TypeOK
    <3> QED BY <3>1, <3>3, <3>4 DEF Ownership, Owner, TypeOK
  <2> QED BY <2>1, <2>2
<1>9. (NoDangling /\ UsersCount /\ MinorsExact)'
  BY <1>1, <1>3, <1>5 DEF NoDangling, UsersCount, MinorsExact, listVars
<1>10. NoLeak'
  <2>1. \A t \in Structs \ {s} : spi'[t] = spi[t]  BY <1>1 DEF TypeOK
  <2> QED BY <1>1, <1>3, <1>5, <2>1 DEF NoLeak, listVars
<1> QED BY <1>6, <1>7, <1>8, <1>9, <1>10

\* The second half takes the struct off the list and frees it unless files
\* still hold it; those find its spi cleared.
LEMMA RemoveUnlinkIInv ==
  ASSUME IInv, NEW d \in Devs, RemoveUnlink(d)
  PROVE  IInv'
<1> USE DEF IInv
<1>1. dev[d] = "removing" /\ rm[d] # NULL /\ device_list_lock = "unlocked"
  BY DEF RemoveUnlink, Ownership
<1> PICK s \in Structs : s = rm[d]
  BY <1>1 DEF TypeOK
<1>2. /\ device_list' = device_list \ {s}
      /\ nodes' = nodes \ {devt[s]}
      /\ minors' = minors \ {devt[s]}
      /\ mem' = [mem EXCEPT ![s] = IF users[s] = 0 THEN "free" ELSE @]
      /\ rm' = [rm EXCEPT ![d] = NULL]
      /\ dev' = [dev EXCEPT ![d] = "unbound"]
      /\ UNCHANGED <<modVars, drvdata, spi, devt, users, buffer,
                     device_list_lock, priv>>
  BY DEF RemoveUnlink, ListDel, ClearBit, Unused
<1>3. \A t : Holders(t)' = Holders(t)  BY <1>2 DEF Holders
<1>4. /\ Owner(d) = s /\ Owner(d)' = NULL
      /\ \A e \in Devs \ {d} : Owner(e)' = Owner(e) /\ Owner(e) # s
  <2>1. Owner(d) = s /\ Owner(d)' = NULL
    BY <1>1, <1>2 DEF Owner, Ownership, TypeOK
  <2>2. \A e \in Devs \ {d} : Owner(e)' = Owner(e)
    BY <1>2 DEF Owner, TypeOK
  <2> QED BY <1>1, <2>1, <2>2 DEF Ownership
<1>5. Owned' = Owned \ {s} /\ s \in device_list /\ s \in Owned
  BY <1>4, NullAssumption DEF Owned, Ownership
<1>6. mem[s] = "live"  BY <1>5 DEF NoDangling
<1>7. /\ \A t \in Structs \ {s} : mem'[t] = mem[t]
      /\ mem'[s] = IF Holders(s) = {} THEN "free" ELSE "live"
  BY <1>2, <1>6, HoldersEmpty DEF UsersCount, TypeOK
<1>8. TypeOK'
  BY <1>2 DEF TypeOK, DevStates, modVars
<1>9. Phases'
  BY <1>1, <1>2 DEF Phases, modVars, TypeOK
<1>10. Ownership'
  <2>1. \A e, g \in Devs : Owner(e)' = Owner(g)' => e = g \/ Owner(e)' = NULL
    BY <1>4 DEF Ownership
  <2>2. (device_list = Owned)'  BY <1>2, <1>5 DEF Ownership
  <2>3. \A e \in Devs : /\ (drvdata'[e] # NULL) <=> (dev'[e] = "bound")
                        /\ (rm'[e] # NULL) <=> (dev'[e] = "removing")
    BY <1>1, <1>2 DEF Ownership, TypeOK
  <2>4. \A e \in Devs : /\ dev'[e] = "bound" => spi'[drvdata'[e]] = e
                        /\ dev'[e] = "removing" => spi'[rm'[e]] = NULL
    BY <1>2 DEF Ownership, TypeOK
  <2> QED BY <2>1, <2>2, <2>3, <2>4 DEF Ownership
<1>11. NoDangling'
  <2>1. mem'[s] # "live" => Holders(s) = {}  BY <1>7
  <2> QED BY <1>2, <1>3, <1>5, <1>7, <2>1 DEF NoDangling
<1>12. UsersCount'
  BY <1>2, <1>3, <1>6, <1>7 DEF UsersCount
<1>13. MinorsExact'
  BY <1>2, <1>5 DEF MinorsExact, TypeOK
<1>14. NoLeak'
  <2>1. spi'[s] = NULL  BY <1>1, <1>2 DEF Ownership
  <2> QED BY <1>2, <1>3, <1>5, <1>7, <2>1 DEF NoLeak
<1> QED BY <1>8, <1>9, <1>10, <1>11, <1>12, <1>13, <1>14

-----------------------------------------------------------------------------
(* The theorems. *)

\* Every step of the driver preserves the invariant.
LEMMA StepIInv == SafeEnv /\ IInv /\ [Next]_devVars => IInv'
<1> SUFFICES ASSUME SafeEnv, IInv, [Next]_devVars PROVE IInv'  OBVIOUS
<1>1. CASE ModuleStep  BY <1>1, ModuleStepIInv
<1>2. ASSUME NEW d \in Devs, DeviceStep(d) PROVE IInv'
  <2>1. CASE Probe(d)
    BY <2>1, ProbeDeviceIInv, ProbeFailsIInv, ProbeNoMemoryIInv DEF Probe
  <2>2. CASE RemoveClear(d)  BY <2>2, RemoveClearIInv
  <2>3. CASE RemoveUnlink(d)  BY <2>3, RemoveUnlinkIInv
  <2> QED BY <1>2, <2>1, <2>2, <2>3 DEF DeviceStep
<1>3. ASSUME NEW f \in Files, FileStep(f) PROVE IInv'
  BY <1>3, OpenIInv, ReleaseIInv DEF FileStep
<1>4. CASE UNCHANGED devVars
  <2>1. UNCHANGED <<module, registered, dev, drvdata, rm, mem, spi, devt, users,
                    buffer, device_list, minors, nodes, device_list_lock, priv>>
    BY <1>4 DEF devVars, modVars, coreVars, objVars, listVars
  <2>2. Owned' = Owned /\ \A e : Owner(e)' = Owner(e)
    BY <2>1 DEF Owned, Owner
  <2>3. \A t : Holders(t)' = Holders(t)  BY <2>1 DEF Holders
  <2>4. (TypeOK /\ Phases)'  BY <2>1 DEF IInv, TypeOK, Phases
  <2>5. (Ownership /\ MinorsExact)'
    BY <2>1, <2>2 DEF IInv, Ownership, MinorsExact
  <2>6. (NoDangling /\ UsersCount /\ NoLeak)'
    BY <2>1, <2>2, <2>3 DEF IInv, NoDangling, UsersCount, NoLeak
  <2> QED BY <2>4, <2>5, <2>6 DEF IInv
<1> QED BY <1>1, <1>2, <1>3, <1>4 DEF Next

\* The invariant that carries all the others holds in every reachable state:
\* device data, back pointers, the list and the open files agree.
THEOREM Invariance == SafeEnv => (Spec => []IInv)
<1> SUFFICES ASSUME SafeEnv PROVE Spec => []IInv  OBVIOUS
<1>1. Init => IInv  BY InitIInv
<1>2. IInv /\ [Next]_devVars => IInv'  BY StepIInv
<1> QED BY <1>1, <1>2, PTL DEF Spec

\* Every variable keeps its type; in particular a bound struct's minor is
\* below N_SPI_MINORS.
THEOREM TypeCorrect == SafeEnv => (Spec => []TypeOK)
<1>1. IInv => TypeOK  BY DEF IInv
<1> QED BY <1>1, Invariance, PTL

\* No use after free of a struct spidrv_data, by any file or device.
THEOREM NoUseAfterFree == SafeEnv => (Spec => []NoDangling)
<1>1. IInv => NoDangling  BY DEF IInv
<1> QED BY <1>1, Invariance, PTL

\* The users counter is exact.
THEOREM UsersExact == SafeEnv => (Spec => []UsersCount)
<1>1. IInv => UsersCount  BY DEF IInv
<1> QED BY <1>1, Invariance, PTL

\* The minor bitmap, the device nodes and the list agree.
THEOREM MinorsAgree == SafeEnv => (Spec => []MinorsExact)
<1>1. IInv => MinorsExact  BY DEF IInv
<1> QED BY <1>1, Invariance, PTL

\* An unloaded module leaves nothing behind: no device is bound, so nothing
\* is owned; no file is open; and what is neither owned nor held is free.
THEOREM UnloadLeavesNothing == SafeEnv => (Spec => []UnloadClean)
<1>1. IInv => UnloadClean
  <2> SUFFICES ASSUME IInv, module = "unloaded"
               PROVE  /\ registered = {} /\ nodes = {} /\ device_list = {}
                      /\ \A s \in Structs : mem[s] = "free"
                      /\ \A f \in Files : priv[f] = NULL
    BY DEF UnloadClean
  <2> USE DEF IInv
  <2>1. /\ registered = {} /\ \A f \in Files : priv[f] = NULL
        /\ \A d \in Devs : dev[d] = "unbound"
    BY DEF Phases
  <2>2. \A d \in Devs : Owner(d) = NULL  BY <2>1 DEF Owner, Ownership
  <2>3. Owned = {} /\ device_list = {}
    BY <2>2, NullAssumption DEF Owned, Ownership
  <2>4. nodes = {}  BY <2>3 DEF MinorsExact
  <2>5. device_list_lock # "locked"  BY <2>3 DEF Phases
  <2>6. \A s \in Structs : Holders(s) = {}
    BY <2>1, NullAssumption DEF Holders
  <2>7. \A s \in Structs : mem[s] = "free"
    BY <2>3, <2>5, <2>6 DEF NoLeak, TypeOK
  <2> QED BY <2>1, <2>3, <2>4, <2>7
<1> QED BY <1>1, Invariance, PTL

-----------------------------------------------------------------------------

(***************************************************************************)
(* SpiDevice implements SpiRefcount: with its lock, list, counter and      *)
(* two-step remove, the driver's struct spidrv_data is a plain             *)
(* reference-counted object.                                               *)
(***************************************************************************)

\* objState is a function on Structs, and changes only with what it reads.
LEMMA StateUnchanged ==
  ASSUME UNCHANGED <<device_list, mem, device_list_lock, priv>>
  PROVE  objState' = objState
BY DEF objState, Holders

\* A step that changes the state of struct s to x, and of no other, is an
\* EXCEPT of objState.
LEMMA StateExcept ==
  ASSUME NEW s \in Structs, NEW x, objState'[s] = x,
         \A t \in Structs \ {s} : objState'[t] = objState[t]
  PROVE  objState' = [objState EXCEPT ![s] = x]
<1>1. DOMAIN objState = Structs /\ DOMAIN objState' = Structs  BY DEF objState
<1>2. objState = [t \in Structs |-> objState[t]]  BY DEF objState
<1>3. objState' = [t \in Structs |-> objState'[t]]  BY DEF objState
<1>4. [objState EXCEPT ![s] = x] =
        [t \in Structs |-> IF t = s THEN x ELSE objState[t]]
  BY <1>1
<1>5. \A t \in Structs : objState'[t] = IF t = s THEN x ELSE objState[t]
  OBVIOUS
<1> QED BY <1>3, <1>4, <1>5

\* The initial state has every object free and no file holding one.
LEMMA InitRefines == Init => Refcount!Init
BY DEF Init, Refcount!Init, objState

\* A successful probe binds its struct.
LEMMA ProbeRefines ==
  ASSUME IInv, NEW d \in Devs, NEW s \in Structs, ProbeDevice(d, s)
  PROVE  Refcount!Bind(s)
<1>1. s \notin device_list /\ mem[s] = "free"
  BY DEF ProbeDevice, Kzalloc, IInv, NoDangling
<1>2. device_list' = device_list \cup {s} /\ mem' = [mem EXCEPT ![s] = "live"]
      /\ UNCHANGED <<device_list_lock, priv>>
  BY DEF ProbeDevice
<1>3. objState[s] = "free"  BY <1>1 DEF objState
<1>4. objState'[s] = "bound"  BY <1>2 DEF objState
<1>5. \A t \in Structs \ {s} : objState'[t] = objState[t]
  BY <1>2 DEF objState, Holders, IInv, TypeOK
<1> QED BY <1>2, <1>3, <1>4, <1>5, StateExcept DEF Refcount!Bind

\* A failed probe is invisible: the struct it may leave behind was free, and
\* with the lock held it still looks so.
LEMMA ProbeFailsRefines ==
  ASSUME IInv, NEW d \in Devs, NEW s \in Structs,
         ProbeCreateFails(d, s) \/ ProbeNoMinor(d, s)
  PROVE  UNCHANGED <<objState, priv>>
<1>1. CASE ProbeCreateFails(d, s)
  BY <1>1, StateUnchanged DEF ProbeCreateFails, listVars
<1>2. CASE ProbeNoMinor(d, s)
  <2>1. /\ mem[s] = "free" /\ mem' = [mem EXCEPT ![s] = "live"]
        /\ device_list_lock = "unlocked" /\ device_list_lock' = "locked"
        /\ UNCHANGED <<device_list, priv>>
    BY <1>2 DEF ProbeNoMinor, Kzalloc
  <2>2. s \notin device_list /\ Holders(s) = {}
    BY <2>1 DEF IInv, NoDangling
  <2>3. \A t \in Structs : mem[t] = "live" => t \in device_list \/ Holders(t) # {}
    BY <2>1 DEF IInv, NoLeak, Ownership
  <2>4. \A t : Holders(t)' = Holders(t)  BY <2>1 DEF Holders
  <2>5. \A t \in Structs : objState'[t] = objState[t]
    BY <2>1, <2>2, <2>3, <2>4 DEF objState, IInv, TypeOK
  <2>6. objState' = objState
    BY <2>5 DEF objState
  <2> QED BY <2>1, <2>6
<1> QED BY <1>1, <1>2

\* open takes a reference to a bound object.
LEMMA OpenRefines ==
  ASSUME IInv, NEW f \in Files, NEW m \in Minors, Open(f, m)
  PROVE  \E s \in Structs : Refcount!Get(f, s)
<1> PICK s \in device_list : priv' = [priv EXCEPT ![f] = s]
  BY DEF Open
<1>1. s \in Structs /\ s # NULL /\ mem[s] = "live"
  BY NullAssumption DEF IInv, TypeOK, NoDangling
<1>2. /\ UNCHANGED <<mem, device_list, device_list_lock>>
      /\ priv[f] = NULL /\ device_list_lock = "unlocked"
  BY DEF Open, listVars
<1>3. objState[s] = "bound"  BY <1>1 DEF objState
<1>4. objState' = objState
  BY <1>2 DEF objState
<1> QED BY <1>1, <1>2, <1>3, <1>4 DEF Refcount!Get

\* release drops a reference; the struct is freed exactly when the device has
\* gone and this was the last one.
LEMMA ReleaseRefines ==
  ASSUME SafeEnv, IInv, IInv', NEW f \in Files, Release(f)
  PROVE  \E s \in Structs : Refcount!Put(f, s)
<1> PICK s \in Structs : s = priv[f]
  BY DEF IInv, TypeOK, Release
<1>1. /\ priv' = [priv EXCEPT ![f] = NULL]
      /\ UNCHANGED <<device_list, device_list_lock, spi, coreVars>>
      /\ device_list_lock = "unlocked" /\ s # NULL
      /\ \A t \in Structs \ {s} : mem'[t] = mem[t]
  BY DEF Release, listVars, IInv, TypeOK
<1>2. /\ Holders(s)' = Holders(s) \ {f}
      /\ \A t \in Structs \ {s} : Holders(t)' = Holders(t)
  BY <1>1, HoldersRelease DEF IInv
<1>3. f \in Holders(s) /\ mem[s] = "live"
  BY <1>1 DEF Holders, IInv, NoDangling
<1>4. Owned' = Owned  BY <1>1 DEF Owned, Owner, coreVars
<1>5. Holders(s)' = {} <=> \A g \in Files \ {f} : priv[g] # s
  BY <1>1, <1>2 DEF Holders
<1>6. \A t \in Structs \ {s} : objState'[t] = objState[t]
  BY <1>1, <1>2 DEF objState
<1>7. CASE s \in device_list
  <2>1. objState[s] = "bound" /\ objState'[s] = "bound"
    BY <1>1, <1>7 DEF objState
  <2> QED BY <1>1, <1>6, <2>1, StateExcept DEF Refcount!Put
<1>8. CASE s \notin device_list
  <2>1. objState[s] = "zombie"  BY <1>1, <1>3, <1>8 DEF objState
  <2>2. s \notin Owned' /\ s \notin device_list'
    BY <1>1, <1>4, <1>8 DEF IInv, Ownership
  <2>3. mem'[s] = "live" <=> Holders(s)' # {}
    BY <1>1, <2>2 DEF IInv, NoLeak, NoDangling
  <2>4. objState'[s] = IF Holders(s)' = {} THEN "free" ELSE "zombie"
    BY <1>1, <2>2, <2>3 DEF objState, IInv, TypeOK
  <2> QED BY <1>1, <1>5, <1>6, <2>1, <2>4, StateExcept DEF Refcount!Put
<1> QED BY <1>7, <1>8

\* The second half of remove unbinds the object.
LEMMA UnlinkRefines ==
  ASSUME IInv, IInv', NEW d \in Devs, RemoveUnlink(d)
  PROVE  \E s \in Structs : Refcount!Unbind(s)
<1>1. dev[d] = "removing" /\ rm[d] # NULL
  BY DEF RemoveUnlink, IInv, Ownership
<1> PICK s \in Structs : s = rm[d]
  BY <1>1 DEF IInv, TypeOK
<1>2. /\ device_list' = device_list \ {s}
      /\ UNCHANGED <<priv, device_list_lock>> /\ device_list_lock = "unlocked"
      /\ \A t \in Structs \ {s} : mem'[t] = mem[t]
      /\ mem'[s] = IF users[s] = 0 THEN "free" ELSE mem[s]
  BY DEF RemoveUnlink, ListDel, Unused, IInv, TypeOK
<1>3. \A t : Holders(t)' = Holders(t)  BY <1>2 DEF Holders
<1>4. s \in device_list /\ mem[s] = "live"
  BY <1>1 DEF IInv, Ownership, Owned, Owner, NoDangling
<1>5. users[s] = 0 <=> Holders(s) = {}
  BY <1>4, HoldersEmpty DEF IInv, UsersCount
<1>6. Holders(s) = {} <=> ~Refcount!Held(s)
  BY DEF Holders, Refcount!Held
<1>7. objState[s] = "bound"  BY <1>4 DEF objState
<1>8. objState'[s] = IF Refcount!Held(s) THEN "zombie" ELSE "free"
  BY <1>2, <1>3, <1>4, <1>5, <1>6 DEF objState
<1>9. \A t \in Structs \ {s} : objState'[t] = objState[t]
  BY <1>2, <1>3 DEF objState
<1> QED BY <1>2, <1>7, <1>8, <1>9, StateExcept DEF Refcount!Unbind

\* Every step of the driver is a step of the abstract object or none.
LEMMA StepRefines ==
  SafeEnv /\ IInv /\ IInv' /\ [Next]_devVars => [Refcount!Next]_(Refcount!vars)
<1> SUFFICES ASSUME SafeEnv, IInv, IInv', [Next]_devVars
             PROVE  Refcount!Next \/ UNCHANGED <<objState, priv>>
  BY DEF Refcount!vars
<1>1. CASE ModuleStep
  BY <1>1, ModuleStepFrame, StateUnchanged DEF objVars, listVars
<1>2. ASSUME NEW d \in Devs, DeviceStep(d)
      PROVE  Refcount!Next \/ UNCHANGED <<objState, priv>>
  <2>1. CASE Probe(d)
    <3>1. CASE ProbeNoMemory(d)
      BY <3>1, StateUnchanged DEF ProbeNoMemory, objVars, listVars
    <3> QED BY <2>1, <3>1, ProbeRefines, ProbeFailsRefines
            DEF Probe, Refcount!Next
  <2>2. CASE RemoveClear(d)
    BY <2>2, StateUnchanged DEF RemoveClear, listVars
  <2>3. CASE RemoveUnlink(d)
    BY <2>3, UnlinkRefines DEF Refcount!Next
  <2> QED BY <1>2, <2>1, <2>2, <2>3 DEF DeviceStep
<1>3. ASSUME NEW f \in Files, FileStep(f)
      PROVE  Refcount!Next \/ UNCHANGED <<objState, priv>>
  BY <1>3, OpenRefines, ReleaseRefines DEF FileStep, Refcount!Next
<1>4. CASE UNCHANGED devVars
  BY <1>4, StateUnchanged DEF devVars, objVars, listVars
<1> QED BY <1>1, <1>2, <1>3, <1>4 DEF Next

\* The driver implements the reference-counted object.
THEOREM Refinement == SafeEnv => (Spec => RefcountSpec)
<1> SUFFICES ASSUME SafeEnv PROVE Spec => RefcountSpec  OBVIOUS
<1>1. Init => Refcount!Init  BY InitRefines
<1>2. IInv /\ IInv' /\ [Next]_devVars => [Refcount!Next]_(Refcount!vars)
  BY StepRefines
<1>3. Spec => []IInv  BY Invariance
<1> QED BY <1>1, <1>2, <1>3, PTL DEF Spec, RefcountSpec, Refcount!Spec
=============================================================================
