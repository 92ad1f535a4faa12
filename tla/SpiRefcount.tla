---------------------------- MODULE SpiRefcount ----------------------------
(***************************************************************************)
(* What the reference counting of struct spidrv_data promises, with no     *)
(* lock, list, counter or two-step remove: an object is bound to a device  *)
(* or not, is held by files or not, and exists exactly as long as one of   *)
(* the two is the case.  SpiDevice implements this.                        *)
(***************************************************************************)
CONSTANTS Structs, Files, NULL

VARIABLES
  obj,  \* "free", "bound" to a device, or "zombie": unbound but still held
  ref   \* the object each file holds, or NULL

vars == <<obj, ref>>

Held(s) == \E f \in Files : ref[f] = s

Init ==
  /\ obj = [s \in Structs |-> "free"]
  /\ ref = [f \in Files |-> NULL]

\* A device appears: a free object is bound to it.
Bind(s) ==
  /\ obj[s] = "free"
  /\ obj' = [obj EXCEPT ![s] = "bound"]
  /\ UNCHANGED ref

\* Only a bound object can be opened.
Get(f, s) ==
  /\ obj[s] = "bound" /\ ref[f] = NULL
  /\ ref' = [ref EXCEPT ![f] = s]
  /\ UNCHANGED obj

\* The last reference frees the object if its device has gone.
Put(f, s) ==
  /\ ref[f] = s
  /\ ref' = [ref EXCEPT ![f] = NULL]
  /\ obj' = [obj EXCEPT ![s] =
               IF @ = "zombie" /\ \A g \in Files \ {f} : ref[g] # s
               THEN "free" ELSE @]

\* The device goes: the object stays for as long as files hold it.
Unbind(s) ==
  /\ obj[s] = "bound"
  /\ obj' = [obj EXCEPT ![s] = IF Held(s) THEN "zombie" ELSE "free"]
  /\ UNCHANGED ref

Next ==
  \E s \in Structs :
    \/ Bind(s) \/ Unbind(s)
    \/ \E f \in Files : Get(f, s) \/ Put(f, s)

Spec == Init /\ [][Next]_vars
=============================================================================
