----------------------------- MODULE V4l2Dummy -----------------------------
(***************************************************************************)
(* The dummy V4L2 driver.  held may contain "ddev" (its struct), "v4l2"    *)
(* (the V4L2 device), "vfd" (the video device) and "node" (registered); it  *)
(* is {"freed"} when ddev points to freed memory.                          *)
(***************************************************************************)
EXTENDS PlatformModule

V4l2 == {"v4l2_dummy"}

V4l2Acquired == {"ddev", "v4l2", "vfd", "node"}

\* The labels ddev_rel, ddev_unreg and ddev_free give everything back.  But when
\* video_device_alloc fails, probe returns 0, the result of
\* v4l2_device_register, with ddev freed.
V4l2Probe ==
  /\ driver \in V4l2 /\ bound = "probing"
  /\ \E fail \in Failing({"kzalloc", "v4l2_device_register", "video_device_alloc",
                          "video_register_device"}) :
       /\ bound' = IF fail \in {"none", "video_device_alloc"} THEN "bound" ELSE "unbound"
       /\ held' = CASE fail = "none" -> V4l2Acquired
                    [] fail = "video_device_alloc" -> {"freed"}
                    [] OTHER -> held
  /\ UNCHANGED <<driver, modVars, lost, file>>

\* The video device's release is video_device_release_empty: nobody frees vfd.
\* With a freed ddev, remove unregisters what it finds there and frees it again:
\* the heap is lost, and remove may not return.
V4l2Remove ==
  /\ driver \in V4l2 /\ bound = "removing" /\ held # {}
  /\ held' = {}
  /\ IF "freed" \in held
     THEN bound' \in {"removing", "unbound"} /\ lost' = lost \cup {"heap"}
     ELSE bound' = "unbound" /\ lost' = lost \cup {"vfd"}
  /\ UNCHANGED <<driver, modVars, file>>

\* v4l2_fh_open
V4l2Open(f) ==
  /\ driver \in V4l2 /\ "node" \in held /\ Alive
  /\ ~Open(f)
  /\ file' = [file EXCEPT ![f] = "open"]
  /\ UNCHANGED <<driver, modVars, bindVars>>

\* The operations have no release: the file's v4l2_fh is not freed.
V4l2Close(f) ==
  /\ driver \in V4l2 /\ Open(f)
  /\ file' = [file EXCEPT ![f] = "closed"]
  /\ lost' = lost \cup {"fh"}
  /\ UNCHANGED <<driver, modVars, bound, held>>

V4l2FileStep(f) == V4l2Open(f) \/ V4l2Close(f)
=============================================================================
