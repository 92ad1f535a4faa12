-------------------------- MODULE MCKernelModules --------------------------
(* An instance of KernelModules for TLC: every module, and every call that  *)
(* may fail but video_device_alloc, whose failure v4l2_dummy does not       *)
(* survive.                                                                 *)
EXTENDS KernelModules

DriversAll == Platform \cup {"virtfb", "nunchuck"}

FaultsAll ==
  {"platform_driver_register", "platform_device_alloc", "platform_device_add",
   "snd_card_new", "snd_pcm_new", "snd_card_register",
   "framebuffer_alloc", "register_framebuffer", "vmalloc",
   "kzalloc", "v4l2_device_register", "video_register_device",
   "i2c_register_driver", "i2c_master_send", "i2c_master_recv",
   "input_register_polled_device"}

\* remove frees what the files of the other drivers use.
SafeUnbind == Cards \cup {"nunchuck"}

Axis(r, v, o) == [res |-> r, virt |-> v, off |-> o]

UintSizeTLC == 524288    \* the least power of two that holds the default mode

\* Modes of which the end of a line wraps, to 2; its bits, to 32; the size of the
\* screen, to a quarter; and the size in pages, to 0.
ModesWrapping ==
  {[x |-> a.x, y |-> a.y, bpp |-> 32, fields |-> FieldsFor(32, TRUE), upd |-> FALSE] :
     a \in {[x |-> Axis(3, 0, UintSizeTLC - 1), y |-> Axis(1, 1, 0)],
            [x |-> Axis(1, 16385, 0), y |-> Axis(1, 1, 0)],
            [x |-> Axis(1, 4096, 0), y |-> Axis(1, 40, 0)],
            [x |-> Axis(1, 4095, 0), y |-> Axis(1, 32, 0)]}}

\* Modes with and without transparency, growing and shrinking, for each class
\* of depths and one depth too many; of one bit and less than eight pixels,
\* for which there is no memory; with the offset inside, outside and taken
\* from the current mode.
ModesAll ==
  [x : {Axis(8, 16, 12), Axis(4, 0, 0)}, y : {Axis(0, 2, 1)},
   bpp : {0, 16, 21, 32, 33},
   fields : {FieldsFor(16, TRUE), FieldsFor(16, FALSE)}, upd : {FALSE}]
  \cup
  [x : {Axis(0, 256, 0)}, y : {Axis(3, 0, 5)}, bpp : {7, 16},
   fields : {FieldsFor(16, FALSE)}, upd : BOOLEAN]
  \cup ModesWrapping
=============================================================================
