# TLA+ models of the module-dev kernel modules

The repository is a collection of kernel modules written as a learning exercise,
and the file of the board they run on. Some of the modules print a line or
register a stub; the others carry real logic and are modelled here: the SPI
character driver, two timer-driven sound cards, two virtual framebuffers, a V4L2
dummy, a polled I2C input device, and the board's boot. There are no tests in the
repository; what the code promises is said in its comments.

## Inventory

| Component | State | Operations | Who else runs | What makes it correct |
|---|---|---|---|---|
| SPI driver, lifetime | `device_list`, `minors`, `device_list_lock`, per device `struct spidrv_data` (`spi`, `devt`, `users`, `buffer`), driver data, `filp->private_data`, registrations | module init/exit, probe, remove, open, release | any number of devices and files; remove is two critical sections | no use after free, no leak, exact user count, minors unique, unload leaves nothing |
| SPI driver, data path | `spidrv->buffer` under `buf_lock`; `read_buffer`, `last_len`, `read_lock` shared by all devices | write (lock, copy, parse, chunk loop, transmit), read | other writers, readers, probe (re-initialises `read_lock`), remove (clears `spi`) | messages do not mix, locks released on all paths, replies whole, writes end |
| SPI driver, message format | header bytes, payload | `parse_msg`, `write_msg`, `lsb_first`, `reverse_bits`, `transmit_msg` | — (under `buf_lock`) | right bits on the wire, replies in place, no access outside a buffer |
| GPIO sound card, timer | `frac_pos`, `frac_period_rest`, `elapsed`, `base_time`, timer, `buffer_counter` | open, prepare, start/resume, stop/suspend, pointer, close | timer callback in a softirq, on another CPU if there is one | position exact, no period lost, no timer left after stop |
| Sound generator, hrtimer | `running`, `base_time`, `period_time`, hrtimer | open, prepare, start, stop, pointer, close | hrtimer callback in a softirq on another CPU | no deadlock with the stream lock, no callback after free, no drift |
| ALSA cards: probe, remove | platform driver and device, `card`, PCM device, per file a timer struct | module init/exit, probe, remove, open, close | the driver core's bind and unbind, files | unwinding gives everything back, a card outlives its files, rmmod ends |
| Virtual framebuffers (`virtfb_platform.c`, `virtfb.c`) | `fb_info`: `var`, `fix`, `screen_base`, `screen_size`; the framebuffer memory; mode list | init, probe, remove, exit, check and set a video mode, open, close | open files, unbind | sizes follow the memory, accepted modes can be set again, unwinding |
| Dummy V4L2 driver | `ddev`, V4L2 device, `vfd` | init, probe, remove, exit, open, close | open files, unbind | unwinding |
| Nunchuck driver | polled input device, its data, the I2C client, the polling work item | load, probe, remove, open, close, poll | the work item; files, which pin nothing | the poll is gone before its data, unload ends |
| Board file | `beagle_config`, `expansion_config`, pads, GPIO owners, registered devices, MMC controllers, operating points | command line, `omap3_beagle_init`, late initcalls, the TWL4030's callback | drivers that took GPIOs before | each registered device has its pads, GPIOs and number; the late callback agrees with init |
| debugfs, TCP client, USB gadget stub | none that another step reads | three registrations; a print; a stub | — | — |
| hello, hello_param, eudyptula-4/5, PCI, sched_bt, unexported_fn | none | print | — | — |

The modules do not interact with each other: each stands alone and meets the
kernel through callbacks. The board file registers the device that the SPI driver
binds to and the two chip selects it serves. Within the SPI driver, the lifetime
and the data path interact through `spidrv->spi` (cleared by remove while a write
uses it), through `users`/`buffer` (the buffer of a write exists because its file
is open) and through `read_lock` (initialised by probe). The sound drivers meet
ALSA, which serialises trigger and pointer with the stream lock, and the kernel's
timers; the GPIO card's two substreams share `buffer_counter`. The framebuffers
meet the framebuffer core, which asks them to check a mode before it sets it.

The hard behaviours are listed line by line under `hazards` in `PROJECT.json`.

## Modules

| Module | Models | Role |
|---|---|---|
| `SpiRefcount` | a reference-counted object: bound, held, freed | abstract specification |
| `SpiDevice` | lifetime of `struct spidrv_data` | component; implements `SpiRefcount` |
| `SpiDriver` | write and read, `EXTENDS SpiDevice` | composition of lifetime and data path |
| `SpiMessage` | the bytes of a write | component |
| `StreamTimer` | what a stream's timer promises the stream | abstract specification |
| `GpioTimer` | system timer and PCM operations of `alsa_gpio` | component; implements `StreamTimer` on one processor |
| `SoundGenTimer` | hrtimer and PCM operations of `alsa_sound_gen` | component; implements `StreamTimer` |
| `PlatformModule` | module init and exit, binding and unbinding, files | common part of the next four |
| `AlsaCard`, `VirtFb`, `V4l2Dummy`, `Nunchuck` | probe, remove and files of the six drivers | components |
| `KernelModules` | any one of the six, from load to unload | composition of the five |
| `BeagleBoard` | the boot of the board | component |
| `SpiDevice_proofs`, `SpiDriver_proofs`, `SpiMessage_proofs`, `GpioTimer_proofs`, `SoundGenTimer_proofs`, `VirtFb_proofs`, `KernelModules_proofs`, `BeagleBoard_proofs` | | theorems |
| `MCSpiDevice`, `MCSpiDriver`, `MCSpiMessage`, `MCKernelModules`, `MCBeagleBoard` | | constants for TLC |

### SpiDevice

State follows the code: `mem` is the allocator's view of each struct address, so
that a freed struct that is reused is the same address again; `rm` is the local
variable `spidrv` of a remove that is between its two critical sections; `priv`
is `filp->private_data`. Each section under `device_list_lock` is one action:
the lock covers everything the section touches except `spidrv->spi`, which each
section reads at most once. `omap3_spi_remove` is `RemoveClear` (under
`spi_lock`) followed by `RemoveUnlink` (under `device_list_lock`), with anything
in between. `omap3_spi_probe` is one action for each way it ends: success,
`device_create` failing, no free minor (returns with the lock held), and no memory
(it stores through the null pointer and the task dies). `device_list_lock` is
therefore just "unlocked" or locked for ever.

The constant `Env` says what the environment may do in an instance: unload the
module, unbind one device, fail an allocation, and so on. Two of its members need
explaining. `"window"` lets release run between the two halves of remove, and
`"unbind"` lets a device be removed while files are open. With both, the code
frees a struct twice (run `window`), after which nothing can be said. With either
one alone everything holds, and that is the assumption `SafeEnv` of the theorems.
On a live system the second is the relevant case: rmmod cannot start while a file
is open, because `spi_fops.owner` pins the module (`Unpinned`), so only a driver
unbind through sysfs, or a controller that goes away, opens the window.

A return that changes nothing (open of an unknown node, open without memory) is a
stuttering step. The VFS calls open only while the module is live.

### SpiRefcount

What the counting amounts to: an object is free, bound, or a zombie that files
still hold. `SpiDevice` implements it under the mapping `objState`: bound iff on
`device_list`, zombie iff allocated but off the list. The struct that a probe
without a minor leaves behind is mapped to free: no one ever saw it.

### SpiDriver

`pc[f]` says where the call on file `f` is; a step ends wherever another task can
run. `WriteStart` reads `spidrv->spi` without a lock; `WriteLock` takes `buf_lock`
and clears the buffer; `WriteCopy` is `copy_from_user`, whose failure unlocks and
falls into `WriteFault`, the second unlock; `WriteParse` is `parse_msg` and the
head of `write_msg`; `WriteChunk`, `XferLock` and `XferSync` are one round of the
loop. A mutex_unlock by a task that does not hold the lock frees it, as the
kernel's does. A task that dereferences null is `"hung"` for good and keeps its
locks, but the kernel closes its file (`DriverRelease`). Messages are records (chip select, ndb, group_by, an identity); the byte
level is in `SpiMessage`. A file carries one call at a time.

Two restrictions name what would otherwise hide everything else: a probe while
files are in use happens only with `"hotplug"` in `Env` (it frees a held
`read_lock`; no run has it, but `LocksAreHeld` and `BufferIsStable` are proved with
it), and user copies fail only with `"efault"` in `Env` (runs `progress` and
`double_unlock`). A message for a device that is unbound while its write is under way
(`SyncBound` without its condition), and replies of two devices in the one
`read_buffer`, are in no run: the code does not prevent either.

### SpiMessage

One `omap3_spi_write` on real bytes, from `parse_msg` to the end of the loop, one
loop round a step. The device echoes, so that `read_buffer` shows what was on the
wire. The SPI mode and the speed are copied from the header to the transfer unseen
and are left out.
`omap3_spi_reverse_bits` is `Rounds`, a recursive function with one round of the
code's loop a step, over the powers of two in `Pow2`. `WireComplete` says nothing of
loops, swaps or rounds: bit p of a word in the order of the wire is bit p of the word
that was given, counted from the other end.

Odd lengths with 16-bit words are excluded from `WireComplete`: the swap then
takes in the byte after the message. `InBounds` has no such exclusion.

### GpioTimer

Times are relative to now: `since` is `jiffies - base_time`, `due` is `expires -
jiffies`. The two `while` loops of `alsa_gpio_systimer_update` are a modulus
(`PosAfter`) and a quotient (`PeriodsIn`). start, stop, pointer and the body of
the callback each hold `dpcm->lock` throughout and are one action each;
`snd_pcm_period_elapsed` runs after the body's unlock (`CallbackReport`), asks for
the position again and may stop the stream on an overrun. Ghosts: `clock`, what
the stream has played, and `reported`, the periods told to ALSA, each modulo a
multiple of buffer and period.

`Cpus = 1` means that a system call never runs while the softirq does; that is
what makes `del_timer` enough. `Cpus = 2` is run `gpio_smp`.

After a suspend the code resumes from the last position it computed, and the time
between that and the suspend is not played; the ghost says the same (`Start`).
prepare writes its fields without the lock; it is one action, since with one CPU
nothing can see it half done.

The callback also copies half a buffer of music and advances `buffer_counter`,
which starts again only when the offset equals `music_length`. The variable
belongs to the card, not the substream: `OtherSubstream` is what the start and
the callback of the second substream do to it. `CopyStartsInMusic` says that the
copy begins inside the array. That holds on one processor for two substreams with
buffers of one size that divides the music, the case of the run.

### SoundGenTimer

ALSA calls trigger under the stream lock with interrupts off, prepare and close
without; the callback takes that lock in `snd_pcm_period_elapsed`. Each user call
is split where the callback can get in: start arms and then sets `running`, stop
clears `running`, then tests `hrtimer_callback_running`, then cancels.
`hrtimer_cancel` waits until `cb = "off"`. The callback has four places: the
first test of `running`, the report, the second test, and the forward. Time is
counted in samples. The start's timer is queued on the CPU that starts it, whose
interrupts are off, so the callback does not begin before start has returned.

### PlatformModule, AlsaCard, VirtFb, V4l2Dummy, Nunchuck, KernelModules

Four modules contain the same init and exit, word for word but for names:
register a platform driver, allocate a device, add it, and on failure give back
what came before. `PlatformModule` models that once, and `map` names for each
definition one of the copies. `driver` says which of the six modules an execution
is about. Adding the device runs the driver's probe inside init; `bound` has
the places `"probing"` and `"removing"`, because files are opened and closed, and
the unbind file is written, meanwhile. `virtfb.c` does its work in init and exit
(`VirtfbInit`, `VirtfbExit`), and the nunchuck is bound to an I2C client by
`module_i2c_driver`.

`held` is what probe has acquired and nobody has given back, `lost` what can no
longer be given back. Every probe is one step for each call that may fail
(`Faults`), since the calls before and after it meet nobody. A remove of a card
is two: `CardDisconnect`, then `CardFree` when the last file is closed, as
`snd_card_free` waits. A mode in `VirtFb` is a record of sizes, depth and colour
fields; `CheckVar` is the whole of `virtfb_check_var` and `PlatformSetPar` or
`VirtfbSetPar` what follows when the core sets the mode. The drivers compute with the
user's numbers in 32 bits and check no product or sum: `Wrap` is what is left of
one, with `UintSize` for 2^32, and `PageAligned` is `PAGE_ALIGN` in that width. The two drivers differ:
`virtfb.c` writes the colours and depth it wants into the current mode, and sets the
mode with those the user asked for.

In `Nunchuck` the work item sleeps between transfers, so a poll is two steps.
Closing the last file and unregistering both wait for it
(`cancel_delayed_work_sync`). Its files are the input core's and do not pin the
module. A failed transfer is not an action of its own: the poll ignores it, and
what it then reports is not modelled. Which buttons a register means is not
modelled either.

When `video_device_alloc` fails, the V4L2 driver's probe succeeds with `ddev` freed
(`held` is `{"freed"}`), and remove then works on freed memory: the heap is lost, and
remove may not return. Nothing holds after that, so the run leaves this failure out
and the theorems assume it away (`Survivable`).

`UnbindInUse` names the drivers whose device may be unbound under an open file.
For the framebuffers and V4L2 that frees what the file uses, at once and
obviously, so the run and the theorems leave it to the cards and the nunchuck,
which are meant to bear it.

### BeagleBoard

`pc` follows `omap3_beagle_init` from part to part in the order of the source, and
each part is an action: the order is the point, as each may mux a pad again that
an earlier one has muxed, or request a GPIO that one has requested. Before it
the command line names the expansion boards (`EarlyParam`, in any order, the last
one counts); after it the late initcalls and the callback of the TWL4030's GPIO
driver run in any order but for `opp` before `camera`. `pad` is what each pad of
the expansion header is muxed to, `owner` who has requested each GPIO. The kernel's
`omap_hsmmc_init` muxes the pads of the MMC slots it is given (`SlotMux`). Displays,
clocks, regulators and the fixed tables are left out.

### StreamTimer

What the two sound drivers' timers have in common, without time, lock or calls in
progress: a running stream always has its timer queued or its callback under way; it is
started only when nothing of the last run is left; the struct goes, with a timer that is
still queued, but never under a callback; and a stop leaves to a callback that it does not
wait for one more effect at most, a report or a queued timer. The drivers get there by
opposite means. `alsa_sound_gen` clears a flag that the callback reads without a lock and
lets the callback run out (`run` is `running`, or a start in progress; `more` is that, or
a callback past one of its tests). `alsa_gpio` takes the timer away and relies on no
callback being under way, which one processor guarantees.

## Runs

| Run | Instance | Shows |
|---|---|---|
| `lifecycle` | 3 devices, 4 structs, 2 minors, 2 files, symmetric | all lifetime invariants and the refinement |
| `no_minor` | 2 devices, 1 minor | violation: `FailedProbeFrees` |
| `window` | 1 device, 1 file, unbind and window | violation: `NoDangling` |
| `io` | 1 device, 2 structs, 2 files, messages of 1 and 2 chunks, removal, no memory | messages do not mix, no path keeps a lock, replies whole |
| `progress` | 1 device, 2 files, failing copies and transfers, rmmod with the window open, fair | every write returns, rmmod ends, `read_lock` excludes, only bound devices are used |
| `double_unlock` | 1 device, 2 files, failing copies | violation: `BufferStable` |
| `message` | widths 8, 16, 12; lengths 0, 4, 5; groups 1, 3, 5; two writes | bytes, replies, bounds |
| `gpio_timer` | 5 samples a second, HZ 2, period 2, buffer 3, 2 substreams, fair | position, periods, expiry, place in the music, timer; refinement of `StreamTimer` |
| `gpio_smp` | same, 2 CPUs | violation: `TimerStopped` |
| `soundgen` | period 2, buffer 4, up to 3 late, fair | callback against calls; refinement of `StreamTimer` |
| `modules` | 6 modules, 2 files, 16 calls that may fail, 28 modes, four of which wrap, fair | handles, unwinding, framebuffer sizes, rmmod ends |
| `board` | 8 revisions, 2 processors, 7 names, 2 kernels, 4 sets of taken GPIOs | pads, GPIOs, MMC, device numbers |

Bounds. Three devices for two minors is the least that exhausts the pool and
reuses a minor; four structs leave one spare, so an address is reused while
another is a zombie. Two files are the least for which closing one leaves a user,
for which two writers compete, and for which one call's second unlock can hit
the other's lock. `UintMax` only has to exceed the number of files: `users` never wraps.
`BufLen` and `BufSize` are the tightest that the assumptions allow, so an access
one too far is outside. In `message` the groups divide the length, do not divide
it, and exceed it. In `gpio_timer` a jiffy is 5 units of 1/HZ sample, a period 4
and a buffer 6: every phase between jiffies, periods and buffer comes up, and a
callback two jiffies late spans several periods. `MaxElapsed` bounds what is
carried through a suspend, `MaxLate` the delay of a callback, `MaxWrites` the
writes. `UintSize`, which is 2^32 in the code, is 21: the smallest width that
holds a buffer and what the latest callback adds, so that one less violates
`PositionExact`. The music is two half buffers long, enough for the counter to
start again while either substream does.

In `modules` two files let one close while another stays open, and fill both
substreams of the GPIO card. `FaultsAll` has every call that may fail, with two
exceptions: `video_device_alloc`, after whose failure the V4L2
driver works on freed memory, and the nunchuck's two allocations, which it does
not look at. `ModesAll` has depths of each class and one too large, growing and
shrinking sizes, offsets inside, outside and inherited; and `ModesWrapping`, of which
the end of a line, its bits, the size of the screen and its pages exceed `UintSize`,
here 2^19, the least power of two that holds the default mode. In `board` each name
stands for a branch of the code; a second name with the same effect would add
nothing. Kernels have all of the drivers' options or none, as no two of them meet
in one condition. The taken GPIOs are none, one of the revision, the shared
interrupt pin, and two of which a later part requests one.

Deadlock is checked except where the system really stops: an exhausted minor pool
leaves the lock held, a dead probe leaves rmmod waiting, a write on a removed
device hangs, the bounded number of writes ends, and so does the boot.

Fairness. `SpiDevice`: the threads that run remove and rmmod go on; no user has to
do anything. `SpiDriver`: a running call goes on (weak fairness; the controller
answers `spi_sync`), and kernel mutexes serve waiters in turn (strong fairness of
the lock steps). Timers: time passes, expired timers run, and in `soundgen` a
system call goes on. `KernelModules`: a probe, a remove, an unload and a poll
that have begun go on (weak fairness). `ExitDevice` needs the device's lock, which
a bind or unbind may hold now and then, and the unregistering of the nunchuck
needs the poll to be at rest, which now and then it is not; a mutex serves its
waiters in turn and a cancelled work item is not queued again, so both have
strong fairness. Nobody is obliged to close a file.

## Where code and comments disagree

Each is a run that TLC finds violated; details and lines are in `findings`.

- `no_minor`: probe returns with `device_list_lock` held and the struct leaked.
- `window`: release between remove's two sections leads to use after free.
- `double_unlock`: a failed `copy_from_user` unlocks `buf_lock` twice.
- `gpio_smp`: `del_timer` leaves a running callback free to rearm.

Further observations, which no run shows: every probe re-initialises the
`read_lock` that all devices share, held or not (:103; the models allow that only
with `"hotplug"`, and `ReadLockExclusive` and `QuietReply` are checked without it);
`transmit_msg` clears its part of `read_buffer` before it takes the lock (:403, in
`WriteChunk`), so a reader that holds the lock may copy a reply that is being
cleared; a `group_by` of 0 makes the loop at :331 endless (excluded from
`progress` and, by an assumption, from `SpiMessage`); `read_buffer` and
`last_len` are shared by all devices, so a read can return another device's reply, or, when a
device is probed anew while an earlier write is still under way, parts of two;
read returns `count`, not the number of bytes copied; `minors` has
`N_SPI_MINORS / BITS_PER_LONG` words, which is none on a 64-bit build; the last
chunk of a message is sent at full `group_by` length; `buffer_counter` is reset only if
`dma_bytes / 2` divides 48000, after a copy that starts at the very end of the
music, and is shared by playback and capture, so that two processors or two sizes
take it past the end, and the copy's end lies beyond the array even then.

In the other modules:

- `alsa_gpio.c:406`: probe tests `err` without having assigned the result of
  `snd_card_alsa_gpio_pcm` to it, so a card without a PCM device is registered.
- `virtfb_platform.c:62`: `set_par` frees the memory before it allocates the new;
  when that fails, `screen_base` dangles, although the comment at :122 wants a mode
  that works. A mode of one bit and less than eight pixels has a size of zero.
- `virtfb_platform.c:64`: line length and size are products of what the user asked for,
  in 32 bits and unchecked, so a huge mode can get a small memory (`ScreenInMemory` says
  that `screen_size` follows the memory nonetheless); `xoffset + xres` at :116 wraps too, and
  then the visible part of an accepted mode lies outside the virtual screen
  (`ModeAcceptable` excepts that).
- `virtfb.c:93`: `check_var` writes colours and depth of RGB888 into the current mode and
  not into the one it was asked about, also when that is only tested; the length of red
  is 0 and its offset 8, the other way round than RGB888 has them. exit never frees
  `videomemory`.
- `v4l2-driver.c:80`: when `video_device_alloc` fails, probe returns 0 with `ddev`
  freed. `vfd` and each file's `v4l2_fh` are never freed.
- `nunchuck.c:59`: after a failed transfer the poll decodes an uninitialised byte;
  the results of the two managed allocations are not looked at.
- `board-omap3beagle.c:1418`: the McSPI muxing takes five of the six pads of the
  second MMC controller, which serves the WLAN or a zippy's second card slot, five GPIOs
  that the trainer board has exported, and the LCD's power pin
  (`OnlySpiTakesPads` lists them). GPIO 140, also exported to the trainer, has no
  pad muxed at all, and 141 only with a zippy.
- `board-omap3beagle.c:800`: the touchscreen's interrupt is written into the table
  of bus 2 after the table was registered, and is lost. GPIO 157 is the interrupt
  of three boards. A board of unknown revision keeps the 8-bit MMC bus.
- debugfs: an init that fails leaves its directory, and the next load fails over it;
  `dbgfs_ops` names no owner.

## Proofs

`SpiDevice_proofs` shows `IInv` inductive for any sets of devices, structs and
files (the files finite), any number of minors and any `Env` that satisfies
`SafeEnv`. No conjunct of `IInv` is inductive alone: `NoDangling` needs
`UsersCount` (remove frees when `users` is 0, which must mean that no file
holds the struct), `Ownership` (the struct removed is nobody else's) and `Phases`
(with the window open, no file is open while a remove runs, since only a going module
removes); `UsersCount` needs the files finite and `UintMax` no smaller than their
number, or the counter could wrap; `MinorsExact` needs `Ownership` to clear only
its own bit. The proof has one lemma per action and, in it, one step per conjunct.
From `Invariance` follow the named theorems of `PROJECT.json`.

At its end, `Refinement`: every step of `SpiDevice` is a step of `SpiRefcount` or a
stutter, using `IInv` in the state before and after.

`SpiDriver_proofs` carries that over to the composition: a step of `SpiDriver` is a
step of `SpiDevice` or leaves its variables alone (`DriverIsDevice`), so all theorems of
`SpiDevice` hold here too, the refinement among them (`DriverImplementsRefcount`). On `IInv`
rests `DInv`: each call is at a place its file allows (`Calls`), whoever holds a
lock is inside its section or died there (`LocksHeld`), and, each under its own condition, the
converse. That whoever is inside holds `read_lock` needs a probe not to reset it
(no `"hotplug"`); `buf_lock`, copies not to fail (no `"efault"`, else the second
unlock); and that a file's struct still has its device, devices to go only with
the module (no `"unbind"`). `BufferIsStable`, `ReadersExclude` and `SyncsAreBound`
state these conditions as assumptions, and the violation `double_unlock` shows that
the second is needed. `ReadersExclude` covers any number of devices, which share
`read_lock`; the runs have one. `RepliesAreQuiet` then follows what no lock covers,
`read_buffer` with `last_len`: with one device all open files are on one struct
(`OneStruct`), so its `buf_lock` lets one write send at a time, whose reply is complete
as far as its loop has come (`Underway`). `Quiet` lists what that needs: one device, not
probed under open files, and copies and transfers that succeed.

`SpiMessage_proofs` shows all three properties of `SpiMessage` for every width of a byte,
header, payload, group and buffer size. First the bit reversal
(`ReverseBitsMirrors`): `Bit(ReverseBits(x), Bits - 1 - k) = Bit(x, k)`, by induction on
the rounds of the loop. Induction over the naturals is stated for a set in place of a
predicate (`Induction`), as the library's own theorem takes an operator that the provers
cannot instantiate; it rests on the well-foundedness of `<`, and from it follows that the
recursive functions `Pow2` and `Rounds` exist (`Iteration`) and satisfy their equations.
Then an inductive invariant with one part for each loop, which says what the loop has done
below `i` and has still to do from `i` on (`Swapping`, `Reversing`, `Sending`), and what
stays until the next write (`Begun`, `Done`). `WireComplete` needs all of them in
turn: the bytes sent are those that reversing left, which are those that swapping left.
Assumed are that `group_by` is not 0, for which the code's loop does not end, and
`BufSizeAssumption`, which the code's 4096 satisfies: 9 + 255 + 255 - 1 = 518.

`SoundGenTimer_proofs` shows that module's `IInv` for all sizes and delays. Its
invariant falls into control (which call may run beside which place of the
callback, and what `running` and the timer are then) and time (signs and bounds of
the clocks); each of the two is preserved on its own. `NoDrift` adds that the expiry,
counted from `base_time`, and the pointer's place at it are whole periods (`Grid`),
which the pointer's wrap keeps because the period divides the buffer. `KeepsContract`: each
step is a step of `StreamTimer` or a stutter, given the control part and that the timer
is never queued while its callback runs (`Alone`).

`GpioTimer_proofs` has five results. `OneProcessor`: with `Cpus = 1`, a stream that
is not running has no timer and a freed struct no callback, because no call of the
user runs between the callback's entry and its end. `KeepsContract`, also for
`Cpus = 1`: the refinement of `StreamTimer`; it adds that a running stream has its timer
pending whenever the callback's body does not have it in hand (`Driven`). `Expiry`: the timer always
expires with the first jiffy at or after the next boundary, on any number of
processors; it rests on the bounds of the rounded quotients (`JiffiesBounds`,
`PeriodsBounds`). `PositionIsExact` and `PeriodsAreCounted`, for `Cpus = 1`: the
invariant `At` says that what has been played, the position, the rest and the
count of periods are congruent, each modulo its own size; an update adds the same to
all of them (`AtUpdate`), so that neither the nested moduli nor the order of callback,
pointer and suspend matters. `Wide` is what 32 bits must hold: a buffer, a period and
what is played in the longest delay (the run's `UintSize` is as small as its steps
allow, a little below `Wide`). `CopyStaysInMusic`: under the conditions in the property,
`buffer_counter` never passes the number of whole copies in the music.

`KernelModules_proofs` shows `HandlesValid` and `NothingKept` for any set of
drivers and files, if only cards and the nunchuck are unbound under open files and
any call may fail but `video_device_alloc` (`Survivable`). The invariant ties the phase of the module to the device (`Phases`),
the device to what is held (`Holding`), and both to the files and the poll
(`Using`): a remove gives back exactly what was held, and an unload finds nothing
more, only because the phases say what can have been acquired by then. `ModulesTypes` is
the type invariant, for any unbinding; it takes the type of the framebuffer's memory from
the invariant of `VirtFb_proofs`, which the module extends.

`VirtFb_proofs` shows `ScreenInMemory` and `ModeAcceptable` for any modes of unsigned
ints of any width that holds the default mode and a page (`ModesAssumption`,
`WidthAssumption`), wrapping where the code does. Its invariant adds to them what each driver
relies on when it keeps its memory: `virtfb.c` that `fix.len` is what was allocated,
`virtfb_platform.c` that memory and mode are always replaced together (`Sized`).

`BeagleBoard_proofs` shows the five invariants of the board for any kernel options, any
pair of expansion boards and any GPIOs taken by others, with no assumption. They say what
holds after the boot; the invariant behind them says it for every point of it. `Choices`
ties the expansion to the names on the command line and to how far the init has come,
`Muxing` says which pads keep what they were given although later parts mux again,
`Owning` that a GPIO has one owner at most, `Registered` what each registered device owes
its place to, and `Slots` that the controllers chosen early and late belong to the same
expansion. `SpiDevicesWired` needs three of them: the Ethernet chip was registered because
its request for GPIO 157 succeeded, no other request for it can succeed after that,
and nothing muxes that pad or the controllers' again.

Every safety property that a passing run checks is so stated by a theorem. Only
model-checked are the liveness properties (`WriteCompletes`, `ExitCompletes`,
`PeriodsReported`, `CallsReturn`, `TimerRunsDown`, `ExitEnds`): fairness and ENABLED are
out of the prover's reach. What `TimerRunsDown` rests on, that after a stop a timer is
queued again at most once before the next start, is part of `KeepsContract`. Where a theorem has an assumption
(`SafeEnv`, no `"hotplug"`, `"efault"` or `"unbind"`, `Quiet`, one processor, `Wide`,
`Survivable`), the
code does not keep the property without it, and a run or an observation above says how.
No module uses a RECURSIVE operator.

## Not modelled

- The second timer implementation of the sound generator (`alsa_sound_gen.c`,
  209-357): it is never installed, and repeats the code `GpioTimer` models.
- The waveform tools and the generated music: user programs and data.
- The TCP client: `tcp_client_init`, which would connect, is never called.
- The debugfs example: its value is served by the kernel's own handlers, and the
  write handler keeps nothing.
- The USB gadget stub: it registers a driver with empty callbacks and refers to a
  variable that does not exist.
- The modules that only print.
- Of the board file: display, clocks, memory timings, NAND, regulators, USB, and
  the parameter that sets the WLAN's clock.
- Of the nunchuck: what its registers mean, and allocations that fail.
- mmap of a framebuffer, and the SPI mode and speed fields of a message, which pass
  through.

## Plan

Modelled, checked and proved: everything above. What could still be added:

1. An abstract account of the position and the periods, which `GpioTimer` and the ghosts
   in its invariants give for one implementation only.
2. The same for a module's life: that each of the six modules implements one abstract
   module, which is loaded, bound, used and unloaded.
3. What `BufferStable` and `QuietReply` promise together, as an abstract transfer of whole
   messages that `SpiDriver` implements under the assumptions of `Quiet`.
