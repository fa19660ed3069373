# Verification of meta-dualsense

meta-dualsense builds the firmware of a small board that sits between a
keyboard and mouse and a host. In *DualSense mode* the daemon `dualsense-ffsd`
turns evdev events into the reports of a DualSense controller; in *passthrough
mode* the daemon `kbm-passthrough` sends them on as boot keyboard and mouse
reports. A web service edits the configuration and switches modes, a third
daemon drives the LEDs. This directory holds TLA+ modules of the parts whose
correctness depends on order, time, failure or limits, the TLC configurations
that check them and TLAPS proofs of the most important results.

    tlc -workers 2 -config EpWriter.cfg EpWriter       # one run of the table below
    tlapm EpWriterProofs.tla                           # the proofs, likewise every ...Proofs module

Paths below are relative to `src/`; `ffsd` stands for
`recipes-apps/kbm-mapper-ff/files`, `pass` for
`recipes-apps/kbm-passthrough/files`, `web` for `recipes-apps/kbm-web/files`,
`leds` for `recipes-apps/kbm-leds/files`.

## 1. Inventory

| Component | State | Operations | What must be right |
|---|---|---|---|
| **Report writer** `ffsd/main.c` (`struct ep_writer`, main loop, shutdown) | one-slot mailbox, `has_pending`, `stop`, mutex, condition variable, `stopped`, the fds | `ep_writer_submit`, `ep_writer_loop`, `ep_writer_stop`, the epoll loop, `on_signal`, unbinding the UDC, cleanup | no torn, repeated or reordered report; no lost wakeup; the newest report gets out; ep0 is answered while the writer is blocked; shutdown ends although the writer sits in `write()`; no write to a closed descriptor |
| **Event mapper** `ffsd/mapper.c` (event half), drain loop and reload in `ffsd/main.c` | `pressed_lo/hi`, the key and button tables, device slots | `mapper_handle_event`, the end of the drain on ENODEV, `config_load` on an inotify event for the file | a controller button is down exactly when a finger holds a key bound to it, except in accidents one can name |
| **Report builder** `ffsd/mapper.c` (report half) | `pressed_since_ns[]`, `prev_*`, the ring of mouse samples, the rotation debt | `burst_tick`, `is_active`, `window_sum`, `mapper_build_report` | the first report after a press shows it; the burst phase starts with the press; the velocity window sums the samples it says it does |
| **Mode-toggle chord** in both daemons | `hotkey.pressed`, `all_since_ns`, `fired` | `hotkey_update`, `hotkey_should_fire`, `hotkey_reset` | one switch per hold of a chord really held for one second |
| **Passthrough daemon** `pass/main.c` | modifiers, key slots, mouse buttons, pending motion | drain loop, `kbd_press`, `kbd_release`, `mouse_flush`, `kbd_write_report`, final all-release | the host's keyboard and mouse are those of the user; nothing stays down after the daemon has gone |
| **Configuration parser** `ffsd/config.c`, again in `pass/main.c` and in `web/main.go` | `struct mapper_config` | load, defaults, clamps, key names, printing | the mapper runs the file; a save changes what the user changed and nothing else; both daemons watch for the same chord |
| **Device discovery and hot-plug** both daemons | `input_slots`, inotify watch | `scan_inputs`, `open_inotify`, `classify_and_open_input`, `input_slots_add`, `input_slots_remove_fd` | every keyboard or mouse present is open exactly once |
| **USB control path** `ffsd/main.c`, `ffs_descriptors.h`, `feature_reports.c` | ep0, constant tables | `handle_ffs_event`, `handle_setup`, descriptors | a request gets its own answer, of the announced length; none hangs, and no SIGTERM behind one |
| **Key capture** `ffsd/main.c`, `web/capture.go` | listening socket, four clients | `capture_accept`, `capture_publish` | the browser sees the keys pressed while it waits; the mapper never waits for it |
| **Web configuration and profiles** `web/main.go`, `web/profiles.go` | live file, profile files, active marker | save, activate, create, import, update, delete | the live file is the active profile; no request destroys another one's work |
| **Mode switching** `web/main.go`, systemd units, the daemons' `systemctl` forks | which units are active | hotkey, web requests, boot | the board comes to rest in the mode asked for, its gadget on the UDC |
| **Gadget setup** `recipes-core/dualsense-ffs`, `recipes-core/kbm-passthrough-setup` | configfs tree | create, bind, unbind | run before the daemon, undone after it |
| **Status LEDs** `leds/main.c` | pattern, crossfade deadline, PWM | poll units, crossfade, PWM loop | the LEDs settle on the state of the board, announce each new pattern, and go dark at the end |
| **Web UI** `web/ui` | the configuration the page keeps | edit, post | with the configuration, above; the rest is presentation |
| **Kernel patches**, **image and build** | | | outside the models |

### How they interact

* Inside `dualsense-ffsd`: one main thread runs everything from epoll (evdev
  fds, ep0, ep_out, a 1 ms timerfd, inotify, the capture socket); a second
  thread does nothing but `write(ep_in)`. They share the mailbox under one
  mutex. A signal handler sets `stopped`.
* Finger → kernel evdev buffer → drain loop → bitmap → (each ms) report →
  mailbox → endpoint → host. Every arrow is a place where something is
  overwritten, sampled or dropped.
* The web service and the daemons share only files: it renames a new
  configuration into place and inotify tells the mapper. Modes are switched by
  `systemctl`, from a chord in either daemon or from a web request.
* `kbm-passthrough` is one thread and writes to two `O_NONBLOCK` hidg devices,
  each of which holds one report until the host polls.

### What is hard

Two threads and a blocking write; signals; a report lost or overwritten between
two samples; buffers that overflow (`SYN_DROPPED`); devices that vanish with keys
down; a configuration that changes under a held key; timestamps of several
devices interleaved; an endpoint that refuses the very last report; concurrent
web requests on shared files; two mode switches at once. `PROJECT.json`,
"hazards", names each at its line with the property that covers it, or the
reason why none does yet.

## 2. The modules

| Module | Models | Checked by |
|---|---|---|
| `LatestReport` | what the report path promises: a channel that keeps the latest value only | PROPERTY of `EpWriter` |
| `EpWriter` | mailbox, writer thread, main loop, SIGTERM, ep0, shutdown | `EpWriter.cfg` |
| `EpWriterProofs` | theorems about `EpWriter` | TLAPS |
| `Hotkey` | the chord; extended by the two daemons that feed it | with `Mapper` and `Passthrough` |
| `Mapper`, `MCMapper` | fingers, evdev buffers, drain loop, bitmap, reload, unplug | `Mapper.cfg`, `HotkeyUnplug.cfg` |
| `MapperProofs` | theorems about `Mapper` and the chord in it | TLAPS |
| `Report`, `MCReport` | burst phase and gate, sample ring, velocity window | `Report.cfg`, `ReportPhase.cfg`, `ReportTwoMice.cfg` |
| `ReportProofs` | theorems about `Report` | TLAPS |
| `HotPlug` | the scan, the inotify watch and the slot table of both daemons | `Board.cfg` |
| `HotPlugProofs` | theorems about `HotPlug` | TLAPS |
| `Profiles`, `MCProfiles` | the files of the web service under concurrent requests | `Profiles.cfg` |
| `ProfilesProofs` | theorems about `Profiles` | TLAPS |
| `Leds` | the LED daemon: poll, acknowledgement, render loop | `Board.cfg`, `LedsHeader.cfg` |
| `Settings` | the configuration file, its three readers, kbm-web's form and printing | `Board.cfg` |
| `SettingsProofs` | theorems about `Settings` | TLAPS |
| `Control` | control transfers on ep0, with a host that aborts and resets | `Board.cfg` |
| `Capture` | the key-capture socket and its relay to the browser | `Board.cfg` |
| `Modes` | mode switching: four units, systemd's jobs, one UDC | `Board.cfg` |
| `MCBoard` | the instance of `HotPlug`, `Leds`, `Settings`, `Control`, `Capture` and `Modes` | `Board.cfg` |
| `BoardProofs` | theorems about `Leds`, `Control`, `Capture`, `Modes` and `MCBoard` | TLAPS |
| `Passthrough`, `MCPassthrough` | drain loop, slots, motion, hidg devices, host | `PassthroughKeyboard.cfg`, `PassthroughMouse.cfg`, `PassthroughLast.cfg` |
| `PassthroughProofs` | theorems about `Passthrough` | TLAPS |

A model's variables carry the names of the C fields wherever there is one; the
comment beside each VARIABLE gives the field. `PROJECT.json`, "map", gives the
lines each definition stands for. Operators named "Variant of ..." are what
`PROJECT.json`, "mutants", swaps in: plausible mistakes that the named property
is shown to catch.

### EpWriter (`ffsd/main.c`)

Every lock, unlock, wait, signal and half of a `memcpy` is a step of its own, so
that all interleavings the mutex does not forbid are explored. `mpc` and `wpc` are
the places of the two threads. A report is identified by the tick that built it
and is kept as two halves, each the id of the report its bytes come from; a torn
report is one whose halves differ. `pthread_cond_wait` gives the mutex up and
sleeps in one step, may wake spuriously, and takes the mutex again before it
returns; a signal that finds nobody waiting is lost. The endpoint is external: a
transfer is queued, completes when the host polls, fails when the gadget is
unbound or disabled. `epoll_wait` returns a set of ready events that the loop
then handles one by one while new ones arrive. SIGTERM sets `stopped` between any
two steps; a signal that hits between the test of `stopped` and `epoll_wait` does
not interrupt the wait.

Refinement: `newest <- ticks`, `slot` is the pending report once it is whole,
`flying` is what the writer holds between its copy and the end of `write`,
`received` is what the host read last.

### Mapper (`ffsd/mapper.c`, `ffsd/main.c`) and Hotkey

`held` is the truth: which switches are under a finger. `queue` is each device's
kernel buffer; an overflow empties it down to the newest event, or to the
`SYN_DROPPED` alone. `draining` is the device whose buffer the loop is reading:
fingers, the clock, unplugging and the editor of the file may step between any two events of one
drain; the reload may not, because it is another epoll branch of the same
thread. The end of a drain polls the chord and, on ENODEV, frees the device.
`excused` is a history variable: it gains an action at exactly the four
accidents below and loses it when the bit is set or cleared afresh from a table
that agrees with the fingers, so `FollowsFingers` says that *nothing else* makes
bitmap and fingers disagree.

1. two keys bound to one action: one bit, no count;
2. a reload while a key is down: the release is looked up in the new table;
3. a device unplugged with a key down: no release is ever read;
4. an evdev overflow: `SYN_DROPPED` is taken for an ordinary SYN and the state is
   never re-read (`EVIOCGKEY`).

`Hotkey` keeps the time of the chord in three values — never, recent, more than
one second ago — which is all the code compares. It is a set of operators used
as conjuncts of the two daemons' actions, because in the code it is a struct
inside each daemon and not a process. The hold is polled at the end of a drain only
(`ffsd/main.c:709`), so with the chord held and no input at all the toggle never
fires; what makes it fire in practice is the autorepeat of the chord's own keys, whose
events must not start the second over (`HoldFires`). A kernel that stops the
autorepeat, as it does when any key of that keyboard is released, takes the drains away.

### Report (`ffsd/mapper.c`)

Time is whole milliseconds. Presses are changed directly (their way from the
finger is `Mapper`'s business), reports are built at most once per millisecond
and may be late, the burst options may be reloaded at any time. A jittered
cadence is the sequence of (cycle, on time) pairs the pseudo-random functions
yield; the configuration picks it from the constant `Patterns`, an on time of 0
being a skipped cycle. A press and release that both fall between two reports are in neither bitmap:
`EveryPressShows` is about presses that a report sees. The ring is indexed and
overwritten as in the code;
`window_sum` walks it newest first and stops at the first old sample. The
history `log` records the time and bitmap behind each report, and the properties
are stated over it and over `motion`, the samples really read. Left out: the
floating-point response chain from counts to stick deflection, and the byte
layout of the report.

### Passthrough (`pass/main.c`)

`kbd` and `mouse` as in the code, with one motion axis standing for x, y and
wheel, which are treated alike. Each hidg device is `Idle` or holds one report;
a write to an occupied or unconfigured device fails, and the code ignores it.
`host` is what the host makes of the reports it has polled. A bus reset empties
the devices and releases everything at the host. History variables: `readDown`
(codes whose last event read was a press), `rolled` (those that found no free slot),
`kbdLate`/`mouseLate` (a report was refused and nothing has been sent since), `lost`
(motion that was read and will never be sent).

### HotPlug (`ffsd/main.c`, repeated in `pass/main.c`)

A name under `/dev/input` is a keyboard or mouse, another device, or nothing.
Making a node and setting its attributes are one inotify event each; removing it
is none, but turns the slot that was open on it into a dead one. `scan_inputs`
takes the names `readdir` returns one by one, in any order, and with devices coming
and going between two of them; `open_inotify` comes after it; from then on the
loop reads all waiting events at once, handles them one by one, and frees dead
slots in between two batches. Names recur, so the next device may take the name
of one whose slot is still held. Opening a device may fail, and so may setting up the
watch: the daemon then runs on with the devices it has (`ffsd/main.c:614`). `excused`
gains a device in exactly four accidents, and loses it when it is opened or leaves:

1. plugged while nothing watches the directory: during the start, when it may have
   been read already (the udev event that follows may or may not come in time), or at
   any time if the watch could not be set up;
2. announced while a dead slot of the same name is still held;
3. met with the table full; it is not looked at again when a slot becomes free;
4. not openable when it is met; the next event that names it is the next attempt.

How a device is classified as keyboard or mouse is left out: `node` says what it is.
That `/dev/input` itself cannot be read is left out as well.

### Profiles (`web/profiles.go`, `saveConfig` in `web/main.go`)

Every request is a sequence of file operations (`Program`), each of them a step,
and requests interleave freely, because `net/http` serves each in a goroutine of
its own and no handler locks anything. `os.WriteFile` is two steps: truncate and
write. What has been opened keeps its inode: `file` says where the write will end
up when the file has been renamed or removed since. A write over what another
request has written in between may leave that one's tail (`Torn`). Contents are
model values; the metadata comment of a profile, the grammar of a configuration
and the read-only export are left out. A full disk or the end of the process cuts a
request short between any two steps (the end of the process is every request
being cut short).

Two histories. `meant` and `shared` remember what the request that last renamed
the temporary file had to write and whether a second request had that file open
as well. `accidents` counts overlaps of requests that conflict (`Conflict` lists
them) and requests cut short; an activation that nothing disturbed sets it to
zero, because it brings marker, profile and live file back together.

### Leds (`leds/main.c`)

Two threads share `current` (the pattern) and `ack` (what is left of
`crossfade_until_ms`). Every load and store of an atomic is a step; each of the
three queries of `select_pattern` is a step and may fail; the state of the board
changes between any two. Time is kept in seconds: a second may pass wherever the
state thread sleeps or an acknowledgement runs, but not between the store of the
deadline and that of the pattern, and not before the 1 kHz loop has come round
(both are microseconds in the code). The main thread polls once before it creates
the state thread, whose idea of the last pattern is what that poll stored; if the GPIO
lines or the thread are not to be had the program ends. What a pattern looks like, and
the PWM, are left out.

`Called` is what the LEDs are to show by the lines of the header of `leds/main.c` that
`select_pattern` keeps to. The header promises `cold_tide` in two more cases, an
expected service that has failed and no UDC for more than 30 s while a mode is on
(lines 21-24); the code looks at neither and shows `idle_drift` and `heart_searching`.
`Promised` has the whole header, with `failed` as a condition of the board that no
query reads, and `leds_header` shows the difference. The third case, both modes active, is
seen only where a mode switch falls between two queries, and then not for long.

### Settings (`ffsd/config.c`, `hotkey_load` in `pass/main.c`, `web/main.go`, `web/ui/app.js`)

The file is a sequence of lines, a line a key with a number, an action or a chord;
`noted` marks a comment behind the number, `tight` the absence of a blank before `=` and
`cr` a line end of CR LF, because the readers differ there. Names come from a small set, each with a
capital form and a form without the comment behind them; each reader has its own
set of known names. `MapperReads`, `PassReads` and `WebReads` are the three
parsers (the first and the last a recursive function of how many lines have been read),
`WebWrites` is `saveConfig`. What filters or sorts does it by counting what comes before
(`InOrder`, `Picked`, `Sorted`): the prover knows no definition of `SelectSeq`. Around
them: a hand
editor that truncates, writes and closes; the form in the browser, loaded, edited
and saved at any time, also over a file that has changed since; the two daemons,
of which `dualsense-ffsd` reads the file before it watches the directory. Bursts
are those of one action; the deletion of a burst is an `hz` of 0, which prints
the same.

Differences met on the way, each of them named by a premise of the properties. The first
two contradict what the code says of itself:

* an empty chord "disables" the toggle (`ffsd/config.c:150`, `ffsd/config.h:63-64`,
  `web/main.go:91`), but kbm-web writes no line for it (`web/main.go:508`), which means
  the default chord: `FormRuns` excludes it, and without its premise the board run finds the
  save of an empty chord after which LEFTCTRL+ESC switches the mode; a line with no name in it does disable the mapper's, and `kbm-passthrough`
  takes it for the default;
* `hotkey_load` trims names of blanks and tabs (`pass/main.c:389-391`), `config.c` of
  all white space: in a file with CR LF line ends the last name of a chord is unknown to
  `kbm-passthrough` (`Heard`), whose chord is called a mirror of the other's
  (`pass/main.c:317`): for LEFTCTRL+ESC it watches for LEFTCTRL alone. `ChordsAgree` is
  about lines that end in LF, and the board run refutes it without that premise;
* `LEFTMETA` and `RIGHTMETA` are known to `kbm-passthrough` and to the page
  ("exactly what daemon's name-lookup recognizes", `web/ui/app.js:616`), not to
  `dualsense-ffsd`;
* `hotkey_load` takes the first line, `config_load` the last, and only the former
  cuts a trailing comment off and insists on no blank before `=`;
* `config_load` reads `20 # note` as 20, kbm-web as 0;
* a scale of 0 is clamped to 0.01 by the daemon and left out, that is 1.0, by a save;
* an unknown action leaves the earlier one in force in the daemon and replaces it
  in the form; two spellings of one key change places in a save;
* a binding deleted in the form comes back when `config_init_defaults` has one for
  that key;
* the page says "Saved — daemon hot-reloaded" for the chord although
  `kbm-passthrough` reads it at its start only; a form loaded before a hand edit
  overwrites it.

### Control (`handle_setup` in `ffsd/main.c`, `ffsd/feature_reports.c`, `ffsd/ffs_descriptors.h`)

`Transfer` is `handle_setup`: which transfer, in which direction and of how many
bytes, answers a request. The thread sleeps in the transfer until the host has
moved the data. FunctionFS is external: it remembers whether the setup it handed
out is unanswered (`state`) and cancels it when the host begins another or resets
the bus; the next call on ep0 then fails. The host may give up in silence. What
`handle_setup` calls a stall (`ffsd/main.c:440`) is a transfer of no bytes in the
direction of the request, which succeeds; only a transfer in the *other*
direction stalls ep0 (`SET_IDLE` with `IN`). The report descriptor declares 16
bytes for feature 0xF2 and its stub has 64, although `feature_reports.h` says the
sizes match; `Declared` leaves it out.

### Capture (`capture_*` in `ffsd/main.c`, `web/capture.go`)

Connections wait in the backlog, get a slot or push slot 0 out, are written to at
every key event, and are relayed one event at a time. A full socket loses the
event (`EAGAIN` is ignored), one that kbm-web has closed is noticed by the failed
write. `since` and `lossy` remember what a subscriber may have missed.

### Modes (`web/main.go`, the unit files, the setup scripts, `bind_udc`)

Four units: two set a gadget up (`ffs`, `setup`), two are daemons (`ffsd`, `pt`).
systemd is external and modelled by the rules the unit files rely on: a start
brings what is required and stops what conflicts; a stop brings what requires
it; jobs of units without an order between them run side by side; a newer job
replaces an older one; a daemon that failed is started again. What the project's
own code does is translated: `handleMode`, `switchTo` and `handleRestart` with one `systemctl`
call at a time in a goroutine per request, the boot into the enabled units, the chord's single `systemctl start`, the
scripts' unbinding and binding of the UDC, `bind_udc` and the unbinding at the
end. A daemon that lost the race for the UDC exits and comes back after
`RestartSec`; that is what makes the chord's switch arrive.

## 3. What the runs show

Passing runs:

| Run | Properties | Meaning |
|---|---|---|
| `ep_writer` | `NoTornReport`, `NoLostWakeup`, `NoWriteToClosedFd` | safety of mailbox, wakeups and descriptors |
| | `Implements` | the report path is a latest-value channel: never older after newer, never twice, never one nobody built |
| | `ShutdownCompletes`, `SetupAnswered`, `NewestDelivered` | SIGTERM leads to exit, a control request to its answer, and the last report built reaches a host that goes on polling |
| `mapper` | `FollowsFingers` | the bitmap agrees with the fingers but for the four accidents |
| | `FiresOnHeldChord` | the toggle fires only when every chord key is down, or its release could never be read |
| | `HoldFires` | a chord that is complete and stays so fires the toggle, as long as input goes on arriving |
| `report` | `PhaseFromRun` | the burst phase is that of the run of reports showing the key down |
| | `WindowComplete` | with one mouse the window misses no sample that is still in the ring |
| | `EveryPressShows` | the first report that sees a press shows it, whatever cadence or reload |
| `passthrough_keyboard` | `DownFollowsEvents`, `HostFollowsKeyboard` | roll-over is the only way to drop a key; the host agrees unless the last write was refused |
| `passthrough_mouse` | `HostFollowsButtons`, `MotionAccounted` | no motion is delivered twice; delivered, waiting, pending and lost motion add up to what was read |
| `profiles` | `LiveWhole` | the live file is at every moment what one request had to write, wherever a request is cut short, unless two had the temporary file open |
| | `LiveIsActive` | live file and active profile agree whenever no writer is in service and no accident has happened |
| | `SnapshotsKept` | a profile changes only by a save while it is active, its own update or its deletion |
| `board` | `Acknowledged`, `LedsSettle`, `LedsGoDark` | no pattern replaces another without the crossfade; the LEDs come to show the board's state as far as the code looks at it (`Called`); SIGTERM leaves them dark |
| | `MapperRunsFile` | a watching daemon that has read its notifications runs the file as it is, but for an open editor and the window before the watch |
| | `UntouchedSaveKeepsMapper`, `FormRuns` | load and save change nothing for the mapper; it runs what the form said, unless the chord was empty |
| | `ChordsAgree` | both daemons watch for one chord, in the files both understand and with lines that end in LF |
| | `HostGetsWhatItAsked`, `RequestsEnd` | no answer goes to another request, lengths are those announced; nothing hangs on ep0, SIGTERM included |
| | `SubscribersServed` | every accepted connection sees every key event once and in order, unless its socket was full; none is open and forgotten |
| | `ModeReached` | a switch made at rest, the restart of a running unit and the boot end in their mode, also when a daemon crashes; overlapping switches come to rest |
| | `OpenIsPresent` | with nothing left to handle, the open devices are the present keyboards and mice, but for the four accidents |
| | `PluggedIsOpened` | whatever is plugged is opened in the end, or leaves, or meets an accident |

The type invariants (`TypeOK`) of the modules also carry the bounds the C arrays
need (ring index and fill, slot count, a key or a device in at most one slot); that of
`EpWriter` says who owns the mutex.

Runs that show a disagreement between the code and what it says of itself:

| Run | Property refuted | What happens |
|---|---|---|
| `hotkey_unplug` | `FiresOnlyWhenHeld` (`ffsd/main.c:282`) | a keyboard is unplugged with its half of the chord down; the bit stays; the other half, held alone, switches the mode |
| `report_phase` | `PhaseFromLatestPress` (`ffsd/mapper.h:35`) | release and press between two reports go unnoticed by `burst_tick`: the new press continues the old phase |
| `report_two_mice` | `WindowComplete` (`ffsd/mapper.c:191`) | with two mice the ring is not sorted by time and the walk stops early |
| `passthrough_last_report` | `LastReportClear` (`pass/main.c:583`) | the final all-release finds the device occupied and is dropped |
| `leds_header` | `HeaderHolds` (`leds/main.c:22`) | a failed service shows `idle_drift`, a mode left without a host `heart_searching`, for good |

### Bounds, and why they are enough

* `ep_writer`: `MaxTicks = 3`. One report in flight, one in the mailbox, one
  being submitted: with three every pair of reports meets in every place. The
  safety part is proved for every bound.
* `mapper`: two keyboards, two key codes, one switch on each, two actions, two
  tables, one chord in two orders, a buffer of two events on one keyboard and of one on
  the other. Two keys and two tables are what the four accidents need; two events give an
  overflow with and without survivor. With two events on both keyboards everything the run
  checks was seen to hold as well, in twice the time; the safety part is proved for every
  size.
* `report`: four milliseconds, a period of 3 with one on, a ring of two, a
  window of one: the ring wraps, samples leave the window, a cycle ends and
  begins again, an empty (skipped) cycle comes up.
  One button, one direction, one mouse; the two violation runs use what their
  question needs (two mice, ring of four).
* `passthrough_keyboard`: three keys over two slots is the smallest roll-over;
  symmetry over the keys is sound, as no constant tells them apart.
  `passthrough_mouse`: a delta of 2 over a clamp of 1 is a motion larger than a
  report; the chord is the modifier that also sits on the keyboard.
* `profiles`: two requests, as every race of the code is one of two; two names,
  so that the active one and another exist; two configurations; at most one
  accident at a time, the properties being stated for none.
* `board`: one variable, `focus`, is chosen in the initial state and says which of
  the six components moves; the others rest. They share no variable, so a
  product of their states would add nothing, and the run has the sum. TLC counts
  `BoardNext` as one action; each component's actions and disjuncts were seen to
  fire in the coverage of this run; `leds_header` runs `Leds` by itself. `Leds`: two changes of the board, force file or
  query results, which is what makes a false alarm and a change during an
  acknowledgement. `Settings`: files of at most two lines out of five groups of
  lines that influence each other, two drafts of a hand editor, two edits; a third
  line about the same key adds nothing to "first", "last" and "repeated".
  `HotPlug`: three names over two slots fill the table; `MaxNotes = 1` unread
  inotify event, while as many are being handled: a name can be announced,
  leave and come back before its event is handled. Two unread events were checked
  by themselves, liveness included, with the same result in nine times the states; the
  safety part is proved for every bound. `Control`: twelve requests covering each branch of `handle_setup`, three transfers
  (one being answered, one that aborts it, one after it). `Capture`: three
  connections over two slots and a backlog of one, so that an eviction, a second
  eviction and a freed slot happen; a socket with room for two of three events
  overflows. `Modes`: two switches or restarts of any kind
  and one crash of a daemon.
* `MaxMotion`, `MaxTime`, `MaxTicks` stop counters; `CHECK_DEADLOCK` is on
  wherever the bounded model always has a step: each such module lets its
  environment go on, or ends in an explicit terminated state. In `board` it is off:
  a board at rest whose user has done all the bound allows has nothing to do.

### Fairness

`EpWriter`, `Mapper`, `HotPlug`, `Leds`, `Control` and `Modes` state liveness. In `EpWriter`: weak fairness of each thread's own steps: both
are ordinary threads of a preemptive kernel. Strong fairness of taking the
mutex, because a thread that finds it free only now and then must get it: the
glibc mutex is not strictly fair, but each side holds it for a bounded time and
sleeps in between (a timer period, a USB transfer). Weak fairness of the timer.
The host gets none: `ShutdownCompletes` and `SetupAnswered` hold against a host
that never polls; `NewestDelivered` takes its polling as a premise of the
property. In `Mapper` (`FairSpec`): weak fairness of the drain loop and of the clock; that
drains end again and again, which needs input that goes on arriving, is the premise of
`HoldFires`, and without it the property fails. In `HotPlug`: weak fairness of the daemon's thread as a whole, which starts up and then
goes on as long as a descriptor is ready, in whatever order it takes them. Devices come
and go without any fairness.
In `Leds`: weak fairness of both threads and of each query (a `systemctl
is-active` that returns), strong fairness of time, because a second that may pass
only between two rounds of the render loop passes all the same. The board changes
without fairness, and the query that fails has none either. In `Control`: the main
loop runs, a host that still waits for a transfer moves its data, and a host that
left the device in the middle of a transfer resets it, as the enumeration of
any host does after a timeout; without the last a thread asleep in ep0 would have
nobody to wake it, and the code has no timeout of its own. Asking, giving up and
resetting otherwise have no fairness. In `Modes`: each unit's jobs are worked off
and calls of `systemctl` return; switches and crashes have none. The other modules state no liveness: their loops are driven by a user
and a host that need never act.

## 4. What is proved

`EpWriterProofs`, for every `MaxTicks` in `Nat \ {0}` (the only assumption):

* `TypeCorrect` — `Spec => []TypeOK`;
* `Invariance` — `Spec => []IInv`;
* `NeverTorn`, `NeverSleepsThroughWork`, `FdOutlivesWriter` — the three safety
  invariants of the run;
* `Refinement` — `SafeSpec => Implements`, that is, every behaviour without its
  fairness implements `LatestReport`.

None of the safety invariants is inductive alone. That the owner of the mutex is the
thread that stands in its critical section (`MutexInv`, a part of `TypeOK`) keeps the two
threads from copying at once. `IInv` adds to `TypeOK`: the halves of the mailbox and of the
writer's copy agree outside the copying windows (`WholeInv`); what the writer
holds is a report that was really built, and a transfer is queued only while it
is in `write` (`TakeInv`); whenever the writer sleeps with work to do the main
thread still owes it the signal (`SleepInv`, the heart of the lost-wakeup
argument: the flags are set and the signal sent under the same lock under which
the writer tests the flags and falls asleep); descriptors are closed after the
join, and the join returns when the writer is done (`StopInv`). The proof has one
step per action and a lemma per conjunct; the refinement maps each step to a
step of `LatestReport` or to a stutter.

`HotPlugProofs`, for every set `Paths` of names without the empty string (the code
marks a free slot by an empty path) and every `MaxInputs` and `MaxNotes` in
`Nat \ {0}`:

* `HotPlugInvariance` — `HotPlugSafeSpec => []HotPlugInv`;
* `OneSlotEach` — `HotPlugSpec => []HotPlugTypeOK`, which includes that no device is open
  twice;
* `OpenArePresent` — `HotPlugSpec => []OpenIsPresent`.

`OpenIsPresent` says nothing of the moments before everything is handled; `HotPlugInv`
follows a device through them (`NoticedInv`): a keyboard or mouse that is present
is open, among the names still to be scanned, named by an event in the kernel's
queue or in the batch read, or excused. `StageInv` says that the scan leaves no
names and that there are no events before the watch, `ScanInv` that a name still to
be scanned is in no slot. The one lemma about both ways a device is opened is
`OpeningInput`; that `input_slots_add` finds the lowest free slot rests on the
well-foundedness of `<`.

`MapperProofs`, for every set of devices, keys and actions, every non-empty set of
configurations and every size of the buffers (`SwitchesAssumption`,
`NoneAssumption`, `ConfigsAssumption`, `MaxQueueAssumption`):

* `Invariance` — `Spec => []IInv`;
* `MapperTypes` — `Spec => []TypeOK`;
* `BitmapFollows` — `Spec => []FollowsFingers`;
* `ToggleFiresOnHeldChord` — `Spec => FiresOnHeldChord`, an action property.

`FollowsFingers` is about moments with nothing left to read; `IInv` carries it there
in two halves that meet at `seen`, the position of each switch as the daemon last
heard of it. `QueueInv`: the newest event of a switch in a buffer tells where the
switch is; `SeenInv`: with none there, `seen` tells, unless an overflow has dropped
it; `BitmapInv`: an action that is not excused is pressed exactly when a bound switch
is down in `seen`, whichever way the dropped ones are counted. `ChordInv`: a chord
position that is down is the first with its code, and its key is down in `seen` or is
an orphan, one whose release could not be read; the timer is set only while all are.

`PassthroughProofs`, for every set of devices and codes, every chord, any number of
key slots and any size of buffers and reports. `CodesAssumption` says that a code is
a modifier, a usage or a button but not two of them (the order in which the code asks
is then of no consequence), that the names of "no key" and "no device" are nobody's,
and that there are finitely many devices; `IdleAssumption` that an idle endpoint is
not a report.

* `Invariance` — `Spec => []IInv`;
* `PassthroughTypes` — `Spec => []TypeOK`;
* `DownIsWhatWasRead` — `Spec => []DownFollowsEvents`;
* `HostKeyboard`, `HostMouse` — `Spec => []HostFollowsKeyboard`, `... []HostFollowsButtons`;
* `MotionOnce` — `Spec => []MotionAccounted`.

`HostInv` says what holds between two drains also inside one: the host's keyboard is
the daemon's unless it is dirty or a report was refused. That a press and a release
change the slots of one key only rests on no key taking two slots (`KeysInv`).
`MotionAccounted` sums over buffers and over the devices with folds, which take the
elements of a set in an order nobody knows: the lemmas about `Total` show that a
sum is that of its parts and changes by what one summand changes, by the
uniqueness of the function a fold defines and the well-foundedness of finite
subsets.

`BoardProofs` holds the theorems about four of the components that `MCBoard` puts
side by side, and about `MCBoard` itself.

About `Leds`, for every `MaxChanges` in `Nat` and every `Forced` that names a pattern:

* `LedsInvariance` — `LedsSpec => []LedsInv`;
* `LedsTypes` — `LedsSpec => []LedsTypeOK`;
* `LedsAcknowledge` — `LedsSpec => Acknowledged`, an action property.

`Acknowledged` depends on where both threads are. `LedsInv` adds to the types: before
the main thread renders there is no deadline and the LEDs are dark (`Starting`);
while there are two threads they agree on the pattern except between the two stores of the state
thread, and there the deadline is already set (`Announced`); the last second of a
deadline does not end without a frame of the crossfade (`Shown`); with no deadline
running the LEDs show the current pattern, and what the render loop has loaded is
the current pattern (`Followed`). That no second passes between the two stores, or
between two rounds of the render loop, is used there.

About `Control`, for every set of requests with a direction and a length
(`RequestsAssumption`) and any number of transfers:

* `ControlInvariance` — `ControlSpec => []ControlInv`;
* `OneTransfer` — `ControlSpec => []ControlTypeOK`;
* `AnswersItsRequest` — `ControlSpec => []HostGetsWhatItAsked`.

`HeldInv` is the argument: while FunctionFS counts a setup as pending, it is the one
the main thread is answering; what the host gives up or resets in between is
cancelled, and the answer to it refused. `AnswerExpected` compares `handle_setup`
with the descriptors case by case: whatever a driver counts on is what is sent.
`Expected` speaks of requests in the direction the standards give them, and of a
`SET_REPORT` of at most 256 bytes, the length of the daemon's buffer.

About `Capture`, for any number of subscribers, slots and events, any backlog and any
room in a socket (`ClientsAssumption`, `SizesAssumption`):

* `CaptureInvariance` — `CaptureSpec => []CaptureInv`;
* `SlotsBacklogRoom` — `CaptureSpec => []CaptureTypeOK`;
* `OpenIsServed` — `CaptureSpec => []SubscribersServed`.

`PlaceInv` gives every open connection one place, in the backlog or in one slot;
without it an eviction or a freed slot could drop a second one, or serve one twice.
`StreamInv` says what has been relayed and still waits in the socket: nothing before
the connection is accepted, each event since then afterwards.

About `Modes`, for any number of switches, restarts and crashes:
`PassthroughOnItsGadget` — `ModesSpec => []ModesTypeOK`, in which `kbm-passthrough` is
never active without the unit that made its gadget. `GadgetUnder` adds that a
gadget about to be stopped or restarted has its daemon stopped or restarted too, which every
transaction of systemd (`Jobs`) and every step of a unit preserves.

About the board as a whole, for the tables `MCBoard` defines and whatever bounds its
constants give:

* `BoardRunsEach` — `BoardSpec` implies `SettingsSpec`, `ControlSpec`, `CaptureSpec` and
  `ModesSpec`: every behaviour of the run is one of each component, whichever of them
  the run has chosen to move, and what is proved of the component holds there;
* `BoardTypes` — `BoardSpec => []BoardTypeOK`. `Leds` and `HotPlug` rest there in a
  state past their start while others move; it satisfies `LedsInv`, and `HotPlugInv`, too.

`SettingsProofs`, for any names, any files written by hand, any changes of the form and
any number of them. `SpellingAssumption` says that capitals of capitals are the same
and that a name both daemons know has no comment behind it; `TablesAssumption` that the
default chord is in both tables and in capitals, and that no action is called "none" or
nothing; `EditsAssumption` that files are made of lines and changes of the form would
be lines.

* `SettingsInvariance` — `SettingsSpec => []SettingsInv`;
* `SettingsTypes` — `SettingsSpec => []SettingsTypeOK`;
* `DaemonsAgree` — `SettingsSpec => []ChordsAgree`, for chords spelled plainly in a line that
  ends in LF (`Heard` says what else `hotkey_load` makes of a line);
* `SavedFormRuns` — `SettingsSpec => []FormRuns`, for forms whose chord is not empty;
* `UntouchedSave` — `SettingsSpec => []UntouchedSaveKeepsMapper`;
* `RunsTheFile` — `SettingsSpec => []MapperRunsFile`, from an invariant of its own:
  `WatchInv` says the same of a mapper that has loaded and not yet begun to watch; what
  changes there counts as missed.

`SettingsInv` itself is small. `FileInv`: the file, and what an editor has still to write,
are lines; a form is a form after any change; and a file that was saved is what the saved
form writes, until an editor opens it. `DaemonInv`: a daemon that runs, runs something
within its limits. What is hard is about data: what a reader makes of a file of any length
and a writer of any form. No induction over data can be cited, so each reader is followed
along the file by the lemma `Along` (were there a line after which a claim fails there
would be a least one): having read any number of lines, `dualsense-ffsd` knows of each
key the last of them that counts (`MapperReadsLast`) — `ReadAlike` compares
this with `kbm-passthrough`, which looks for the first line — and kbm-web has a binding for each line about one, in
the order of the lines (`FormKnowsFile`, `WebReadsLast`). `InOrderEnumerates` shows that
counting enumerates a finite set in order, hence that `Picked` filters and `Sorted` sorts
(`PickedIs`, `SortedIs`). `WebWritesIs` says which lines a form becomes and where they
stand; `WritesWhatItSays`, which `FormRuns` is, that they read back as the form said: a
number left out is the default, and the last line about a binding is a constant distance
behind the last binding of the form. `SavedUntouched` puts reading and writing together,
number by number and word by word. Its delicate case is `KeptBinds`:
several lines may bind one key, kbm-web keeps and sorts them all, and the mapper takes
the last; as `Kept` has them spell the key alike, and the sort is stable, the last one
stays last.

`ProfilesProofs`, for any number of requests in service, any names and contents.
`NamesAssumption` says that the model values for "no file", "empty", "torn" and "none"
are not names, contents or requests; `AccidentsAssumption` that `MaxAccidents` is in `Nat`:

* `Invariance` — `Spec => []IInv`;
* `ProfilesTypes` — `Spec => []TypeOK`;
* `LiveFileWhole` — `Spec => []LiveWhole`;
* `Undisturbed` — `Spec => []UInv`;
* `LiveAgrees` — `Spec => []LiveIsActive`;
* `SnapshotsAreKept` — `Spec => SnapshotsKept`, an action property.

The types rest on where a request stands in its program: `Table` writes the programs
out, `Follows` says which step comes after which, and `Fits` which file is open at
which step. `TmpInv` is the argument for the live file: a request that has the
temporary file to itself has emptied it, or has put there what it has to write, and
no other stands between its opening and its rename; a handle that a rename has moved
to the live file belongs to a request whose rename was shared.

`UInv` is about requests against each other. `OverlapInv`: of two conflicting requests
in service both are tainted, and a tainted request means an accident. `CalmInv`, without
an accident and without an activation in service: a save has the marker's profile, and
after its rename the live file is what it wrote; an update of the active profile holds what is
live; a new profile has a name of its own, not the marker's, until it is written or
deleted; and an update that has read a profile in the making has read an empty one. So
live file and active profile agree unless a save, or an update of that profile, is
between its first step and its last. `ActivateInv`: an activation that is not tainted is
alone, and brings marker, profile and live file together one after the other, from
whatever state earlier accidents have left; this is why it may set `accidents` to zero.
All ten actions are first shown to be an `Effect`, a relation between the record of
the request and the files before and after, so that the argument about each kind of
request (`SaveGoesOn`, ..., and `SaveAgrees`, ... for the others beside it) mentions
neither actions nor primes.

`ReportProofs`, for every period, window, ring, number of mice and cadence whose
cycles are not empty and are never on for longer than they last
(`PatternsAssumption`: `burst_tick` takes a cycle of 0 for 1 and clamps the duty):

* `Invariance` — `Spec => []IInv`;
* `ReportTypes` — `Spec => []TypeOK`;
* `PhaseOfRun` — `Spec => []PhaseFromRun`;
* `PressIsShown` — `Spec => EveryPressShows`, an action property;
* `OneMouseWindow` — for one mouse and `Window < RingCap`, `Spec => []WindowComplete`.

`PhaseInv` says of each action, by the log of the reports sent, which tick its phase
dates from; that a report has no earlier one to compare with is its only other
case. `RingInv` of the one mouse says that its samples lie in the ring newest first
and a millisecond apart, that each is a frame that was read, and that a frame no
longer in the ring is older than all in it; the walk of `window_sum` then meets each
frame of the window once before it meets an old one, which the proof says with a
bijection. Both hypotheses are needed: `report_two_mice` refutes the property with two
mice, and a window longer than the ring cannot be complete. The code has a ring of 256
samples and mice that report once a millisecond at most; its window is 6 ms unless
the configuration says otherwise, and `config.c` has no upper limit for it.

Every invariant and action property that a passing run checks is stated by one of these
theorems. Only model-checked are the liveness properties (`HoldFires`, `ShutdownCompletes`,
`SetupAnswered`, `NewestDelivered`, `PluggedIsOpened`, `LedsSettle`, `LedsGoDark`,
`RequestsEnd`, `ModeReached`): fairness and ENABLED are beyond the prover. So `Implements` is
checked with the fairness of `EpWriter` and proved without it.

## 5. What is not modelled, and why

* Discovery inside `Mapper` and `Passthrough`, which plug a device in one step;
  `HotPlug` has it in full, and they add nothing to it but the event streams.
* ep_out and the snapshot file of the main loop: their blocking behaviour
  is that of kernel code outside the repository.
* The right stick's response curve (the rotation debt, the speed of a lone
  sample) and the LED waveforms: floating point, with no discrete property stated
  anywhere. With `debt_drain` 0 the debt never decays; the code says nothing about it.
* A chord that names a key twice can never be complete (`ffsd/main.c:302` sets the
  first position only); `Hotkey` has the rule, no property is about it.
* Three `handle...` functions of kbm-web that do not change state (status, state
  and capture events beyond the relay), the metadata of profiles, and the pages.
* systemd's start limits (so neither `reset-failed`) and the `shutdown.target`
  conflict. `Modes` begins with a boot or at rest in some mode. Which `systemctl` overtakes
  which is explored for two switches. With three, and a chord held again while the stop of
  `dualsense-ffsd` is still pending, the same model ends with `dualsense-ffsd` active and
  its gadget unbound, and asking for emulation again does nothing, as the unit is
  active already; this is why `ModeReached` asks for rest only when switches overlap.
  The same holds for a restart of a unit that does not run: `restart dualsense-ffs` in
  passthrough mode stops the passthrough and starts no daemon, and a restart of
  `kbm-passthrough` in emulation mode stops `dualsense-ffsd` beside its own start, not
  before it, so that a crash between request and call can leave the board with nothing.
* Attributes and identity of the gadgets, kernel patches, image: straight-line
  configuration, or code against sources that are not here.

## 6. Plan

Done, in this order: `EpWriter` with its abstract channel and proofs; `Hotkey` and
`Mapper`; `Report`; `Passthrough`; `HotPlug` with its proofs; `Profiles`; `Leds` with its
proofs; `Settings`, `Control`, `Capture` and `Modes`; the proofs about `Mapper`,
`Passthrough`, `Capture`, `Control`, `Report`, `Modes` and `Profiles`; those about
`Settings`, after its readers and writers were written so that they can be reasoned
about; the board as a whole.

Next proofs: of the safety properties, none is left.

Next models: systemd's start limits in `Modes`; the race of the toggles of both daemons
with a web request on one instance of `Hotkey` and `Modes`.
