# Wana OS in TLA+

TLA+ models of the parts of Wana OS that run on the machine, and of the test that
judges them: PID 1 (`wana-init`), the log they all write (`wana-log`), the display
library and tool (`wana-drm`, `wana-kms`), the GPU bring-up tool (`wana-render`,
`wana-gl`) and the graphics boot test. Every model is translated from the source
under `src/`; `PROJECT.json` maps each definition to its lines, and lists the
runs, the fault each property detects, the hazards and the theorems.

## The system

| Part | State | Operations | Interacts with |
|---|---|---|---|
| `wana-init` `main.rs`, `sys.rs` | `shell: Option<Child>`, options, where the thread is | `run_once`, `stop`, `supervise`, `spawn_shell`, `reap_any`, `halt` | the kernel's process table, through fork/exec, `waitpid` and adoption |
| `wana-init` `mounts.rs` | count of failures | `early_mounts`, `apply` | the kernel's mount table |
| `wana-init` `cmdline.rs` | `Options` | `parse` | `/proc/cmdline`, so `/proc` must be mounted |
| `wana-log` | `MAX_LEVEL` | `log`, `set_max_level`, `init_from_env` | the console, shared by all processes |
| `wana-drm` `discover.rs`, `output.rs`, `card.rs` (queries), `connector.rs` | the selected output | `cards`, `find`, `probe`, `resources`, `connector`, `crtc_for` | the kernel's hotplug state, two calls per query |
| `wana-drm` `mode.rs` | none | `select`, `refresh_mhz` | called by `probe` |
| `wana-drm` `card.rs` (display), `sys.rs` | framebuffers, dumb buffers, mappings, the event queue of the card | `add_fb`, `rm_fb`, `set_crtc`, `page_flip`, `read_flip_events`, `parse_events` | one CRTC and its vertical blank |
| `wana-kms` | two buffers, flips, event times | `show`, `flip_test`, `paint` | `card.rs`, `output.rs` |
| `wana-render` `gbm.rs`, `egl.rs`, `gl.rs`, `scene.rs` | objects of four libraries | `new`, `draw`, `swap`, `lock_front`, `release`, `drop` | the GPU |
| `wana-gl` | `shown`, frame number | `run` | everything above |
| `tools/qemu-graphics-test.py` | `pending`, `shot_taken`, the screenshot file | its loop, `monitor`, the verdict | QEMU, the serial port of the guest |
| other `tools/`, `platform/`, `Makefile`, CI | none | | |

What is hard here is not size. PID 1 is one thread, but processes fork, exit, are
orphaned and adopted between any two of its steps, ids are reused, and a `waitpid`
for one child and a `waitpid` for any child run in the same program. `wana-gl`
is sequential too, but the GPU and the display work on its buffers on their own
time. The searches query a kernel whose answers change between calls. All
processes share one console with the kernel. Every part handles errors at every
call, or ignores them, and unit tests reach none of this; the boot tests see one
schedule.

What makes each part correct:

* boot: the report can be trusted, a typo or a failed mount stops nothing, and the
  command line is obeyed to its end;
* supervision: children are reaped, the shell is restarted exactly when it has
  exited, one console process at a time, the status of `wana.run` is not lost;
* log: what the level lets through appears once, whole and greppable;
* output search: a display that is there is found, and the search ends;
* events: each completion is returned once and in order;
* frame loop: GPU and display never share a buffer, frames appear whole and in
  order, the program ends, and every error path cleans up;
* picture: both programs show the same one, on any display with room for it;
* boot test: PASS is earned, and all the guest printed is judged.

## Modules

| Module | What it is | Source |
|---|---|---|
| `Processes` | the kernel's process table (external) | how `wana-init` uses it |
| `WanaInit` | PID 1 from its report on; extends `Processes` | `main.rs`, `sys.rs` |
| `ConsoleService` | abstract: who owns the console | the contract of `run_once`, `stop`, `supervise` together |
| `Boot` | mounts, command line, report | `mounts.rs`, `cmdline.rs`, `main.rs` |
| `System` | composition: `Boot` hands its options to `WanaInit` | `main.rs` |
| `LogConsole` | records of several processes on one console | `wana-log/src/lib.rs` |
| `Discover` | listing the cards while they come and go | `discover.rs` |
| `OutputFind` | the search for an output | `output.rs`, `card.rs`, `discover.rs` |
| `ModeSelect` | the choice of a mode | `mode.rs` |
| `ParseEvents` | the loop of `parse_events`, word by word | `card.rs` |
| `ByteStrings` | `ParseEvents` on byte strings that may be malformed | `card.rs` |
| `EventStream` | `read_flip_events` again and again; extends `ParseEvents` | `card.rs` |
| `EventQueue` | abstract: an exactly-once queue of completions | the contract of `read_flip_events` |
| `TestPattern` | the picture on the CPU and on the GPU path | `wana-kms.rs`, `scene.rs` |
| `DisplayCalls` | the stateless calls above side by side: one call on any input | |
| `Kms` | one CRTC as `Card` drives it | `card.rs` |
| `WanaKms` | `wana-kms`; extends `Kms` | `wana-kms.rs`, `card.rs` |
| `GlObjects` | the objects of `wana-gl`, made and dropped | `wana-gl.rs`, `egl.rs`, `gbm.rs`, `gl.rs` |
| `WanaGl` | `wana-gl`; extends `Kms` and `GlObjects` | `wana-gl.rs`, `egl.rs`, `gbm.rs`, `scene.rs` |
| `Presentation` | abstract: what the viewer sees | the contract of the frame loop |
| `GraphicsTest` | the graphics boot test against its guest | `qemu-graphics-test.py` |
| `Subsequences` | `Among`: the part of a sequence that lies in a set | |
| `SequenceLemmas` | induction in a form that can be cited, and facts about `Among` | |
| `WanaInitProofs`, `OutputFindProofs`, `WanaGlProofs`, `WanaKmsProofs`, `DisplayCallsProofs` | theorems about the module of that name and those it extends or instantiates | |
| `SystemProofs` | theorems about `Boot` and `System` | |
| `LogProofs` | theorems about `LogConsole` and `GraphicsTest` | |
| `MCSerialConsole` | `LogConsole` and `GraphicsTest` side by side for one run: a behaviour is one of either | |
| `MC*` | instances and inputs for TLC | |

Some modules hold, just before a definition, a variant named as a *fault*: the same
operation with a plausible bug. No specification uses them; each one shows that
the property named with it in `PROJECT.json` would notice the bug.

### Boot, WanaInit, System

`Boot` is the loop over `EARLY` against a stack of mounts, in which a mount on
`/dev` hides those below made before; each mount succeeds, is there already, or
fails. With a disk root the kernel has mounted `/dev`. If `/proc` is usable the
command line may be read: a sequence of words, each an option and a value, or
`foreign` (no `wana.` prefix), which `ParseNext` takes one at a time. Records that
a property tells apart are put on the console if the level lets them through,
in the order of the code: the mounts before `wana.log` is known, the warnings of
`parse` after. Splitting lines into words, and `wana.run` at its commas, is left
out.

In `WanaInit` `pc` is where the thread is: `boot`, `run`/`runwait` (`run_once`),
`test` (`stop`), `start` (before the loop of `supervise`), then `wait` (blocked in
`reap_any`) or one of its three sleeps. `shell` is the local of that name; between
`Reap` and `Restart` it is stale, as in the code, where the old `Child` is
replaced only after the sleep. `RunOnceWaited` waits for one process,
`Reap(c)` for any. A spawn fails when no id is free, or, at most `SpawnErrors`
times, for another reason. `Others` are all other processes: they fork, exit and
reap their own children in any order and need not do any of it. Not all descend
from PID 1: the kernel starts helpers of its own (`HelperStarts`, parent
`Kthread`), and what a helper leaves behind when it exits is adopted by PID 1 like
any other orphan.

A process id is free for reuse the moment it is reaped. Linux takes longer, so
this allows more than the kernel does, and is the worst case for the comparison
of ids in `supervise`. `EINTR` is retried inside `reap_any` and changes nothing.
A failing `waitpid` is possible at any time (`ReapError`). The contents of the exit
status and the environment are left out.

So the comment at `main.rs:163`, "orphans may appear later", holds in the model:
while `supervise` sleeps its five seconds for want of children, a helper's orphan may
be adopted and even become a zombie. `IdleDelaysNoRestart` says that the sleep is
harmless all the same: no shell and no program exists then and no handle is held, so
nothing that has to be restarted can be waiting.

`System` runs `Boot` up to its report, then takes `StartService`, where main's
options become those `WanaInit` acts on. Its properties cross the boundary: from a
word on the command line to the process it leads to (`CommandLineObeyed`), from a
failed mount to the report that precedes every process (`ReportComesFirst`), and
from any failure at all to the loop of `supervise` (`BootLeadsToService`).

### LogConsole

A message is the sequence of lines that `split('\n')` makes of it, a formatted
record a sequence of pieces, a prefix and a text for each line. `log` filters,
formats the whole record and writes it with `write_all`: `WriteRest` takes
everything, `WriteShort` only the first pieces, `WriteFails` ends the loop with an
error that `log` drops. Other processes write in between. A level is that of the
process at the time of the call; it comes from `WANA_LOG` or `set_max_level`.

The kernel prints on the same console (`linux.fragment:59-65` quotes a line of it in
the middle of a record of `wana-init`, from a CI run). `kernel` is the set of places
where it did, between two writes (`KernelLine`) or inside one (`Put`). Its own lines are
not in `console`. A piece is a prefix or a text, so a kernel line that falls inside a
text counts as one between the prefix and the text: what stands behind it has lost
its prefix either way.

### Discover, OutputFind, ModeSelect

`Discover` reads the names of a directory in any order while entries come and go;
one that is there throughout is read, others may be. A name is its digits and what
follows. `OutputFind` has `resources` and `connector` as two calls each, with the
counts compared in between; `Hotplug` may happen between any two calls. A card is
a record: whether it opens, has dumb buffers, its connectors, encoders and CRTCs.
`connected` stands for a connection with one mode and `blank` for one without,
since only the count and its being zero matter here. `ListFails` is a directory that
cannot be read. Which mode is taken is
`ModeSelect`, where a mode is its size, its rate and whether it is preferred.

### ParseEvents, EventStream

Bytes are sequences of 32-bit words, since every field `parse_events` looks at is
one and every length the kernel sends is a multiple of one. `OneEvent` is one turn
of the loop; `panic` is what a slice out of range would be. `ByteStrings` feeds it
whole events followed by anything. `EventStream` adds the kernel: flips complete
and other events arrive at any time, a `read` takes as many whole events as fit,
and the caller calls again. It is shown to implement `EventQueue`.

### Kms, WanaKms, WanaGl

`Kms` keeps the framebuffers (`live`, `fbOf`), what is on the screen (`scanout`), a
flip that waits (`pending`) and the events nobody has read. `Vblank` completes a
flip. Framebuffer ids are reused. Removing the framebuffer last set turns
the screen off; one that a waiting flip replaces stays on the screen until then.

`WanaGl` has one action per call of `run`: `SetUp` (one object at a time), then
`Draw`, `Finish`, `Swap`, `LockFront`, `AddFrameFb`, `Modeset` or `Flip` and
`FlipEvent`, `Retire`; after the frames `Teardown`; then `DropObject` until nothing
that `run` owns is left. `GpuDone` and `DisplayVblank` run on their own. `Fail` is
the `?` of every fallible call. A front buffer is a plain handle with no
drop of its own, so after an error the locked buffers go with the GBM surface. An
`Egl` exists only once `Egl::new` returns, so what a failing `Egl::new` made is
never dropped (`HalfMade`). Shaders are deleted after linking but stay attached, so
they live as long as the program and go with the context. `Retire` and `Teardown`
do not look at the answer of `rm_fb`: `TryRmFb` either removes the framebuffer or
leaves it, and `stuck` remembers which were left. The frame time statistics are left
out.

`WanaKms` is `show` and `flip_test`; a failed flip or read ends the flip test and
not the program, and after an interrupted read the flip still waits. The teardown
ignores the answers of `rm_fb` and `destroy_dumb`, each of which may leave what it was
to remove (`keptFbs`, `keptDumb` remember it); `Close` is the drop of `out` when `run`
returns, which closes the card and frees the rest.

### TestPattern

`paint` of `wana-kms` pixel by pixel in `u32`, where a subtraction may wrap around,
and the fragment shader of `scene.rs` on pixel centres counted from the bottom,
with coordinates multiplied by 300 so that its fractions of the height are
integers. The shader's `mediump` floats are taken as exact.

### GraphicsTest

The guest is a program of lines and of changes on its screen; it prints tokens
that the test reads in chunks, which end anywhere, and may hang or power off. The
test splits lines, asks QEMU's monitor for the screenshot when the trigger line has
come, stops at the deadline or when QEMU exits, and judges all output and the
file. A screenshot is right or wrong; converting it is left out. The file remembers
whose run wrote it and how far the guest was then (`at`), so that a property can ask
what the guest had on its screen and had printed at that moment.

## Runs

| Run | Checks | Bounds (distinct states) |
|---|---|---|
| `init` | types, one console process, run status kept, the idle sleep delays no restart, restart iff shell reaped, zombies are reaped; `ConsoleService` is implemented, with its fairness | 3 ids, 1 spawn error (56 thousand) |
| `init_shell` | violated: "keeps the console shell alive" (`main.rs:144`) | 2 ids |
| `system` | the report, the options, the command line from its words to the processes, arrival in `supervise`; `WanaInit` is implemented | all of `EARLY`, 1 refused mount, command lines of 2 words out of 9, 1 id (192 thousand) |
| `serial_console` | records whole, once and in order; only short writes mix records; which lines lose their prefix; all output judged, PASS earned, trigger not missed | 2 processes, 3 records, 1 short write, 1 kernel line, any failing writes; 4 guests, every chunking (382 thousand) |
| `log_single` | violated: "a single `write` call so lines ... do not interleave" (`lib.rs:8`) | 2 records, 1 short write |
| `graphics_stale` | violated: "passes only if the pixels on the virtual screen are right" (`qemu-graphics-test.py:7`) | 4 guests, a screenshot of an earlier run |
| `gl` | tearing, buffers, events, drops, end; `Presentation` is implemented | 5 frames, 3 buffers, 4 framebuffer ids, 1 refused removal (601 thousand) |
| `kms` | painted before shown, alternation, teardown, report, end | 0 to 5 flips, 2 buffers, any refused removals (7 thousand) |
| `output` | stable displays are found, CRTCs fit, the search ends | 2 cards of 4 kinds, 2 connectors, 2 hotplug events (1.7 million) |
| `output_removal` | violated: "Finds the first card ... with a connected display" (`output.rs:17`) | 1 hotplug event |
| `display_calls` | cards listed, documented mode, pictures agree, whole events returned | see below (2.5 million) |
| `event_stream` | `EventQueue` is implemented, with its fairness | 4 flips, 2 other events, a buffer of 24 words (14 thousand) |

`display_calls` holds four calls that keep no state behind, so that a behaviour is
one of them on one input: `select` on every list of up to 4 of 12 modes;
`cards_in` on every directory of cards 1, 2 and 10 with a connector each, with one
change during the call; `parse_events` on up to 3 events followed by one of 17
tails; `paint` and the shader on 13 sizes (landscape, portrait, square, odd,
smaller than the border, at the edges of the probes) with three positions of the
bar.

Why the bounds are enough. In `WanaInit` ids are interchangeable and init holds at
most one; every property speaks of one or two processes, and three ids allow an
orphan with a sibling and one id to reuse. In `System` two words reach every
ordered pair of values for the same option, and `parse` treats one word at a time;
one refused mount is enough to be degraded, and each of the seven is refused in
turn; its one id is what a shell, a program and a helper of the kernel compete for
(a helper that holds it makes spawns fail), while what needs several processes at
once is in `init`, and in the proofs for any number. In `LogConsole` records are at
`info`, which `error` filters and the default lets through. One kernel line can fall
between and inside writes; the bounds on `Headless` and `Glued` count, and the proof
lifts the count. Two processes and three records reach every way in which one record can be
inside another and a third can follow a torn one. The frame loop repeats
its state after two frames up to renaming and the frame number; five pass through
the cycle twice, with one framebuffer left behind on the way, for which there is a
fourth id. The flip test depends on the number of flips only at 0, 1
and 2. One hotplug event reaches each retry and a second one can hit the retry
itself. A buffer of 24 words is filled to its end and past it by three events. Most
of these bounds are lifted by the proofs below.

### Fairness

* `WanaInit`, `System`: weak fairness of PID 1's steps (the scheduler runs it when it
  can move), and strong fairness of reaping each child: `waitpid(-1)` walks the list
  of children from its front, in the order of their creation or adoption, so a zombie
  is passed over only by those before it. Strong, because a failing `waitpid` and
  restarts disable the step again and again. Nothing is assumed of
  other processes; a shell may run for ever, and so may the program of `wana.run`,
  which is why `BootLeadsToService` allows for `runwait` for ever.
* `OutputFind`: one thread that does not block. Nothing is assumed of errors.
* `WanaGl`, `WanaKms`: the program runs, the GPU finishes its work and the display
  refreshes. No failure is assumed, so no signal helps out a blocked read.
* `EventStream`: a caller that calls again; a `read` of an empty queue blocks, and
  nothing forces another event to arrive.

### Disagreements found

With a run that shows them:

1. `init_shell`: after one failed spawn `shell` is `None`, equals no reaped id, and
   the shell is never started again. `ConsoleService` allows for this (owner
   `nobody`), so that the rest can be checked.
2. `output_removal`: a connector removed between `resources` and `connector` makes
   `probe` give up the card with all its other displays.
3. `log_single`: `write_all` writes again what a short write left over, so a record of
   another process can stand between the prefix and the text of a line.
   `OnlyShortWritesMix` says that nothing else lets one process into the record of
   another, `EveryLineGreppable` what that and the kernel's lines cost, and
   `RecordsFaithful` that nothing is lost by it.
4. `graphics_stale`: the monitor's answer is not looked at, and the file of an earlier run
   counts when no new one was written. `PassIsEarned` speaks of the files this run
   wrote.

Met while modelling and stated as they are, by a property that holds:

* `gbm.rs:119` says "EGL surface dropped first". If `eglMakeCurrent` fails
  (`egl.rs:60`), no `Egl` exists whose drop would destroy the surface it was made for, and
  the GBM surface and device are destroyed under it. `DropsClean` says that this is
  all that can be left, and only then (`HalfMade`);
* `wana-kms.rs:174` warns "no events received" when there is no interval; with
  `--frames 1` one event was received. `MeasuredAllFlips` says that the warning is
  only ever given then;
* `scene.rs:4` says "the same screenshot pixel checks apply to both paths". On a display
  more than three times as high as it is wide `paint` wraps around in `u32`
  (`wana-kms.rs:81`) and draws no square, while the shader draws one as wide as the
  screen. `SquareLost`, a part of `PicturesAgree`, says so of all such displays.

Described here only:

* the debug records of the early mounts are filtered before `wana.log` is known
  (`main.rs:39`, `48`), so `wana.log=debug` never shows them;
* a trigger line that arrives after the last poll is in the log and still reported
  as one that never appeared (`qemu-graphics-test.py:183`).

## Proofs

TLC checks the instances above; the proof system shows the following for all values
of the constants, from the named assumptions of the modules only. Every invariant
was checked by TLC before it was proved. All the safety invariants and action
properties of the runs that pass are proved; what is left to TLC is listed at the
end of this section.

**`SequenceLemmas`.** The library's induction theorems speak of an operator and
cannot be instantiated here. A theorem about a *set* can be cited, so induction is
proved once more in that form from the library's well-foundedness of the naturals:
`LeastNatural`, `SetInduction`, `SeqInduction`, and `Iterated`, that a definition by
recursion over `0 .. n` has a solution. From them comes what `Among` (module
`Subsequences`) computes: its step (`AmongAppend`), concatenation, range, order.
`Among` is `SelectSeq` with a set for the test; the proof system knows no
definition of `SelectSeq`. `IndexInjective` and `WrittenJoins` below are
inductions of the same kind.

**`WanaInitProofs`** (any set of ids, any number of spawn errors):
`TypeCorrect`, `ConsoleExclusive`, `RunStatusSafe`, `IdleHarmless`, the action property
`RestartExact`, and `ConsoleRefinement`, the safety part of the refinement that
`init` checks. The invariants are not inductive alone. `IInv` adds to them:

* `HandleIsShell`: in the loop, except between reap and restart, a handle names a
  child of PID 1 that is the shell; its id was not reused because only the
  loop can free it;
* `ShellIsHandled`, `ProgramIsAwaited`: conversely every shell and program in the
  table is the one a handle names; without these `OneConsoleProcess` could not
  be kept when another one is spawned;
* `CleanTable`: a free id is not running, nobody's child and has no role, whoever
  forks, exits or is adopted (`ForkClean`, `ExitClean`, `ReleaseClean`). With the two
  above it gives `IdleDelaysNoRestart`: without children of PID 1 no handle names
  anything, and while it sleeps nothing but helpers and orphans can appear.

**`SystemProofs`** has `Boot` first (command lines of any length over any words, any
number of refused mounts): `BootTypes`, `ReadyTruthful`, `NothingUnreported`,
`GoodBootLeavesTrace`, `OptionsCorrect`. The invariant follows the three loops.
`MountsSoFar`: each mount behind `next` is usable or its failure is on the console
(`UsableKept`: a later mount hides it only if it is above it, and `EARLY` has none
such). `WordsSoFar`: each option is that of the last usable word before `word`, and
the warnings count the others; it is stated as a relation, not with the `CHOOSE` of
`LastUsable`, and the two meet when the loop ends. `Reports` and `Levels`: which
records are on the console, given the level at the time.

Then every step of `System` is one of `Boot` (`IsBoot`) and one of `WanaInit`
(`ServiceRefinement`), so that what is proved of either holds of the whole.
`CommandLineFollowed` and `ReportFirst` join the two. Their invariant: before the
report there is no process of init's, only helpers and their children; after it the options are those that were
parsed; and each process with a role, each handle, each pending restart and a stop
are due to the option that asks for it (`Wanted`). With `OptionsCorrect` this reaches
back to the words.

**`OutputFindProofs`** (any finite set of cards, any connectors, any number of hotplug
events): `StableDisplay` and `Drivability`. The invariant follows a display that is
usable during the whole search. `StillUsable`: it is usable now. `CardsPassed`: a card
that was left behind (`ci` moved on) has no such display or refused a call.
`ConnectorsLeft`: on the card at hand its connector is at `ki` or behind it in `res`,
which keeps the kernel's order (`AmongOrder`), and if it is the one just read the
answer was "connected". `InOrder` says that the cards are tried by number, which is
what "the first" means. `Drivability` rests on `HardwareAssumption` alone: a connector
is driven by one of its own encoders, and that by a CRTC it can use.

**`LogProofs`** (any number of processes, records, lines, short and failed writes):
`Faithful`, `Tears`, `GreppableLines`. `Writes` splits the record that is being written
into what is shown and what is left, `Accounted` does it for every record that was
ever let through, `InOrder` keeps each process's records apart. `FewTorn` counts a
record at the end of the console as broken off too, so that the count is inductive: a
short write adds one place, its own end, and what is written behind an end that was
not broken off breaks nothing. `FewLoose` does the same for texts without their prefix:
it counts the writers that still owe a text (`Owing`) with the texts that already stand
loose, so that a short write pays when it is made and the rest of it costs nothing more.
`PutStep` is one write at the end of the console, `PutKernel` adds the places at which
the kernel prints inside it.

The second half is `GraphicsTest`, for any guest program, any expected lines and any
way the output is cut into reads: `EverythingJudged`, `EarnedPass`, `TriggerFound`.
`Reading` says that what was read and what is in the pipe are what was printed;
`Searching`, that `pending` is the end of the text behind its last newline, and that
a trigger line among the complete ones was found or is still in `todo`. `Pictures`: the file of this run
was taken at a point of the guest's program where the trigger was printed, and if it is
right, the guest's own frame was on the screen then. The step
that matters is one read: `BehindLines` shows that splitting `pending` and the
chunk gives exactly the lines that splitting all the text would add.

**`DisplayCallsProofs`** (four calls on any input):

* `ChoosesAsDocumented`: mode lists of any length. `LastMaxSmaller` and `LastMaxSlower`
  are what `max_by_key` guarantees, `SizeIs` that the preferred mode or the largest
  gives the size, `SelectDocumented` joins them.
* `ListsAll`: any cards and connectors, any changes during the call. `Listing` says
  that the names read are entries without repetition, what stayed among them once
  `ReadDone` is taken; `CardsRead`, that each `CardInfo` is that of its name; `Result`,
  what `sort_by_key` leaves. That the indices are strictly ascending needs that two
  numbers never have the same index: `IndexInjective`, for any number of digits
  without a leading zero (the assumption on `Cards`).
* `ReturnsWholeEvents`: any number of events of any length, followed by any tail
  in which no whole completion begins (`TailsAssumption`: a tail may hold other
  whole events, be cut off anywhere, or have any length field). `Between(k)`: the first `k` events are
  taken and their completions returned, and the others follow; `Quiet`: in the
  tail nothing more is found. `WrittenJoins` unfolds the byte string an event at a time.
* `SameBorders`, `SameSquares`, `SamePictureWhereItFits`: modes of any size, those where
  `u32` wraps included. `PaintInv` is the row under the cursor; `LostHolds` shows that on
  a mode narrower than the square the painted one is off the display; the probes are
  pixels of which `ProbesHold` shows the colour on both paths, on the modes named
  in `ProbesRight`.

**`WanaGlProofs`** (any number of frames, buffers and framebuffer ids):
`BuffersNeverShared`, `TwoAreEnough`, `EventsMatch`, `TypeCorrect`, and `ShownInOrder`:
every behaviour of `wana-gl` is one of `Presentation`. The invariant is the picture
of the loop at frame `n`: the pair of frame `n - 1` is on the screen (`ShownInv`), the
pair of frame `n` is another one (`CurInv`), the locked buffers and the live
framebuffers are those of these two pairs and, besides, the `stuck` ones (`OwnInv`), the display either waits for
the flip or has completed it with this frame's event (`ScreenInv`), and the buffer
drawn into is locked by nobody (`DrawnInv`). `EndInv` says what an error leaves to the
display. The refinement follows from the value of `Screen` before and after each
step.

`CleanDrops` is `DropsClean` for a failure at any point. Its invariant `ObjInv` says what
is alive: during the setup what the steps so far have made (`SetupObjects`), in the
loop everything (`LoopObjects`), and at the end (`EndObjects`), once `Egl::new` has
returned, a set that holds with each object what it was made from; if it failed, what
it had made and a part of what it was made from, which ends empty (`HalfInv`).
A drop keeps that set closed because the drop order reverses the dependencies.

**`WanaKmsProofs`** (any number of flips): `OnlyPatternShown`, `LeavesNothing`,
`MeasuredRight`, `TypeCorrect` and the action property `AlternatingFlips`. The invariant
says that `bufs` holds exactly the live framebuffers and the handles, except for those
whose removal was refused, without repetition (`Owned`, `Distinct`), that each is painted (`Ready`), and that flip `n` is
on the screen or waits, as the parity of `n` says (`Flipped`). `Attached` says that
what is on the screen or waits for it is live, also after a failed flip test, whose last
flip may complete during the teardown; so what the teardown could not remove is all
the screen can show when `show` returns.

Assumptions. `DisplayCalls`: `ListsAssumption` (sizes and rates are counts),
`CardsAssumption` (the kernel writes card numbers without leading zeros),
`LengthsAssumption` (an event has a whole header, a completion all its fields),
`TailsAssumption` (above), `ConnectorsAssumption`, `DisplayAssumption`. `OutputFind`: the
hardware assumption above. The others are types of the constants and bounds greater
than zero.

Only model-checked:

* liveness (`ZombiesReaped`, `BootLeadsToService`, `SearchEnds`, `Ends`) and the
  fairness parts of `ImplementsConsole`, `ImplementsWanaInit` and `ImplementsQueue`,
  since the proof system does not handle fairness;
* the safety part of `ImplementsQueue`.

## Not modelled

* `ffi.rs`, the struct layouts and ioctl numbers of `wana-drm/src/sys.rs`:
  declarations, tested against the C headers. `drm_ioctl` retries on `EINTR` and
  `EAGAIN`, which changes no state; `Mapping` is the set `mapped` of `WanaKms`.
* `refresh_mhz`: 64-bit arithmetic, beyond TLC's integers; a mode's rate is an input.
* The multiplication of a row and the pitch in `paint`: a buffer large enough to
  overflow it is refused by the kernel.
* The text of log records, shaders as text, timing statistics, PPM and PNG files.
* `qemu-boot-test.sh` runs QEMU under `timeout(1)` and greps the whole log
  afterwards; the manifest tools are two functions over JSON files.
* `platform/`, `Makefile`, CI: configuration.

## Plan

What is left:

1. the safety part of `ImplementsQueue`: each read returns what `EventQueue` returns,
   for any buffer. It needs what `FirstEvents` (as many whole events as fit) takes, by
   induction as in `ReturnsWholeEvents`, and that of lemma `Between`.
2. Type correctness of the modules whose invariants include it only as a part
   (`OutputFind`, `LogConsole`), stated as theorems of its own if a run checks it.
