# VM Go: models and proofs

VM Go runs an Android system image as a guest inside an ordinary Android app.
The host app forks a guest process, traps some of the guest's system calls with
a seccomp filter and redirects the paths in them, feeds the guest sensor, GPS and
input events through UNIX sockets, and unpacks the system images it is given.
This directory holds TLA+ models of the parts of that program whose behaviour
depends on the order of events, the TLC runs that check them, and proofs that
some of the invariants hold for every size of the system. Paths below are
relative to `src/app/src/main/`; `cpp/` and `java/` stand for the native and the
Kotlin sources.

## 1. Inventory

| component (source) | state | operations | interacts with |
|---|---|---|---|
| GuestBootstrapper (`cpp/core/guest_bootstrapper.*`) | `guestPid_`, `running_` (plain members) | `launch`, `kill`, `isAlive`, a detached monitor thread and a log reader per launch | VmDisplayActivity through JNI; forks the guest; SeccompTrap and ElfLoader in the child |
| VmDisplayActivity and the JNI bridge (`java/.../ui/VmDisplayActivity.kt`, `cpp/jni/native_bridge.cpp`, `NativeVmEngine.kt`) | `isVmInitialized` and a coroutine scope per activity; every native singleton is shared by all activities | `onCreate`, the surface callbacks, the boot coroutine, `onDestroy` | everything native |
| QemuPipeServer (`cpp/hal/qemu_pipe_server.*`) | `isRunning_`, `serverFd_`, three lists of client descriptors under `clientsMutex_` | `start`, `stop`, server thread, thread per connection, `sendSensorUpdate`, `sendGpsLocation` | guests over a UNIX socket; HalBridgeService on the main thread |
| HalBridgeService (`java/.../service/HalBridgeService.kt`) | listener registrations | sensor and location callbacks | QemuPipeServer |
| SeccompTrap (`cpp/core/seccomp_trap.*`) | the filter, `rootfsDfd_`, the stack of handler frames | `installFilter`, `sigsysHandler` | VfsRouter, UserKernel, VirtualBinder, ElfLoader, NativeLogger, all inside a signal handler |
| VfsRouter (`cpp/core/vfs_router.*`) | `config_`, `mountTable_`, `virtualDevTable_`, `initialized_` under `mutex_` | `initialize`, `resolvePath`, `addMountRule`, `reset` | JNI bridge, SeccompTrap |
| InputDispatcher and the touch listener (`cpp/input/input_dispatcher.*`, VmDisplayActivity) | `inputFd_`, `initialized_` under `inputMutex_`; posted key-ups | `initialize`, `shutdown`, `sendTouchEvent`, `sendKeyEvent` | the guest's input device over a datagram socket |
| UserKernel (`cpp/core/user_kernel.*`) | a property table | `mount`, `umount`, `chroot`, `pivot_root`, `mknodat` answered for the guest | SeccompTrap |
| VirtualBinder (`cpp/core/virtual_binder.*`) | table of binder descriptors and their mappings, context manager | register, unregister, `ioctl`, `mmap` | SeccompTrap |
| ElfLoader, loader_main (`cpp/core/elf_loader.*`, `loader_main.cpp`) | mappings, the new stack | `execute` | SeccompTrap |
| EglRenderer (`cpp/graphics/egl_renderer.*`) | EGL display, surface and context, `initialized_` | `initialize`, `destroy`, `renderFrame` | surface callbacks |
| SparseParser (`cpp/storage/sparse_parser.*`) | input and output position | `isSparseImage`, `unsparse` | GsiImportService |
| Ext4Extractor (`cpp/storage/ext4_extractor.*`) | counters | walk over inodes, extents and directories | GsiImportService |
| GsiImportService, MainActivity (`java/.../service/GsiImportService.kt`, `java/.../ui/MainActivity.kt`) | two temporary files, the slots' directories; the screen's service, target slot and button | `importGsi`, the picker and its result, the start buttons | SparseParser, Ext4Extractor, ApexExtractor, OverlayManager |
| AppLogger, NativeLogger, AppCrashHandler | one log file written by two sides | log, rotate, clear | everybody |
| InitSequencer, CrashHandler, ApexExtractor, OverlayManager, StorageUtil, LogsActivity, ConfigActivity, VmGoApp | none that outlives a call, or no caller | | |

What is hard in this code, and what makes each part correct:

- **Guest life.** Two unsynchronised members are read and written by the main
  thread, by threads of `Dispatchers.IO` and by one monitor thread per launch.
  Correct means: a guest that runs is on record, so that it can be found and
  killed; the record of a guest that is gone is cleared; one guest at a time; a
  stop leaves none.
- **QEMU pipe.** Threads hold descriptor *numbers*; `stop()` closes numbers that
  detached threads still use, the kernel hands them out again, and a restart may
  come before the old threads have noticed. A `send` may block with the mutex
  held. Correct means: a list never names a connection whose thread has left, an
  update reaches only those who asked for it, `stop()` returns and leaves no
  server behind, the thread of a lost guest ends.
- **Trapped calls.** The handler runs in signal context, issues system calls that
  pass the same filter, takes a mutex and logs. Correct means: a handler is not
  trapped again, or only where that cannot be avoided; the mutex is held by one
  frame; a trapped call returns.
- **Input.** A touch event is several datagrams, each of which may be lost, and
  the guest keeps slot state that no later event repairs. Correct means: when the
  last finger is gone nothing stays pressed, the guest sees one contact for each
  finger, and keys come up.
- **Import.** All imports use the same two temporary names, any stage may fail, be
  cancelled with the service or cut off with the process, and the next import
  finds what is left. Correct means: a reported success put the import's own image
  into its own slot, nothing temporary stays, the screen gets its answer.
- **Engine.** All activities share one renderer, one router, one dispatcher and
  one pipe server, and the framework may create a new activity before it destroys
  the old one. Correct means: an activity that is alone has an engine of its own,
  with its own slot's configuration also in the thread that launches the guest;
  nothing outlives the last one; no surface outlives its window.
- **Paths.** `resolvePath` looks at the file system twice, while files come and
  go, and its answers are asked for again. Correct means: every answer is right at
  one moment of the call, and an answer is its own answer.
- **Images.** Sequential code over structured data that may be damaged, on a disk
  that may fill up and a file system that may refuse a call: the raw image that `unsparse` writes must be the one the
  chunks mean; the tree that the extraction creates must be the image's, every
  block in its place, and the walk must end although directories contain one
  another.
- **Loading.** `execute` maps an image into a running process with `MAP_FIXED`.
  Correct means: every word of both images is where the headers say, nothing that
  belongs to others is replaced, and the program finds the stack the ABI describes.

`PROJECT.json` lists the hazards at the lines where they bite, with the properties
that cover them. Six more are known and no property is about them, because no text
of the repository says what should happen: a child forked while another thread
logs blocks in its first log line (`guest_bootstrapper.cpp:258`, a state of
GuestLifecycle); "ok" is sent before a connection is listed
(`qemu_pipe_server.cpp:116`; both are the step `Register` of QemuPipe, which leaves
out the moment in between); `pc += 4`
(`seccomp_trap.cpp:584`) skips an instruction where the kernel has already moved
past the trapped one (instructions are not modelled); `sendto` may block the UI
thread (`input_dispatcher.cpp:111`, a state of TouchBridge); the result of the
extraction is dropped (`GsiImportService.kt:102`, `Extract` of GsiImport); `O_CREAT` of a
file that only the phone has goes to the phone's file (`vfs_router.cpp:115`).

## 2. Modules

| module | what it is |
|---|---|
| `GuestLifecycle` | GuestBootstrapper as VmDisplayActivity drives it, one step per access to the shared members |
| `GuestProofs` | theorems about it and about `ElfLoader` |
| `QemuPipe` | QemuPipeServer, its threads, the kernel's descriptor table and the guests |
| `QemuPipeProofs` | theorems about it |
| `SeccompTrap` | the filter and the SIGSYS handler as a stack of frames per thread |
| `SeccompTrapProofs` | theorems about it |
| `TouchBridge` | touch listener, navigation buttons, InputDispatcher, and the guest's evdev state |
| `TouchBridgeProofs` | theorems about it |
| `GsiImport` | the import of a system image: MainActivity, the life of its service, `importGsi` stage by stage over files that keep their identity |
| `ImportProofs` | theorems about it and about `Ext4Extractor` |
| `SparseImage` | `unsparse` against the raw image a sparse image stands for |
| `SparseImageProofs` | theorems about it |
| `Ext4Blocks` | how the data of one file of an ext4 image is found, and what the format means it to be |
| `Ext4Extractor` | the walk over the directories of an image; uses `Ext4Blocks` |
| `EngineLifecycle` | the native singletons under the callbacks of two activities and their boot coroutines |
| `EngineLifecycleProofs` | theorems about it |
| `PathRouter` | the abstract router: one answer at one moment |
| `VfsRouter` | `resolvePath` with its mutex, its table and its two looks; implements `PathRouter` |
| `VfsRouterProofs` | theorems about it, and that it implements `PathRouter` |
| `ElfLoader` | `execute`: mappings page by page, the initial stack word by word |
| `MC...` | instances for TLC: symmetry sets, sets of calls, images, paths and programs |

### GuestLifecycle

`guestPid` and `running` are the two members. An activity launches at most once,
so a child process is named by its activity. `launch[a]`, `monitor[a]` and `main`
say where the three kinds of threads stand; `pending[a]`, `clearing[a]` and
`killPending` hold the accesses to the members still to be done where two accesses
follow each other without a call in between: nothing orders them, so they are
performed in either order. The actions follow the code from top to bottom:
`CheckRunning` (the test on line 170), `Prepare`, `Fork`, `Publish`,
`SpawnMonitor` for `launch()`; `MonitorStart` (the read of `guestPid_` as an
argument, line 399), `MonitorWake`, `MonitorClear` for the monitor; `KillCheck`,
`KillSignal`, `KillReap`, `KillClear` for `kill()`, whose three reads of
`guestPid_` are three steps. `SurfaceCreated`, `OnDestroy`, `DispatchLaunch`,
`LaunchGuest` and `StopVm` are the activity's side. `waitpid(-1)` and `kill(-1)`
mean what they mean to the kernel: any child, every process.

A child that is forked while another thread holds the mutex of NativeLogger
blocks in its first log line; such a child is `"stuck"`. Pids are not reused. The
environment, the `/dev` nodes and the log reader share no state with the rest and
are left out, as is `isAlive()`, which only reads.

### QemuPipe

A descriptor is an element of `Fds`, `fdTable` says which socket it means, and a
system call that waits keeps the socket it started on (`acceptOn`, `ref`,
`blockedOn`) even if the number is closed meanwhile. `Start`, `StopBegin` ..
`StopCloseClients` and `SendBegin` .. `SendEnd` are the main thread,
`ServerCheck` .. `ServerAcceptError` the server thread, `HelloEnterRecv` ..
`CloseClient` the thread of a connection, `Connect` .. `GuestCloses` the guest.
`entries` is the three client lists in one, each entry with the thread that pushed
it, which the code does not record and the properties need. Critical sections of
`clientsMutex_` that cannot block are one step; the send loop, which can, is not.
Descriptors of the rest of the app, and the copies of the sockets a forked guest
inherits, are left out.

### SeccompTrap

A frame is a trapped call and the place in `sigsysHandler` where it stands.
`Traps` is the filter: `openat`, `faccessat` and `newfstatat` pass when their
directory argument is the bypass token, everything else the filter knows is
trapped. `First`, `CallAt` and `After` are the handler's program: where the
switch leads, which system call a place issues, where it may go on afterwards.
`Issue` pushes a frame when the call is trapped (`SA_NODEFER`) and otherwise goes
on; `Return` pops one. A path is reduced to what becomes of it (`relative`,
`empty`, `plain`, `below` a mount point, `null`); only a relative one is reissued with
the token, an empty one is not and is trapped again. The process dies when a thread needs more
than `MaxFrames` frames. Left out: the arm variant of the handler, the mutex of
the logger (the frame that holds it does not return from `fopen`, so nobody gets
past it either way), and the descriptors VirtualBinder knows: whether an `ioctl` is
on one of them, and so answered instead of reissued, is left open.

### TouchBridge

`Frame` is `sendTouchEvent`: a slot and a tracking id for every pointer of the
event, the button, a sync. The UI thread writes `out` event by event
(`WriteEvent`): an event is lost when no guest has bound the socket, waits when
the socket is full, and is queued otherwise. `slot`, `tracking` and `pressed` are
what a guest's input device makes of it. `cut`, `seen`, `last` and `most` are
history variables for the properties: what was lost, and what the guest was there
for. Positions, sizes and pressures travel with the tracking id and are left out.

### GsiImport

A file is `<<import, "temp" or "raw">>`, named for who created it; `temp`, `raw`
and `kept[s]` say which file the names `temp_imported_gsi.img`,
`system_raw_temp.img` and a slot's `system.raw.img` lead to. Opening a name for
writing truncates the file it leads to, and whoever holds that file (`in`, `file`)
goes on with it when the name is renamed or deleted. `data` says of every part of
a file whose image it comes from. `pc[i]` follows `importGsi` from top to bottom:
`Prepare`, `Open`, `Copy`, `Check`, `Rename` or `Convert`, `Unsparse` and
`Discard`, then `Extract`, `Keep`, `Overlay`, `Succeed`; `OpenFails`,
`ConvertFails`, `UnsparseFails`, `Throws`, `Refuse` are its ways out. The two
`renameTo` and the `delete` may return false, which the code ignores (`Stays`):
`unmoved` says whose file stayed where it was, and an import is `Stuck` when that was
its own image on the way to the slot. A coroutine
notices that it is cancelled only where it switches to the main thread
(`Switches`), so `Cancelled` and `Stage` stand there. `OnCreate` ..
`HandleGsiSelected` are the screen; the picker is an activity of its own and
survives it. `ServiceOnDestroy` cancels the imports after the screen has unbound;
`ProcessDies` ends everything and leaves the files. `alone`, `broken` and `lost`
are history variables: which imports had the service to themselves, whether one
was cut short, whether an image was chosen before the service was there.

The calls that read a temporary file by name (`isSparseImage`, the extraction)
do so in one step. Left out: the creation of slots, the start of a VM, the log and configuration
screens, the contents of what is extracted. There is one screen at a time.

### SparseImage

The input is a row of units: the file header, then each chunk's header and data; a
unit of data is what a block of the raw image is made of, and a block is known by
the unit it came from. `chunks` and `total` are what the input means, `length` how
much of it is there. `ReadChunk` is the head of the loop, the other actions are the
cases of the switch, one block at a time; `pos` and `end` are the positions of the
two files. `DiskFills` makes every later write fail, which the code does not look
at. Once a chunk header is read where there is none (after the data of an unknown
chunk, which is not passed over), it may be anything (`astray`). Not modelled: the
version in the header, which `sparse_parser.h:22` says is to be checked and no
code reads.

### Ext4Blocks and Ext4Extractor

A file of `Ext4Blocks` has its blocks listed by an extent tree, by the pointers of
its inode, or is inline. `Extents`, `BlocksOf` and `Data` are the code: blocks are
taken extent after extent, in the order of the tree, and put one behind the other.
`Meaning` is the format: every extent says which blocks of the file it is for. The
two agree up to the first hole or unreadable block, which is what
`FilesAreFaithful` says.

`Ext4Extractor` keeps the recursion of `extractDirectory` as a stack of frames, one
step per entry. An image is any assignment of kinds, entries and damage to the
inodes; a directory may contain itself. `out` is what was created, `refused` what
the file system did not let be created (`Deny`): any `mkdir`, `symlink` or `open` may
be refused, for want of room, by what an earlier import left there, or because of the
name, and a `symlink` whose target is empty without the zeros at its end always is.
`WriteIsCut` is a disk that fills up behind an `open`. `count` are the counters of
the last log line. They belong to the process: `AnotherExtraction` is a second import
that zeroes them and counts with them, after which (`shared`) they are not followed.
A path is made of the places of the entries that lead to it. Names are left out, so two
entries of one name are two paths, as they are two counts in the code; that the
second of them then stands where the first one did is not modelled. Owners, modes and
times are left out.

### EngineLifecycle

Each variable of the engine is the member of the same name, or says what the member
tells: `qemu` is the slot whose path the pipe server serves, `config` the slot
`VfsRouter::config_` was assigned for. Callbacks run on the UI thread, one at a
time, in every order the framework allows, `surfaceDestroyed` after `onDestroy`
included. An activity whose intent has no configuration (`slot[a] = None`) finishes
without asking for surfaces, and HalBridgeService may fail to start, which is
logged; `stopService` in `onDestroy` is taken not to throw. `SurfaceCreated` begins the assignment of `config_` and `NativeInit`
completes it, so that the launch thread, which reads `config_` twice without a
lock (`LaunchReads`, `LaunchForks`), may see it torn. `guest` is
`running_ && guestPid_ > 0`: a launch that finds it (`LaunchFinds`) returns true
without reading anything. A launch goes on when its activity is destroyed, and its
guest may outlive the activity (`Outlived`); `GuestExits` is a monitor that clears
the members, its guest gone or an older one. Every part of the engine may
fail to start. The EGL display is counted by reference on Android, so the
`eglTerminate` of one initialization does not take an EGL surface that a broken-off
one has left; `halfMade` are the windows this has happened to. What a launched
guest does is the subject of GuestLifecycle, what connections do that of QemuPipe.

### PathRouter and VfsRouter

A path is the sequence of names its slashes separate. `PathRouter` is the promise:
between `Ask` and `Reply` files may change, and `Reply` gives, at once, the answer
of the *most specific* mount for the files there are. `VfsRouter` is the code: the
first match in a table, a mutex, and `access` on the sandbox and on the phone as
two steps (`LookInSandbox`, `LookOnHost`). It implements `PathRouter` under the
mapping that a call which has looked into the sandbox in vain counts as answered,
since the phone's own files do not change. `AnswersOfOneMoment` is that refinement.
The configuration is the one `loader_main` gives every guest.

### ElfLoader

Memory is counted in words, `PageSize` of them to a page; `map` says who mapped a
page and with which protection, `data` where a word came from. `Reserve` and
`ReserveInterp` are the two reservations, `MapSegment` the body of the two loops
(map, read, clear, protect), `BuildStack` everything from the allocation of the
stack to the jump. `OtherThread` maps and unmaps pages while a program is loaded.
A string on the stack is one word with an address counted from the top; the
entries of the auxiliary vector that are the same for every program are left out,
an even number of words. The places of a program and its interpreter are pages the
kernel finds free; what the format demands of a file and `execute` does not test is in
`IsImage` (no segment has more in the file than in memory), what page-aligned programs
are like besides is in `Usual`, the hypothesis of the properties about the memory.

## 3. Runs

| run | instance | shows |
|---|---|---|
| `guest` | 2 activities, fairness | the record of a guest is always in somebody's charge (`PublishedPidHasOwnMonitor`, `RunningHasClearer`), a sole guest is on record (`SoleGuestIsRegistered`), a dead one is forgotten (`DeadGuestIsForgotten`, `RunningIsReset`), a stop reaps a sole guest (`StopReapsSoleGuest`) |
| `qemu_safety` | 2 connections, 2 sessions, 3 descriptors | `EntryHasOwner`, `StoppedServerIsQuiet` in every session; `OwnDescriptors`, `UpdatesReachSubscribers` in the first |
| `qemu_liveness` | 1 connection, 2 sessions, 2 descriptors, fairness | `FirstStopReturns`, `LostClientIsReleased` |
| `trap` | 2 threads, every call, 3 frames, fairness | `ResolveIsExclusive`, `RecursionHasCause`, `SimpleCallReturns` |
| `touch` | 3 fingers, 2 keys | the first slot and BTN_TOUCH are released (`LastLiftReleases`), one contact for each finger at an event with as many fingers as any (`ContactsAreFingers`), `KeysComeUp` |
| `gsi` | 2 imports, one sparse, 1 slot, 2 parts, one move or deletion that fails, fairness | an import that runs alone installs its own image whatever was left behind, unless its own move was refused (`AloneIsFaithful`); the button, the copy, the answer (`DisabledHasImport`, `CopyIsRemoved`, `StartedIsAnswered`), also with both at once |
| `sparse` | every image of up to 2 chunks of up to 2 blocks, cut anywhere, fairness | blocks passed are right (`BlocksInPlace`), an intact image becomes whole and only the last chunk may be cut unnoticed (`SuccessIsWhole`), `Returns` |
| `ext4` | every image of 3 inodes, 2 entries a directory; one file of 3 blocks in every layout | what is created is the image's and the rest was refused (`TreeIsFaithful`), so are the files (`FilesAreFaithful`), the counters tell what is missing unless another extraction used them (`CountersTellTheTree`), the walk ends (`WalkGoesOn`) |
| `engine` | 2 activities, 2 slots, 2 surfaces each | a lone activity has an engine of its own but for what did not start (`AloneHasEngine`), the last `onDestroy` leaves nothing but a guest that outlives it (`NothingIsLeft`), `SurfacesHaveOwner`, a lone activity's launch is for its own slot or found such a guest (`ReportedLaunchIsOwn`) |
| `vfs` | 2 threads, 37 paths, 2 files that come and go | `AnswersOfOneMoment` (VfsRouter implements PathRouter), `AnswersStay` |
| `elf` | every layout of 2 segments in pages of 2 words, 3 interpreters, up to 3 arguments and 2 environment variables | `SegmentsAreInPlace`, `OthersKeepTheirs`, `StackReadsBack` |
| `elf_stack` | the same | `StackIsAligned` fails |

Bounds. Two activities are enough for a monitor of one launch to meet the launch
and the stop of another; the safety properties are proved for any number. Two
sessions let a thread of the first survive into the second; three descriptors
give the listener and two connections one each, so that a closed number is reused
by either kind of socket. Three frames let a nested handler be interrupted
itself. Three fingers are the least for which those that stay when one is lifted
change their index. A capacity of one datagram makes every write a step at which
the guest may come, read or go. `MaxPosted` is one posted key-up per key, so a second
click on the same button within 50 ms is not explored. Two imports are one that
leaves something behind and one that finds it, or two that meet; one slot is enough
for the properties of `gsi`, because imports share only the temporary files; the first of two parts shows a file that is only
half written, and one failed move or deletion (`MaxUnmoved`) is enough to leave either
file behind for the next import. Two chunks let the early end of one be followed by the header of
another, and the same properties hold with three chunks, which takes longer. Three
inodes are a root, a directory below it that may lead back, and a leaf; with two
levels (`MaxDirDepth` is 2 for 20) the walk meets a directory again and is stopped
by the depth. Two surfaces per activity let one be replaced; with two activities
every order of three overlapping lives is a repetition of one of two. Two threads
let one wait for the router's mutex while another looks. Pages of two words and
segments of up to three let two segments end and begin in one page, in the same
word, or a page apart; `Slack` is one page for four, and the lowest address within
it. Runs with a liveness property use no symmetry. Deadlock
checking is off where the system may stop for good: every activity destroyed,
every guest gone, a thread waiting for a mutex that is never released.

Fairness. *GuestLifecycle*: threads that are not blocked run on, SIGKILL takes
effect, a child that is not stuck gets through the bootstrap; nobody has to create
or destroy an activity and a guest need not exit. *QemuPipe*: threads run on, and
`Register` and `Unregister`, which take `clientsMutex_`, are strongly fair,
because the main thread takes that mutex in callbacks of its looper, many
milliseconds apart; guests promise nothing. *SeccompTrap*: threads run on, and
`Lock` is strongly fair: the mutex is held for a table look-up while the calls
that want it are far apart. *GsiImport*: the coroutines run on (they are
dispatched by `Dispatchers.IO` and the main looper); the user, the service and the
system need not do anything. *SparseImage*: the loop of `unsparse` runs on.
The other modules state no fairness: `WalkGoesOn` says of every step that it leads
to a later place, of which there are finitely many.

Each mutant in `PROJECT.json` replaces one definition by a variant with a plausible
bug (defined next to the original and marked "Mutation") and makes the named
property fail.

## 4. Where the code departs from what it says

- `elf_stack`: "Align stack pointer to 16 bytes" (`elf_loader.cpp:364`) is done
  before the vectors are pushed, one word per argument and environment variable
  and two terminators and argc: the program is entered with the stack pointer off
  by 8 whenever arguments and environment variables are together even in number.

Steps of the models that no property promises away, and that are worth knowing: a
`kill()` between `fork()` and the assignment of `guestPid_` finds no pid, and the
guest outlives the stop; the monitor may clear `guestPid_` between the test in
`kill()` and its use in `::kill`, which then signals -1; `resolvePath` calls
`access()` with its mutex held, the call is trapped, and the handler asks for the
mutex again; an image chosen before the service is bound leaves the button
disabled; an image picked for another slot goes to the first one when the screen
was created anew behind the picker.

Some more of them show with two actors, or in a second session: two launches both
get past the test of `running_ && guestPid_ > 0` ("Guest already running", line
171), so two guests run and one is on no record; a thread of the old session closes
the number of the restarted pipe server's listening socket, and the next `stop()`
waits in `join()` for good; a handler issues `openat`, `faccessat` and `newfstatat`
of an absolute path or an empty path without the token and is trapped in its own call; two imports at once may
put each other's image into their slots and both report success; a launch beside a
second activity may read that activity's configuration, and the `onDestroy` of the
old one stops the engine the new one has just set up; behind a hole the data of an
extracted file is shifted; an import whose `renameTo` fails reports success without
its image in the slot; a launch that finds the guest of an older activity's launch,
which ended after that activity's `onDestroy`, reports success for a slot it never
read.

"Multi-touch protocol Type B" (`input_dispatcher.cpp:48`) promises that a contact keeps
its slot until the slot gets the id -1. `Frame` takes the index in the event for the
slot and, for ACTION_POINTER_UP, names every finger again: when an earlier finger goes,
the others move one slot down and the last slot keeps its id, so that the guest
sees a finger twice, until an event with as many fingers names every slot or the
guest starts anew. `ContactsAreFingers` says from when on the contacts are right,
and names this as its exemption; that the first slot is free after the last lift
(`LastLiftReleases`) holds all the same, the other slots need not be.

The other properties of the same modules say what does hold around these.

## 5. Proofs

All theorems but one have the form `Spec => []Inv`, for every value of the constants
that the module's named assumptions admit; `VfsRouterProofs!MomentCorrect` says that a
detailed specification implements an abstract one.

**GuestProofs, the guest's life.** `TypeOK` is inductive by itself: besides the types it
says that a thread has accesses left exactly at the places of the code that do
them, and that a monitor exists only once its `launch()` is over. With it,
`PublishedPidHasOwnMonitor` and `RunningHasClearer` are inductive: whoever stores
to a member leaves behind a thread that has still to clear it, and a thread stops
being that one only by clearing it. `SoleGuestIsRegistered` is not inductive. Its
strengthening `SoleRecord` says, for the only launch there ever was and as long as
nothing was stopped, what the members hold at *each* place of the launch and of
its monitor; `HistoryIsKept` shows that "nothing stopped" and "only launch" hold
before a step if they hold after it.

**GuestProofs, the loader.** The three properties of `ElfLoader`, for any programs, any
(even) size of a page and any memory. Pages are quotients by `PageSize`, a constant the
solver does not know; the few facts about products and quotients that are needed
(`Times`, `Quotient`, `Shift`, `PagesUpIs`) are lemmas, and everything else is linear over
them. They give `SegmentPagesAre`: the pages mapped for a segment are those from the
page of its first word up to the last page that begins before its end. Hence the pages
reserved hold every segment, slack included (`SegmentsInArea`), and segments that share
no page at address 0 share none wherever they land (`SegmentsApart`). The invariant
`LoadInv` says with them what is where at each place of `execute`: other threads have
their pages; the program, and later its interpreter, has an area of its own that is
nobody else's (`Has`), and the segments before the one mapped next are there, word by
word, with their protection (`Placed`). A mapping with MAP_FIXED stays in its own area
(`ProtectKeeps`) and leaves the other segments of the file alone (`OneMore`); another
thread only takes free pages or gives back its own (`Spares`). `OthersKeepTheirs` and
`SegmentsAreInPlace` follow. The invariant has no more about the stack than that it is
`BuiltStack`; what that reads like is computed from the positions in the joined and
reversed sequences (`IsJoin`, `StackRead`), for any number of strings. That the least
`AT_NULL` and the only `AT_...` before it are found at their places is `EndIs` and
`ValueIs`. `AT_PHDR` is tested against 0 in the code: `HeadersAreThere` needs that a
reserved area never begins in page 0, which another thread has. Assumed are the types of
the constants, that programs are made of `IsImage` files (`ElfLoaderAssumption`,
`ProgramsAssumption`), and that a page that is nobody's is told from one that is
somebody's (`NoneAssumption`).

**QemuPipeProofs.** `TypeOK` adds that a call in progress has a socket and a
thread has a descriptor from `accept` to `close`. `EntryHasOwner` is inductive
with it. `StoppedServerIsQuiet` needs `ServerPhase`, which follows `start()` and
`stop()`: in which phases a server thread exists, what `serverFd` means, and that
`stop()` is the only one that closes a listening socket on purpose. `OwnDescriptors`
and `UpdatesReachSubscribers` are about the first session and need `FirstInv`: until
the first `start()` no guest has been there (`Untouched`), a thread's guest has
connected and so has made up its mind about the service it asks for, what is left to
send is listed, because who erases an entry waits for the mutex of the send, and
every descriptor, waiting call, service and entry belongs to its thread's own
connection (`EachHasItsOwn`). A second session breaks the last part, for a thread of
the first that closes the new listening socket; the properties say "first" for that.

**SeccompTrapProofs.** `TypeOK` says of every place which calls may be there and
that every frame but the top one is in a system call. `EveryStep` reduces the
actions to four ways a stack may change (`Move`, `Interrupt`, `Resume`, `Leave`);
the three invariants are then proved over these. `ResolveIsExclusive` uses that an
interrupting frame starts outside `resolvePath` and that a frame in a system call
is resumed on the same side of the mutex; `RecursionHasCause` that a call issued
from a place is trapped only if `Nests` holds of the frame's own call
(`TrappedCallNests`), and that the bottom frame's call never changes.

**ImportProofs.** `TypeOK` is inductive. `AloneIsFaithful` is not: what an
import finds in the two names at the end depends on every stage before it, and on
what earlier imports left there. `FilesApart` says that no two names lead to the
same file and that an import's own files do not exist before it creates them, so a
conversion never writes the file it reads; `Record` says for an import that is
alone what the names hold at each place (`Holds` for the copy, `HoldsLoosely` for
the raw image, which may have holes), except that from the move on it says nothing of
an import whose own move failed (`Stuck`). A step of another import cannot disturb it,
because there is none running (`StaysAlone`). `DisabledHasImport` is inductive with
`ScreenRecord` (a screen that owns imports is bound to a service that is up, and
nothing is cancelled before it starts); `CopyIsRemoved` follows from `CopyHasImport`:
while there is a copy some import is at a place from which every way on but a
cut-off one renames or removes it, whichever import wrote it, or some import could
not move or delete it.

**ImportProofs, the extraction.** All properties of `Ext4Extractor`, for images of any
number of inodes, with any damage, whatever the file system refuses, and for any depth and length of
directories. The
walk is the only state, so the inductive invariant `WalkInv` says what the counters
and the disk have to hold at each place of it. `AreOpen` says that the stack is a chain:
each frame stands at a directory that `Lookup` finds at the path, behind the entry that
leads to the next. `BehindOf(stack)` is the set of paths of the image that the walk is
past; a step adds to it the entry it passes over, or, when a directory cannot be
entered, the entry alone, because nothing below can be found (`Visits` and what follows
it). Over that set, `OnDisk` says that everything created is extractable and is what the
image has there, and that what was refused is extractable and was not created, `Found`
that everything extractable that the walk is past is one of the two, and `Tallied` that
each counter is the cardinality of the paths that count there (`CounterIn`, which looks at
what was refused), unless the counters are shared; that set being finite is part of the
proof. When the stack is empty, nothing is ahead, and the
three are `TreeIsFaithful` and `CountersTellTheTree`. `WalkGoesOn` holds of every
step by itself, given `AreOpen`.

For `FilesAreFaithful` the invariant is `Copied`: what is on disk for a link or a file
is a beginning of `Data`. The rest is about the operators alone: what a recursive
definition over positions computes (`Readable`, the library's `FlattenSeq`) is shown by
the least position at which it would not. The blocks of extents joined one after
the other are those of the format, up to the first hole or unreadable block, provided
the extents are listed in order (`ReadsAll`, `Covered`, `Located`, `Ordered`). Assumed
are the constants' types, that an image is a table of inodes with whatever content, and
that the two entries that name no inode differ (`Ext4BlocksAssumption`,
`Ext4ExtractorAssumption`, `ImagesAssumption`).

**EngineLifecycleProofs.** All four invariants of the module, for any number of
activities, slots and surfaces, from one inductive invariant, `IInv` (theorem
`EngineInvariant`), which TLC also finds to hold on the instance of the run. What
an activity finds depends on those before it, so `OffBefore` says that the engine
is off when nobody is there, and off for an activity that is alone until its own
`nativeInit`, its service apart; `MeetingsAreKept` that activities that are there together know it
ever after, so that a step of another activity cannot disturb one that is alone
(`OthersAreAbsent`); `InitializingRuns` for which activity `nativeInit` runs;
`GuestHasLauncher` that a guest was launched by an activity that is there or that it
outlived; and `ReadsOwn` what a launch under way has read so far, which is nothing
when it found a guest.

**VfsRouterProofs.** First what the operators compute, for paths of any length.
`cleanPath` and PathRouter's `Meant` are recursive functions of the position; that
they exist (`Recursion`) and end with the same names (`CleanIsMeant`) is shown by
the least position at which they would not. Then the mount table: the first entry
that matches is the longest, an answer inside a mount lies in the sandbox of the
app or has no mount itself. The inductive invariant `RouterInv` adds to the types
who holds the mutex, that only paths with a mount get as far as the files, and
`AnswersStay`. With it each step of `resolvePath` is one of `PathRouter` or a
stutter (`MomentCorrect`): the last look at the sandbox is the moment of the answer.
Assumed of the constants are that the sandbox's directory contains the app's name,
which `IsSandboxPath` looks for, that paths are non-empty sequences of names, and,
because the provers do not know it, that the ten names in the code are strings
(`NamesAssumption`).

**SparseImageProofs.** Positions in the input and in the output are sums over the
chunks; that they exist, rise and are bounded is shown for any sequence of numbers
(`SumsExist`, `SumsRise`, `SumsBounded`). The invariant `SparseInv` ties the two
together: `InStep` says where the input stands at a header and inside a chunk,
`EndInStep` the same of the output, `Cut` that the input ended a chunk ago; `Fresh`
and `Faithful` say what the blocks ahead and behind hold, `Sized` what an intact
image does to the size of the file. That a block passed is the one meant is not
inductive without the two positions.

**TouchBridgeProofs.** The properties speak of a moment at which nothing is on
the way, which no step preserves. The invariant `TouchInv` states them of what the
guest *will* find once it has read everything pending, `queue \o out`: `HoldsId` (the
last event about the slot says so, or none is pending and the slot holds it) and
`ComesUp`, the same for a key. Reading an event (`ReadKeepsIds`, `ReadKeepsKeys`)
and writing one (`Moved`) leave that as it is; a new touch event decides it for the
slots it names (`FrameHolds`). It needs that an id follows its slot in the queue
(`InPairs`), also across a guest that comes and goes, that the rest of an event
belongs to the last gesture or to a key that is down (`OutIsLast`), and that no
slot is named beyond the pointers of the events seen (`WithinMost`). For
`ContactsAreFingers` the last event must also list the fingers there are (`Listed`),
each exactly once: that the enumeration by rank which the events use has an index for every
finger is counted out in `PointersCount` and `PointersCover`. Assumed is that
BTN_TOUCH is not a navigation key.

The library's induction theorems cannot be used here; what is needed of them is
replaced by `Least`: a set of natural numbers that is not empty has a least element,
which the library's facts on well-founded relations give.

Only model-checked, with the reason:

- every liveness property (`DeadGuestIsForgotten`, `RunningIsReset`,
  `StopReapsSoleGuest`, `FirstStopReturns`, `LostClientIsReleased`,
  `SimpleCallReturns`, `StartedIsAnswered`, `Returns`): fairness and ENABLED are out
  of the prover's reach.

Every safety invariant and every action property that a passing run checks is a
theorem.

`TypeOK` of `GuestLifecycle`, `QemuPipe`, `SeccompTrap`, `TouchBridge` and `GsiImport` is
proved and not run; that of the other modules is run, on its own or as a conjunct of one of their invariants.

## 6. Not modelled

Not modelled: drawing in EglRenderer (GPU), CrashHandler (prints and re-raises),
ApexExtractor, OverlayManager and StorageUtil (sequential copying, whose failure is
a branch of GsiImport), the log and configuration screens, InitSequencer (no
caller), VirtualBinder (its table of descriptors is filled by an `openat` of a relative path
with `/dev/binder` in it and read by `ioctl` only; SeccompTrap leaves open which
`ioctl` it answers, and its other functions keep nothing), the log file (appends; rotation may lose lines that nothing reads), and
the files UserKernel creates once at the start.

Not composed: GuestLifecycle, QemuPipe and EngineLifecycle share `nativeStopVm`,
each with the part of it that matters there. Their only other link is
`GuestLifecycle!CheckRunning`, which begins where `EngineLifecycle!LaunchFinds` and
`EngineLifecycle!LaunchReads` do.
