# Lauss in TLA+

TLA+ specifications of Lauss (a daemon that has Windows load a payload into
LINE, and the payload's hooks) and of Gandr, the library under it
(`dep/gandr`), with TLC models and TLAPS proofs. Paths below are relative to
the repository's root.

## The system

| Component | State | Operations | Talks to |
|---|---|---|---|
| Daemon (`src/Daemon/Daemon.cpp`) | active clients (process handle and id), crash counter | main loop: sleep, remove ended clients, snapshot, inject, wait, settle | processes of the session, by system calls |
| Payload (`src/Payload`) | its own reference, `DynamicImports`, `s_trampoline` | attach: pin, resolve Qt, hook `QWidget::show`, hide banners; roll back; the hook | Gandr hooks; LINE's GUI thread and widgets |
| Gandr hooks (`dep/gandr/src/Gandr/Hook.cpp`) | patched prologs, auxiliary prologs, `HookRegistry::m_records`, `m_hooked` of each `Hook` | `Install`, `Uninstall`, `GetTrampoline` | threads that call the patched functions, other hooking engines |
| Trampoline registry (same file) | pages, free lists, records | `Register`, `Unregister` | virtual memory of the process |
| Instruction decoder, `CopyProlog` | none | lengths and displacements of a prolog's instructions | `Install` |
| Setup (`src/Setup`) | files in the installation directory, two registry keys, processes | install, launch the old uninstaller and wait, shadow uninstaller, remove | Restart Manager, LINE, daemon |
| Debugger, sessions (`Debugger.cpp`, `DebugSession.cpp`, `DllPreloadDebugSession.cpp`) | sessions, main thread of each | event loop, end of sessions, preload of a DLL | debuggees |
| Utilities | buffer, handle, mutex, lists of processes, threads, modules and regions, PE, hash | | |

What is hard in it: the daemon acts on processes that end, are replaced under
the same id and load modules while it looks; it may be killed amid an injection;
waits time out. Hooks are changed while other threads run through them, every
write to code may fail, several `Hook` objects may want one function, another
engine may have patched it. Trampolines must be within a signed 32-bit
displacement of everything their instructions refer to. Lookups take a shared
mutex twice. The list of hazards, each with its line, is in `PROJECT.json`.

The properties that make each part correct, in one line each: the daemon patches every
LINE, lets go of those that end, gives up after two deaths in a row and leaves no other
program with its module for good; the payload hides each banner, whenever it comes, does
not bring LINE down and leaves nothing if it fails; a hooked function always leads to
code that exists and back, and an unhooked one is what it was; no two trampolines share
memory; what is moved into a trampoline means what it meant; an interrupted or failed
Setup can be repeated, and an uninstallation leaves nothing because somebody uses it.

## Modules

* `TrampolineStore.tla`: what `Hook::Install` needs of the trampoline registry,
  a slot nobody else holds whose contents stay. An abstract specification.
* `TrampolineRegistry.tla` (`MCTrampolineRegistry.tla`): pages, free lists and
  records as in the code, the address ranges, and the displacements written.
  It implements `TrampolineStore` (`ImplementsStore`): a slot is live while
  `m_records` has it. Each of the two operations is one action because each
  runs under one lock from its first line to its last.
* `HookedFunctions.tla`: what hooking promises of a function: calls go to the
  original or to the hook, and the way back is there before a call is diverted.
  An abstract specification.
* `Hook.tla` (`MCHook.tla`): `Install` and `Uninstall` as the steps other
  threads can tell apart, built on `TrampolineStore`; calling threads; another
  hooking engine. A prolog is abstracted to what its jump leads to. It implements
  `HookedFunctions` (`ImplementsHookedFunctions`): the stage of a function is read
  off memory, auxiliary prologs, records and slots, and a function of which they
  do not agree has the stage "astray", which the abstract engine does not know.
* `Payload.tla` (`MCPayload.tla`): DllMain in LINE, the hook of `QWidget::show`
  (built on `HookedFunctions`), the loader and the daemon's message hook, and
  LINE's GUI thread, which creates, shows and deletes widgets in the same thread
  or beside it. A widget is known by its owners (`FindOwningWidgets`). One action
  is a step of DllMain another thread can see; the call of the hook function, the
  call of the trampoline and the original show are three.
* `Prolog.tla` (`MCProlog.tla`): the one step of `Install` that `Hook.tla` leaves
  abstract, in the 64-bit build. An instruction is a record of the fields the
  decoder reads, the opcode standing for a row of `k_opDefTable`;
  `GenerateLengthInfo` is the decoder's length, `TrueLength` the processor's.
  One action is one round of `CopyProlog`'s loop (or its refusal); `RefersTo` is
  what `FixupDisplacements` makes of an operand.
* `AtomicRecord.tla`: what the registry promises a thread that asks for a trampoline:
  an answer from one moment of its call. An abstract specification.
* `HookRegistryLock.tla`: `m_mutex` with the nested shared lock of
  `GetTrampoline`; whether the mutex prefers writers is chosen at the start. It
  implements `AtomicRecord` (`ImplementsAtomicRecord`): a lookup is answered when
  `LookUp` looks into the map, a change happens when it is finished.
* `InjectedModule.tla`: the life of the payload in the processes that are hooked, as
  the daemon and the payload see it from their two sides: it comes once, with the hook,
  and goes when DllMain fails, when nobody holds it any more or with its process. An
  abstract specification.
* `Daemon.tla`: the loop of `ExecMainLoop`, one action per system call whose
  answer can be out of date at the next one; the processes, some of them named
  like LINE; `DllMain`'s reference, which LoadLibraryW may refuse (`refused`); the
  daemon's death and restart. A process that has ended keeps its id while somebody
  holds a handle to it, or to a thread of it. The target is checked by its handle, its
  thread is looked up by the process id, opened by the thread's id (`hookee` is its
  process) and hooked: if the thread has ended in between, its id may be another
  process's (`ThreadsEnd`), and that one is hooked. Windows unloads the payload some
  time after the hook is gone (`Unload`), with the next message. It implements
  `InjectedModule` with a process per id and number, and so does `Payload` with one
  LINE (`ImplementsInjectedModule` in both).
* `Installation.tla`: what Setup promises of its directory: Uninstaller.exe, the mark
  of an installation, comes last, in the version of the rest, and goes only while no
  daemon runs; while it is there nothing is written, unless somebody has overlooked it
  (`overlooked`). An abstract specification.
* `Setup.tla` (`MCSetup.tla`): Setup.exe, the uninstaller it runs in a job, the shadow that one
  leaves, cmd.exe that cleans up, the files, the two registry keys, the daemon
  and LINE. One action is one call that changes something another process can
  see; a file is written in two actions (emptied, then whole), so that a kill
  in between leaves it torn. The uninstaller is created suspended, put into the job and
  resumed in three; one whose Setup is killed before the third is an "orphan", which
  stays until somebody ends it. Calls whose results the code does not read may fail as
  well (`Tried`): a file that is there may not be readable, which Setup takes for
  "not installed" (`overlooked`), a deletion or removal may fail (`spared`), the directory
  may be neither made nor removed. What a Setup or a shadow knows goes with it
  (`SetupEnds`, `EndSession`). The daemon patches LINE in one step here; `Daemon.tla` has
  the rest. It implements `Installation` (`ImplementsInstallation`), whose variables are
  its `files`, `daemon` and `overlooked`.
* `Debugger.tla` (`MCDebugger.tla`): the event loop, its sessions and the programs
  they debug. The debugger is one thread: one action is the handling of an event up
  to `ContinueDebugEvent`, another the end of a session after it, since the program
  runs in between; killing one takes two for the same reason. A program loads
  modules, comes to its entry point, goes on to main and exits; it stops with an
  event while it is attached. `ended` remembers why a session ended.
* `TrampolineRegistryProofs.tla`, `HookProofs.tla`, `HookRegistryLockProofs.tla`,
  `PayloadProofs.tla`, `PrologProofs.tla`, `DaemonProofs.tla`, `SetupProofs.tla`,
  `DebuggerProofs.tla`: the theorems.

The modules of hooking stand on each other: `Payload` is built on `HookedFunctions`,
which `Hook` implements; `Hook` is built on `TrampolineStore`, which
`TrampolineRegistry` implements. `Daemon` and `Payload` meet in `InjectedModule`, which
both implement: the payload's start is two steps in `Daemon` and many in `Payload`, and
in both LoadLibraryW may fail, which leaves a payload that works until the message hook
goes, and the rest of DllMain may, which takes it away at once; the missing symbol that
stops DllMain for ever is in `Payload` alone. The others meet only here: what `Prolog`
says of a copied prolog is what `Hook` takes a trampoline to do, and `LinePatched` of
`Setup` is what `Daemon` does.

## Runs

| Run | Shows | Bounds |
|---|---|---|
| `registry` | slots, disjointness, displacements, refinement | 5 granules of 5 bytes, slots of 2: two slots to a page and one byte over, as 0x28 leaves bytes of 0x10000 over; two sites with different ranges |
| `hook` | records, objects, trampolines, memory and callers agree; refinement | two functions, three `Hook` objects (two compete for one function), one padding each, three slots, one calling thread that calls at any time, a foreign engine that acts between operations |
| `payload` | banners stay hidden, LINE survives, a failed start leaves nothing, DllMain ends; refinement of `InjectedModule` | a window, a panel in it, a banner in the panel and one in no panel; two loads, failing calls, a missing symbol or none, DllMain in the GUI thread or not |
| `payload_missing_symbol` | violation: a missing symbol stops DllMain for ever | the same, calls succeed |
| `lock` | lookups are atomic (refinement) and return; one deadlock, which is for good, and no other | two callers, one installer, three changes, both kinds of mutex |
| `daemon` | clients, counter, payload; refinement of `InjectedModule` | two ids, two processes each, two runs of the daemon, two checks of 50; calls fail, threads end at any time, hooks time out; queries of a client succeed |
| `daemon_liveness` | clients are patched, ended ones let go, other programs clean in the end | the same, but calls succeed, threads live as long as their process, messages come in time |
| `daemon_query_fails` | violation: a running client counts as a crash | one run of the daemon |
| `prolog` | lengths and operands of copied prologs | hooks of 2, 5 and 12 bytes, 24 bytes of room, every opcode class with every addressing mode and five sets of prefixes, two IP-relative operands |
| `prolog_imm64` | violation: a wrong length | the same, no prefix but REX |
| `setup` | exclusion, consent, completeness of Setup, order of its writes and deletions (refinement); all processes end; interrupted and failed runs can be made up for | two versions, failing calls, a slow uninstaller, two kills or log-offs |
| `debugger` | events, sessions, breakpoints and the loop's return | two programs, three pairs of options, failing calls |

The type invariants of `TrampolineRegistry`, `Hook`, `HookRegistryLock`, `Payload`,
`Daemon`, `Setup` and `Debugger` are part of the invariants proved below and are not run
as well.

Two processes per id are what it takes for an id to be reused, two ids what it takes for
one client to reset the counter another raised and to pass the limit of two crashes. The
daemon opens its clients without a right to query them (`Daemon.cpp:72`), so that
queries which fail may be the rule on some systems: `daemon_query_fails` is about these,
the other two runs about those that succeed. `CheckLimit` 2 has both a check that is
repeated and a last one. Two operands are what it takes for the displacement of one to
be confused with another's; the lengths of `prolog` are the code's own, so that nothing
there is scaled down but the choice of displacements. Two versions of Setup tell whether
files of two installations are mixed, two kills reach an uninstallation that is
interrupted and whose repetition is, too. Two
programs are what it takes for one session to be confused with the other's path or
event; the pairs of options are those in which one can wait for its payload while the
other does, and each option once beside another. Two banners are what it takes for one
to be overlooked, and the one in no panel is one that `HideBanner` leaves alone; a
second load shows what the first one left behind. Deadlock is checked in the Setup
run, and not in the others: a bound (processes, daemon runs, changes, loads) or the
program itself (the daemon gives up, a process dies on a null page, LINE crashes, a
prolog is copied, all programs have ended, the lock is taken twice) ends the behaviour.

## What the runs found

Three statements of the repository that the code does not keep are findings in
`PROJECT.json`, each with its run: that counted processes have crashed
(`daemon_query_fails`), that lengths of instructions are right (`prolog_imm64`), and
that a payload which fails to start rolls back (`payload_missing_symbol`: to note the
missing symbol, the constructor of a singleton calls for the singleton). Other
observations are named by a definition or a constant of the models rather than by a
run:

* `CallersServed` (`Hook`): a thread in a hook function whose hook is being removed
  finds no trampoline, or one that is released (`raced`). Lauss never uninstalls its
  hook.
* `LineSurvives` (`Payload`): "Any thread should do" (`Daemon.cpp:64`) holds of LINE's
  GUI thread only. If the hooked thread is another one, the GUI thread may call
  through `s_trampoline` before it is set, or delete a widget that `FindBanners` has
  just found. And when `LoadLibraryW` fails in DllMain the payload works, until the
  daemon removes its message hook and Windows unloads it under the patched function
  (`refused`).

* `Misdecoded` (`Prolog`): the decoder applies 0x66 to a 32-bit displacement, to
  near branches and in spite of REX.W, and takes any REX in front of B8 to BF for
  REX.W. `BoundariesKept` says that nothing else is wrong. The prefix 0x3E, which
  `InstructionDecoder.hpp` lists, is refused, which is safe.
* `NotRelocated` (`Prolog`): a near CALL is copied without fix-up; a short jump
  to before the function passes the test that should keep it inside the prolog;
  a disp32 may refer to bytes that the hook then overwrites. `OperandsResolve`
  says that everything else is relocated rightly.
* `TrampolineRegistry`: when the search finds no granule in range the page comes from
  anywhere and displacements may not fit (`OutOfRangeOnlyIfExhausted` says only
  then); when VirtualAlloc fails the null page is used and the process dies.
* `LockedOut` (`HookRegistryLock`): the second shared lock of `GetTrampoline` is
  undefined behaviour. With a mutex that lets writers go first, a writer between the
  two locks waits for the caller and the caller for the writer, for ever.
  `LookupReturns` says that a lookup returns in all other cases, `LockedOutForGood`
  that in this one it never does, and `OnlyLockedOutBlocks` that the threads do not wait
  for each other in any other way; the last two are theorems.
* `Debugger`: a session that waits for its payload ends early when the program itself
  loads the payload before its entry point, or when the path of a module cannot be
  read: `GetFinalPathNameByHandleW` then returns 0, the test of line 90 passes, and
  `dllPath` is uninitialised, which may be the path of another session's payload. The
  breakpoint stays, and the program dies of it at its entry point. The same happens
  when the host detaches before. `NoStrayBreakpoint` and `PayloadAwaited` name these.
  A killed program is detached first and runs until it is terminated.
  `RequestEventLoopExit` is private and nobody calls it, so `ExitRequested` is never
  returned.
* `Daemon`: the result of `WaitForPayload` is ignored, so that a client whose
  load took more than the checks is treated as patched; a LINE closed by its
  user soon after injection counts like one that crashed; a client that ended with
  exit code 259 is never let go; a thread id that was reused has another process
  hooked than the one that was checked (`PatchedNotHooked` names it), which is then left
  without the payload, if it is not LINE, but not before its next message
  (`OthersLeftClean`).
* `Stuck` (`Setup`): a Setup whose ResumeThread failed waits for its uninstaller for ever.
  A Setup killed before that leaves a suspended uninstaller behind: the next
  uninstallation has it on its list, and by force RmShutdown ends it.
* `overlooked` (`Setup`): an Uninstaller.exe that cannot be read at that moment is taken
  for absent, and Setup installs over what is there; until it has written its own, two
  versions may be mixed.
* `Unstoppable` (`MCSetup`): two interruptions defeat recovery. If
  the shadow is killed between its deletions and the removal of the autostart
  value, and the next Setup before it has written Uninstaller.exe, a log-on
  starts the daemon from the stale value; its files stay in use, no Setup can
  overwrite them, and there is nothing to uninstall. An Uninstaller.exe left torn
  can be read but not run, and makes each later Setup fail: for good (`TornForGood`; only
  a Setup that fails even to read it would write over it), though only a kill or a log-off
  leaves one (`OnlyKillsTear`), since CopyFile removes what it could not finish. `Recovers`
  says that nothing else does but `Stuck`, failed calls included, once calls succeed
  again. A LINE patched during the question keeps the payload file; it is one
  exception in `NothingLeft` (`repatched`), what the shadow's own deletions failed to
  remove is the other ("Report a success even if file/dir removal fails",
  `Uninstaller.cpp:155`).

## Fairness

`HookRegistryLock`: each thread that can take its next step takes it; the operating
system suspends none for ever. `Daemon`: weak fairness of the loop (it has one thread),
of the load of the payload into a hooked thread, of DllMain and of the unloading of what
nobody holds: a thread that is hooked, or was, gets messages, as those of LINE and of
any program with a window do; `PumpsInTime` stands for the assumption that the hooked
thread handles a message within the 5 s the daemon waits. `Payload`: the thread that
runs DllMain goes on; nothing is asked of the GUI thread or the loader. `Setup`: each of
its processes takes its next step (no wait in it is unbounded but that for the job and
that for the user), an orphan never. `Recovers` also needs a user who starts Setup again
whenever nothing of it runs and who, asked time and again, says yes in the end (strong
fairness: the question may be answered with no before), and LINE closed now and then;
calls may fail for as long as they like, but not for ever. `AllEnd` needs none of the
user but that the question is answered. `Debugger`: the loop takes its next step, and
Windows tells the events of all programs in turn (strong fairness for each program,
since another may have the loop whenever its event is ready). A program comes to its
entry point and ends after it, however often it loads modules or raises events before
(strong fairness too, as each event stops it).

## Proofs

Constants are restricted by the named ASSUMEs of the modules alone.

`TrampolineRegistryProofs`: for all sizes (with a slot no larger than a page,
and a granule more than the reach still within a disp32) the inductive invariant
is `TypeOK`, `PagesDisjoint`, `SlotsPartitioned` and that a record lies in its
page at a slot's offset. `SlotsPartitioned` alone is not inductive: that a
record released goes back to the list it came from needs its page index and
that pages are distinct. From it follow disjointness, the fix-up and, step by
step, the refinement of `TrampolineStore`. `SearchComplete` is about
`FindPageForAlloc`: rounded to whole granules a range does not grow (`FoundInRange`),
so that a page taken for being in range is, and the one from anywhere is asked for only
when the search found nothing. The search ends one granule before the end of the range
(`Hook.cpp:251`): that the last one may be free and is not found is what the code does.

`HookProofs`: for any number of functions, `Hook` objects, paddings, slots and
threads. `HookInv` adds to `TypeOK` what memory and the other engine hold of each
function (`Patched`), whose record a function has (`Owned`), who holds each
trampoline (`Accounted`), that every jump of ours leads to its function's hook
(`Reachable`) and what a caller in flight will find (`AllServed`). The properties
speak of the moments between operations; the parts say the same of each step of one,
where the record that counts is the operation's own while it is in no map
(`InForce`). `Patched` needs `Owned`: the prolog that Uninstall writes back is the
original one only because nobody else has hooked the function since. Under the
invariant a stage of `HookedFunctions` depends only on whether calls meet our jump
and whether there is a record (`StageKnown`), so that each step is compared with the
abstract one by these two (`StepShown`); `Implementation` follows. `Hook` has
the store's operations in its actions, where their guards would hide a mistake by
stopping the engine: `StoreUsed` proves that none ever does, since an operation under way
holds the slot of its own function (`OperationHoldsSlot`), so that none is released twice,
and that the engine touches the store in no other way. With `Implementation` of
`TrampolineRegistryProofs` the two layers compose.

`HookRegistryLockProofs`: for any number of threads and changes and either kind of
mutex. `LockInv` says how often a thread holds the mutex at each place (`Places`), that
readers and a writer exclude each other (`Exclusion`), and that what the installer has
found is what the map holds until it changes it (`Checked`): it looks under one lock and
changes under another, and only its being the one writer makes that safe. The refinement
(`Atomicity`) has a lookup answered at `Find` and the record changed at the end of a
change. `NeverReleased` and `NoOtherDeadlock` are about the nested lock: by `Places`, who
is neither idle nor waiting can go on, and who keeps the writer out while nobody is at
work has the mutex once and wants it again.

`PayloadProofs`: for any tree of widgets, any banners, roots and main windows, and any
number of loads. `PayloadInv` ties DllMain's place to the hook's stage and the
payload's presence (`Attached`), the reference to both (`Kept`), and says that in the
GUI thread DllMain and LINE take turns (`Turns`). `BannersHidden` speaks of the time
after DllMain; `AllHandled` says of each banner, from the search on, that it is still
to be hidden, has been, or was never shown, which only works because the hook is
there before the search begins. `Implementation` shows each step from outside as one of
`InjectedModule` or none (`StepSeen`); a crash is the end of the process. `HookUsed`
says the same of `HookedFunctions` as `StoreUsed` of the store: its guards never stop
DllMain, since Install finds the function as it was.

`PrologProofs`: for every set of instructions, length of hook and trampoline.
`TableFacts` evaluates the opcode table once; `LengthsExact` compares the
decoder's displacement and immediate with the processor's, and `Lengths` the
sums: they are equal for exactly the instructions outside of `Misdecoded`.
`PrologInv` adds to `TypeOK` and `BoundariesKept` that the displacements recorded
at an operand's place belong to that operand (`Recorded`) and that all of them
lie below what is copied; without the latter an instruction still to come could
record a displacement at the place of an earlier operand.

`DaemonProofs`: for any number of processes, ids and runs. `IInv` adds to the
properties that a process has a number exactly if it has been started (`Started`), that
a handle keeps its process's id from being reused (`HandlesCurrent`), what each
phase of `InjectPayload` holds (`Phases`), that only LINE's modules are pinned and have
a DllMain at work, that what is pinned is there and what is not was refused
(`ModulesPinned`), that the answer of the last module check still holds when the hook is
set (`CheckHolds`) and that the clients blamed have ended (`Blame`).
`ClientsDistinct` needs `HandlesCurrent`; `CounterCountsDeaths` needs
`ClientsDistinct`, since it counts a set. The refinement of `InjectedModule` has a
process for each id and number: the one an id has now is as it is, those before it have
ended, those after it are absent (`OneMoves`: a step changes the one only). `HookedOnce` follows
from `CheckHolds`: nobody hooks the target but this daemon, or it hooks another process.

`SetupProofs`: for all versions, kills and failures. `SafetyInv` adds to `TypeOK`
that Setup is alone unless it waits (`Alone`) and makes one shadow
(`OneShadow`), what it has written so far (`ItemsWritten`), whom the list names
(`ListComplete`), what the shadow has removed up to its place (`Removed`), that Setup
writes where there is no Uninstaller.exe and no daemon (`Unmarked`), and that an
uninstallation has one until it deletes it (`Vouched`).
`NothingLeft` speaks of the last place only, so `Removed` carries each deletion
there, or what it spared: nobody writes a file while the shadow runs because of `Alone`, and no
daemon or image in use keeps one because of `ListComplete`. The refinement of
`Installation` rests on `Unmarked` and `Vouched`. Two invariants are proved of the
abstract specification's state along it: files of two versions are never mixed under an
Uninstaller.exe that was not overlooked (`NeverMixed`), and a running daemon has its files
(`DaemonKeepsItsFiles`), even one that a log-on starts from what two interrupted Setups
left.

`DebuggerProofs`: for any number of programs and all options. `DebuggerInv` adds to
`TypeOK` and `NoVainWait` that what is attached has a session, and what has an event
is attached (`Attachment`), that the end of a process is its last event
(`ExitIsLast`), and whose breakpoint may be left (`Strays`). `NoStrayBreakpoint` looks
at programs that have been let go of; `Strays` also at the one about to be, because
the reason is known when its event is handled and the detaching comes a step later.
`Awaiting` is about one step: the session that ends for a module is the one whose event
is handled (`EndedForModule`), so that nothing but its payload's path ends it, or a path
that was read before and is stale.

Every safety property, action property and refinement that a run expects to hold is a
theorem. Only model-checked is liveness: `LookupReturns`, `EventuallyPatched`,
`DeadClientsLeave`, `OthersLeftClean`, `AllEnd`, `Recovers`, `AttachEnds` and
`LoopReturns`, which need ENABLED and fairness and are out of the prover's reach.

## Assumptions and what is not modelled

A prolog is written in one step; torn instruction fetches are not modelled. One thread
installs and uninstalls (the comment on `HookRegistry::m_mutex`). Code is above 2 GB, so
ranges do not wrap. System calls are external: they answer from the modelled state, or
fail where the code allows for it. Instructions are those of the 64-bit build; the IA32
branches of decoder and `Hook.cpp` are left out. One Setup runs at a time, which nothing
in the code ensures: a new one, or an uninstaller, is started when those before it and
their shadows are gone, an orphan excepted; RmShutdown succeeds, although the code
ignores its result, and ends exactly the processes on its list; the list is not cut off
at its four places. The wait for the job does not fail (GetQueuedCompletionStatus
without a time limit, on a port of Setup's own that has the job's messages only). In the
decoder's truth 0x66 does not shorten near branches, as on Intel's processors; AMD's
differ. A thread whose hook is set is taken to live until the hook is gone, or its
process has ended. Also successful are `DebugActiveProcessStop` and
`HWBreakpoint::Disable`. Programs under the debugger raise no single-step exceptions of
their own, which the session would take for its breakpoint; the host adds and ends
sessions from the thread that runs the loop, as Windows demands of the one that waits
for events.

Components not modelled are in `PROJECT.json` with the reason.

Of the payload, the layout of Qt's structures (`QtInterface.hpp`), class names, signals
and properties are taken as they are; the spy thread and the console are in debug
builds only. Of a widget the model keeps its owners, whether it exists, whether it is
hidden and whether `HideBanner` has resized it; LINE neither resizes a banner nor gives
it another parent. `Buffer`, `AutoHandle`, `Memory` and `Hash` are sequential and have
no state that another part could see in between; the lists of processes, threads and
modules are snapshots, modelled where `Daemon` and `Debugger` use them.

## Plan

Done: the modules above, with the refinements `TrampolineRegistry` to
`TrampolineStore`, `Hook` to `HookedFunctions`, `HookRegistryLock` to `AtomicRecord`,
`Daemon` and `Payload` to `InjectedModule`, and `Setup` to `Installation`. What could
follow:

1. Several LINE processes against the four places of Restart Manager's list.
2. A prolog written byte by byte, with threads that execute it meanwhile.
