# A TLA+ model of synaTudor

synaTudor runs the Windows driver of Synaptics Tudor fingerprint sensors on
Linux. The driver DLL is relinked into a sandboxed *host process*; fprintd talks
to it through a libfprint *module*; a root *launcher* service starts and kills
host processes. This directory models the processes, the messages between them
and what each does when another one dies, is slow, is cancelled or suspends; and,
inside the host, the shims that stand in for Windows under the DLL: captures and
their threads, WDF objects, the HID channel, storage, and the loader.

## 1. Inventory

| Component | State | Operations | Talks to |
|---|---|---|---|
| Launcher (`tudor-host-launcher/src/launch.c`, `main.c`) | `hosts_array` of `host_entry`, `next_host_id` | LaunchHost, KillHost, AdoptHost, OrphanHost (D-Bus), child watch | module (replies, `HostDied`), host processes (spawn, `killpg`) |
| Pairing data store (`pdata.c`) | one file per sensor name | LoadPairingData, StorePairingData | module |
| Host main (`tudor-host/src/main.c`, `ipc.c`) | `cached_pdata`, socket | INIT, pairing data callbacks, open, READY, close | module (socket pair), libtudor |
| Host handler (`handler.c`) | `handler_state`: `async_res`, `async_cancelled`, `capture_fails` | PROBE, CANCEL, ADD/DEL/CLEAR records, ENROLL, VERIFY, IDENTIFY, SHUTDOWN, three capture callbacks | module, libtudor |
| libtudor (`libtudor/src/tudor`) | `enrolling`, `enroll_guid`, record list, async results | open, close, enroll_start/capture/commit/discard, identify, async callback and cancel, record storage | DLL |
| Overlapped I/O and WDF requests (`winapi/io.c`, `wdf/request.c`, `wdf/file.c`, `sync.c`) | OVERLAPPED, its `winfile_op`, the request and its lock, events | DeviceIoControl, completion, callback, cancel, wait, cleanup | libtudor, both halves of the DLL |
| WDF objects (`wdf/object.c`, `evtqueue.c`, `driver.c`, `device.c`, `queue.c`, `file.c`) | object tree, event queue, power state | create, delete, enqueue, flush, open, close, unload | libtudor, DLL |
| HID channel (`fileops.c`, `hiddll.c`) | read queue, reader thread, event filter, handle table | ReadFile, WriteFile, CloseHandle, HidD_SetFeature, HidD_FlushQueue, HidP_* | DLL, hidraw |
| Detection (`hidraw_detect.c`) | none (pure) | parse descriptors, find nodes | hidraw, sysfs |
| Loader (`loader.c`, `pe/`) | the image of a DLL | parse, copy, import, relocate, protect, find an export | tudor_init |
| Other shims (`libtudor/src/winapi`) | handles, critical sections, registry, strings, cryptography | what the DLL imports | DLL |
| Module (`libfprint-tod/src`) | host id and its `host_dead` flag, socket, receive in flight, cancel handler, close task and timeout, sleep inhibitor, mirror of the host's records | probe, open, close, enroll, verify, identify, delete, clear, cancel, HostDied, PrepareForSleep, timeouts, exit | host (socket pair), launcher and logind (D-Bus), libfprint |
| CLI (`cli/src`) | pairing data and records in memory, a data store file | enroll, verify, identify, query, wipe, quit; load and save | libtudor |
| Sandbox (`tudor-host/src/sandbox.c`) | | start-up | |

Hard behaviours: the launcher learns of a death later than it happens and pids
are recycled; the host handles messages on one thread and captures on others;
the module's answers carry no action identifier, so a cancel that crosses a
result shifts every later answer; a suspend can come at any moment, even during
the shutdown of an earlier one; every process may die between any two steps.
Inside the host, a request is completed, cancelled, waited for and freed by three
threads; objects are destroyed through each other; one reader thread serves reads
that another thread closes under it; the tool rewrites its only file at exit.

What makes each component correct:
- launcher: one host per device, no host process without an entry, a death is
  announced to its holder exactly once, assertions hold;
- host: the driver is enrolling exactly while an enroll capture runs, a print is
  reported as enrolled only while its template is on the sensor, a cancel ends the
  action, the close finds everything idle;
- module: it strands no host in the launcher, an answer belongs to the action
  that reads it, every action and every close ends, the machine does not suspend
  under a host in use;
- captures: an OVERLAPPED completes once, its callback is told once and with that
  status, nothing is touched after its free, a cancelled capture ends;
- WDF objects: tree and event queue agree, nothing freed is used in any order of
  destruction, queues are gone before the device leaves D0, teardown ends;
- HID channel: reads end in order, no event of a wait is dropped and none of the
  last wait is kept, closing returns;
- storage and tool: list, results and cursor are sound, pairing data and records
  survive sessions and crashes as far as they were saved;
- detection, loader: the result is what a direct definition says, at every
  limit.

## 2. Modules

| Module | Models | Lines up with |
|---|---|---|
| `HostLauncher` | the launcher and the kernel's process table | one action per D-Bus method and for `host_watch_cb`; `Reap`, `HostDies`, `PidAvailable` are the kernel |
| `HostSlots` | what the launcher promises: a slot per device | abstract; `HostLauncher` implements it (`ImplementsSlots`) |
| `HostLauncherProofs` | proofs about `HostLauncher`: its invariants; that it implements `HostSlots` | |
| `IpcLink` | the socket pair and the host process both sides share | message types as in `libfprint-proto.h` |
| `TudorHost` | `main.c`, `handler.c`, `async.c` and the captures of `device.c` | `handle_X` is case `IPC_MSG_X` of `handle_msg`; callbacks keep their names |
| `HostAnyClient` | `TudorHost` and a client that may send anything at any time | |
| `HostAnyClientProofs` | proofs about `HostAnyClient` | |
| `TudorPlugin` | the libfprint module on fprintd's main loop | one action per libfprint call, callback, signal and timer, with the source's names |
| `TudorSystem` | `TudorHost` + `TudorPlugin` + the launcher as `HostSlots` | |
| `TudorSystemProofs` | proofs about `TudorSystem`: who has which host; who talks when | |
| `CaptureIo` | one capture from DeviceIoControl to its callback, on three threads | one action per stretch between two locks, events or atomic accesses, named for the function it is in |
| `AsyncResult` | what an overlapped operation promises: completes once, tells once | abstract; `CaptureIo` implements it (`ImplementsAsyncResult`) |
| `CaptureIoProofs` | proofs about `CaptureIo` | |
| `WdfObjects` | object tree, event queue, life of driver, device, queues and file | one action per call of `device.c`/`driver.c` and per destructor frame (`todo`) |
| `WdfObjectsProofs` | proofs about `WdfObjects` | |
| `HidChannel` | HID reads, their reader thread, event switching and draining | `Reader*` are the parts of `hid_reader_thread`, `SetFeature*`/`Drain*` of `HidD_SetFeature` |
| `HidChannelProofs` | proofs about `HidChannel` | |
| `RecordStore` | `storage.c` on a heap of nodes | one operator per operation, with the source's names |
| `CliSession` | the command line tool over several sessions, with `RecordStore` | `cmd_*` are the commands of `cmd_loop`, the rest the stages of `main` |
| `CliSessionProofs` | proofs about `CliSession` and `RecordStore` | |
| `HidInterfaces`, `DllImage` | pure: `hidraw_detect.c` and the caps and handles of `hiddll.c`; PE sections, relocations, imports, exports and `load_dll` | operators with the source's names, each followed by what it should compute |
| `Transport` | all inputs of these two within the bounds | a state is one input |
| `TransportProofs` | proofs about the section reader of `DllImage` | |
| `MCHostLauncher`, `MCHostAnyClient`, `MCTudorSystem`, `MCCliSession` | instances for TLC | |

The composition rests on the refinement: `TudorPlugin` uses the launcher as
`HostSlots`, and `HostLauncher` is proved to implement `HostSlots`.

### How state and actions correspond to the code

*Launcher.* GLib dispatches one source at a time, so a method call or a child
watch is one action. `RemoveFast` is `g_array_remove_index_fast`. A child that
died is a zombie (`owner` still set, not `running`), then `Reap` frees its pid,
and `host_watch_cb` is dispatched later: these are three steps, because other
calls are handled between them. An assertion that fails sets `aborted`, after
which the launcher takes no step. The constant `PidReuse` says whether the
kernel may hand out a pid the table still contains.

*Host.* The handler lock makes a message or a callback one action. `hpc` is the
place in `main`; `hpc = "committed"` is the rest of `enroll_cb` after a commit, with the
lock held, in which the host may abort or die before it answers; `hpc = "set_callback"`
is the gap between starting a capture and
`tudor_set_async_callback`, in which a capture may end if `EarlyCapture`. When it
does, the callback runs under the result's mutex and destroys it; glibc refuses
that and `cant_fail_ret` aborts. The DLL is external and decides how a call ends;
`DiscardFails` says whether discarding an enrollment may fail. With DLL storage
the templates are on the sensor and survive the host (`sensor`); the host's
own record list is bookkeeping and left out. The `exit(1)` branch of `enroll_cb`
(handler.c:82-87) is dead code: device.c clears `done` whenever a capture fails.

*Module.* `recv` is the one receive in flight: what it is for, whether its
socket belongs to a device that has been disposed (`stale`), and whether
`ipc_cancel` was cancelled. `action` is libfprint's current action. The callback
of a `GTask` runs in the step that returns the task. `Asks` is "send, then
receive". `prints` is what fprintd believes is enrolled; `guids` keeps GUIDs
fresh. `cbCalled` is the flag of the same name that an exit waits for (device.c:43): only
the callback of the close task sets it, and `dispose_dev` clears a task without calling it.
`abort` names an assertion that failed and took fprintd down.

*Captures.* `compl` is `wdf_complete_request` in progress, with the callbacks it has
left (`req_cb` before `devctrl_cb`: callbacks are pushed in front). `req.alive` and
`op.alive` are the allocations; a step that touches one after its free sets `fault`
and the behaviour ends, so every property speaks of behaviours up to that point, and
`CompleterSafe` says which thread never gets there. The DLL may answer inside its
queue handler or later, make the request cancelable or not, and collect the result
with GetOverlappedResult or not. It is taken to answer a request after its cancel
routine was called, and otherwise owes nothing.

*WDF objects.* Deleting an object nests: `todo` is the stack of destructor frames, so
the DLL's thread may create, delete and enqueue between any two of them.
`wdf_evtqueue_enqueue` is two steps, publishing the action and linking it to its
object, because it holds a different lock for each. The three uses of freed memory that
the code has on modelled paths are recorded in `fault` and end the behaviour; `KnownUses`
names them with the place each can occur at. The driver's cleanup callbacks run with the
`contexts_lock` of their object held (object.c:82-89); that one of them asks for a context of
the same object, and locks it again, is not modelled.

*HID channel.* A report is an event, an answer or a key press. The reader and the
draining thread take from one buffer. Reads and descriptors are non-blocking in both
programs, so a read returns at once; `poll` may end with or without a report. An ioctl may
fail; after an 'end event' that did (`unended`), the sensor goes on and nothing is drained.

*Storage.* A node is an address that `free` leaves with its old fields and `malloc`
hands out again at once, so a stale pointer is as harmful as it can be. The list the
tool saves belongs to the session; with DLL storage the templates are on the sensor.

*Tool.* The data store is a sequence of items, the last of which may be cut off. `mem`
and `durable` are what a session and the file should know: what was set, enrolled and
wiped, and since when it is on disk; `mem.exact` becomes false when records are lost, at
a reopen or in a save that was cut off. The DLL may write pairing data whenever the tool
runs, also while the device is opened again and while the data store is saved. The tool
waits for each capture it starts, so the DLL's engine walks the list only while the main
thread does not change it; the model has it do so during an identification (the duplicate
check of a commit asks the sensor). A SIGINT is looked at between two commands, so it is
an action of the prompt.

*Loader.* Memory is cells of 32 bits (characters, in strings); addresses have two.
Page and section alignment are four cells, image sizes at most 26.

### What is abstracted

- A message is its type and the part of its contents that decides what the
  receiver does; prints are model values. Serialisation is left out.
- Timers have no clock. A timeout of a receive or of a shutdown fires if the
  host is dead, or blocked in a send nobody reads, or whenever `"slow"` is one of
  the `Events`. A suspend timeout may fire whenever the suspend waits.
- D-Bus failures before LaunchHost are the failed launch. That the descriptor cannot be
  taken from LaunchHost's reply (ipc.c:274-276) is one of the `Events`, `"no_fd"`.
- libfprint runs one action at a time and ignores the completion of another
  action than the current one.
- A second PrepareForSleep while an earlier one still waits for its action is not
  modelled; a second one after that, or during the shutdown, is.
- AdoptHost finds no orphan, because both callers of `close_device` pass `false`;
  `HostLauncher` itself models orphans for any client.
- Reaping and killing: `killpg` on a foreign process that got a pid is outside the
  model.

## 3. Runs

Passing runs:

| Run | Bounds | Shows |
|---|---|---|
| `launcher_table` | 2 devices, 3 pids, 3 hosts, no reuse of remembered pids | consistency of the table, no assertion fails, no kill hits another host, every death is noticed, refinement of `HostSlots` |
| `host_any_client` | 1 record, 2 queued messages, `MaxFails = 0`, captures may end early, the host may fail between commit and answer | with any client: enrolling and captures stay paired, orderly close, a cancel ends its action, a print reported as enrolled is on the sensor |
| `system_crash` | 2 hosts in turn, crashes, exits, descriptors that cannot be taken | a host is stranded only by an assertion or a lost descriptor, answers belong to their action, a death ends every action but a deletion, an exit ends unless an open is being initialised |
| `system_cancel` | 1 cancel at any time, a crash, failing discards, `MaxFails = 1`, 3 queued messages | a cancel that was sent ends its action |
| `system_sleep` | 2 suspends at any time, any timeout may fire | no host in use without an inhibitor, no id without a host |
| `capture_io` | 2 captures in turn | the OVERLAPPED is a one-shot result, the callback runs once and always, the completing thread is safe, a cancelled capture ends |
| `wdf_objects` | 2 queues, 2 objects of the driver's thread, 3 queued actions, 2 opens | tree, queue and allocations agree inside every destructor, order of teardown, teardown ends |
| `hid_channel` | 2 reads, 3 reports, the device shared with a keyboard, failing ioctls | reads in order, no dropped event, clean waits, closing returns |
| `cli_session` | 2 sessions, 2 commands in one of them or one in each, 2 identities, 2 fingers, 3 records, pairing data of one sensor with 2 values, stored before or not, and written once in a session | list, results and cursor, pairing data and records across sessions and crashes |
| `transport` | 3 descriptor items, 4 nodes, 9 handles; DLLs with 2 imports and 2 relocations, loaded below and above their base | detection, reading of sections and loading against their definitions |

Three hosts are enough for a live, a dead and an orphaned one, and for a fast
removal that moves an entry. Queues of two messages fill up (a send then waits,
as the kernel makes it); a cancel needs a third, next to an answer and a
request. One record suffices where records are not confused; the run that
confuses them has two. Two hosts in turn show that nothing of the first one is
left when the second one starts. Two suspends show what the first one leaves
behind. `MaxFails` is 3 in the code; 0 and 1 have the same boundary. The second
capture reuses the OVERLAPPED, lock and buffer of the first. Two queues and two
objects give a list a head, an end and a removal in front of either; the second open
starts from what the first close left. One read is served while one is queued. Three
records have a middle; the second session reads what the first one wrote, or half of
it. Nine handles are one more than the table holds: `HandlesSound` then says only that the
first eight keep their interface; what a ninth gets is not claimed. One pairing write in
a session changes what an earlier one stored; one sensor name suffices for that,
and the theorem is for any.

Deadlock is checked in `launcher_table` and `host_any_client`. It is not in the system
runs (there are ways to hang, listed below, and the bounds on hosts end a behaviour)
nor in the other ones: a capture, a teardown, a closed file, the last session and a
single input are ends of their behaviours, and a recorded fault stops the model.
That what should end does end is stated as liveness instead.

Violations, each a disagreement between the code and what it says of itself (the
quotes are in `PROJECT.json`, `findings`):

| Run | Disagreement |
|---|---|
| `system_cancel_enroll` | "Assume it's an ACK to a CANCEL message": it may be the answer to the previous action's, and an enrollment is then credited with another one's result |
| `hid_reads_left` | "Cancel all pending reads": reads queued when the file is closed are cancelled only if the reader is waiting for one at that moment, else they stay pending |

The model also reaches these states, which no run asks about:
- with `PidReuse`, a pid reused before the callback of its former host runs fails the
  assertion of launch.c:97 and takes the launcher down;
- a cancel before the handler is registered is lost (device.c:113): g_cancellable_connect
  calls it before `cancel_handler_id` is set, and the action waits for a finger;
- an open after the host died while the device was closed succeeds with the dead host
  (open.c:261 looks at `host_has_id` only);
- the suspend timeout kills the host without ending the action (suspend.c:77), and the
  waiting suspend never releases its inhibitor;
- the second of two suspends closes inhibitor -1 and fails an assertion
  (suspend.c:120, suspend.h:13);
- a host that dies, or cannot allocate its answer, after a commit leaves a template that
  no client knows of (handler.c:93-142);
- an exit of fprintd while an open initialises its host waits for ever: the shutdown makes
  the open fail, whose error path drops the close task without returning it (open.c:38,
  184-188), while `ensure_closed`, which is to "Ensure the device's closed" (device.c:79),
  runs the main loop until that task's callback was called (device.c:43); `CloseEnds`
  excludes this case;
- a deletion that fails, because the host dies for one, never ends: its error path completes
  the clearing of the storage instead (data.c:242, where data.c:260 has the right call);
  `DeathEndsAction` excludes deletions;
- an open whose descriptor cannot be taken leaves its host in the launcher's table, and
  the device is in use for every later open (ipc.c:274-276, `"no_fd"`);
- a duplicate enrollment whose discard fails (handler.c:101) leaves the driver
  enrolling, and the next action aborts the host (`fault = "enrolling"`, with
  `DiscardFails`);
- a capture that is over before `tudor_set_async_callback` (handler.c:190) aborts
  the host (`fault = "reentrance"`, with `EarlyCapture`);
- a second suspend during the shutdown of the first fails the assertion of
  open.c:350 (`abort = "close_timeout"`), and a suspend timeout that fires after
  the action disposed its host fails that of ipc.c:284 (`abort = "kill"`);
- under `"slow"`, an answer that arrives after its timeout is read by the next
  action, so `QuietBetweenActions` does not hold there;
- `CaptureIo`: a cancel that locks the request, at first or again after the driver's
  routine (request.c:248, 261), may find it freed (`fault = "cancel"`);
  two threads that clean one OVERLAPPED up both read its pointer before one clears it
  (io.c:141, `"twice"`); a callback set after the capture was collected
  (`"set_callback"`); the callback that runs under the result's mutex (`"reentrance"`,
  the same as in `TudorHost`); a driver that answers while its cancel routine did so
  already (`"answered_twice"`);
- `WdfObjects`: an object freed between publishing its action and linking it
  (evtqueue.c:57-63, `"evtqueue_race"`); a failed reopen frees the pipeline, and closing
  the device then uses it (`"reopen"`, cli.c:110); a start-up callback of the driver that
  fails aborts the process (`"abort"`);
- `HidChannel`: the reader still touches an operation it completed when its owner has
  collected it (io.c:125, `freed`): unlike in `CaptureIo` no lock keeps the owner
  waiting;
- `CliSession`: pairing data is in memory only until exit, so a crash before that
  forgets it; a crash while saving leaves part of the file, and so loses what was saved
  before (main.c:252);
- `CliSession`: the tool opens the device again after every enrollment (cli.c:107-113), which
  frees the record list, so the data store it saves then has no records, neither the new one
  nor those of earlier sessions; `src/cli/README.md:12` says that the file is there to keep
  enrollment records, and `src/README.md:53` that the device is not reopened after an
  enrollment. One enrollment in one session shows it; `RecordsKept` says that only this and a
  torn save lose records;
- `WdfObjects`: a driver that is unloaded while its device still stands destroys the queues
  through `wdf_remove_device_queue`, whose loop reads the `next` of the node it has freed
  (device.c:233-241, `"queue_node"`);
- `HidChannel`: a 'wait event' that fails after an 'end event' that failed closes the filter
  of a sensor that still sends events (hiddll.c:419);
- `HidInterfaces`: the test for siblings compares the first directories of relative
  links, which are always alike (hidraw_detect.c:224), so with two sensors the partner
  found may be another one's; `DetectSound` asks about one sensor;
- `DllImage`: lookup entries are read with 32 bits (import.c:63), so an ordinal import
  is taken for a name at a small address and gets the stub of an unresolved one instead
  of `ord_stub`; both abort when called. `load_dll` ignores the result of `pe_parse`
  (loader.c:133), an export without a name would be copied with `strdup(NULL)`
  (loader.c:237), and `find_dll_export` aborts rather than return NULL, so the warning
  of driver.c:152 cannot be reached. The fixed pair of DLLs meets none of these.

### Fairness

- Launcher: `WF` of reaping each pid and of dispatching child watches. SIGCHLD is
  delivered and the GLib main loop serves ready sources. Clients owe nothing.
- Host: `WF` of booting, opening, closing and setting a callback: these run
  without waiting for anyone but the DLL and the reader of the socket. `SF` of
  handling a message: the handler lock is free again and again while captures
  follow each other, and the thread that waits for it gets it in the end; without
  it a host that captures in a loop could starve the CANCEL that should stop it. `WF` of
  the rest of a callback after its commit.
  `WF` of a capture's end only once it is cancelled: nobody guarantees a finger.
- Module: `WF` of each kind of source of the main loop, timers included.
- Captures: `WF` of the client and of a completion in progress: nothing but a lock or
  an event keeps them waiting. `SF` of the callback thread, which competes for locks
  that are free again and again, and of a driver that was told to cancel.
- WDF objects: `WF` of the main thread inside a close, an unload or a flush, and of the
  DLL's thread inside `wdf_evtqueue_enqueue`. Nobody has to open, close or create.
- HID channel: `WF` of the reader (its waits have timeouts) and of the join in
  `hid_file_destroy`. The sensor owes nothing.

## 4. Proofs

Every theorem is of the form `Spec => []Inv`, `Spec => [][A]_vars` or `Spec =>
Abstract!Spec`, and holds for every value of the constants that satisfies the named
assumption of its module (`LauncherAssumption`, ...) and what its own `ASSUME` says. An
assumption on a constant that switches a behaviour off is there because the code does
not keep the property with that behaviour; section 3 says how it fails.

`HostLauncherProofs`. `TypeOK`, `UniquePath`, `OrphansAlive`, `NoLeakedHost` and
`DeathAnnounced`, with and without pid reuse. The inductive invariant `IInv` adds that
every id in the table, in a signal, of a process and of a pending watch is below
`next_host_id`, that ids in the table are unique, that a process belongs to one
host and that a child that was waited for has left the process table: without
these a child watch could mark a newer host dead. `TableInv(hs, run)` is the part about
the table, stated of any table, so that the lemmas on removal (`RemoveEntry`),
appending (`SpawnEntry`) and changing a flag (`SetOrphan`) serve LaunchHost over
an orphan, which removes and appends in one step, as well as the others.
For `PidReuse = FALSE`, also `AssertionsHold` and `KillsOnlyItsHost`: both rest on
`PidsAgree`, that entries, processes and undispatched watches with one pid are of one
host. With reuse the assertion of launch.c:97 can fail.

In the same module, `ImplementsSlots`, with and without pid reuse: a removal, an append
and a changed flag of the table change one slot (`MapOf`), whatever the order of the
entries; what the clients are told and what the child watches do are steps of
`HostSlots` or stutter. `IInv` is the invariant it needs: distinct paths make the slot of
a path well defined, fresh ids make a launch issue a new one.

`HostAnyClientProofs`. `CapturesWhileEnrolling` for every value of the constants, and
`EnrollingInAction` and `ClosesIdle` for `DiscardFails = FALSE` (with a failing discard
the driver can be left enrolling). `ControlInv` ties `enrolling` to the
capture in both directions and says that outside of the loop there is no capture.
`HostTypeOK` and `DoneIsStored` for any client and any failures: the types need that
the record of an enrollment under way is a record (`HostInv`), and `DoneIsStored` that
the record just committed is on the sensor until the answer is sent, since the lock keeps
every request of the client waiting (`hpc = "committed"`).

`TudorSystemProofs`. `KnowsItsHost` and `InhibitsSleep` in full generality: cancels,
suspends, crashes, timeouts, failing assertions, restarts of fprintd. `DevInv` adds what
the suspend path relies on: a suspend that waits without an inhibitor of its own finds
the device's or a close (`SleepInv`), and fprintd does not end an exit with a host
(`ExitInv`). Each step of the module is shown to leave the device alone, to take a host or
to give it back, so the proof has a few kinds of step instead of one per callback.
`StrandsNoHost`, in the same generality: from a state in which module and launcher agree on
the host, a step leads to one in which they do not only if an assertion takes fprintd down or
an open loses the descriptor of the host it started. `HoldsItsHost`, that they always agree,
for `MaxSleeps = 0` and `"no_fd" \notin Events`: then no assertion fails (`CalmInv`); with
two suspends one does.

In the same module, the conversation of module and host, with hosts that crash and an
fprintd that exits at any time, for any number of hosts, records and queued messages:
`QuietBetweenActions`, `ProtocolKept` (for `DiscardFails = FALSE`) and
`EnrolledIsStored`. All three assume `Undisturbed`: no cancels, no suspends, no answers
later than their timeout, no lost descriptors. With cancels or late answers answers shift by one action and the properties are
false (`system_cancel_enroll`, and the list in section 3). `EnrolledIsStored` is in
no passing run: without cancels no answer of another enrollment can be under way, which the
theorem shows for all bounds, and with them it is violated. The messages carry no action
identifier, so the invariant has to say whose turn it is: `TalkInv` lists the phases of
the conversation (opening, initialising, asking, capturing, resting) and in each what may
be on the way in both directions, where the host is and what the module waits for.
`DeathInv` and `RecvInv` say what of this survives a death or an exit; `EnrollInv` follows
one record from the request to the sensor and back.

`CaptureIoProofs`. `CaptureSound`, `CallbackOnce` and the refinement of `AsyncResult`,
for every interleaving of the three threads. `CaptureInv` says who holds the
request's lock (`ComplInv`), that request and operation live and die together and when
they have which status (`RequestInv`), when the answer has been copied (`CopyInv`), which
thread may free (`CleanupInv`), that nobody knows of an operation being set up
(`SetupInv`), and that a callback set and a callback told exclude each other (`ToldInv`).
As in the runs, behaviours end at a recorded fault; that the completing thread causes none
is part of what is proved.

`HidChannelProofs`. `ChannelSound` and `NoEventDropped`, for any number of reads and
reports, with 'end event' failing or not: after one that failed (`unended`) nothing is claimed
of events until one comes through. The reads that are to be completed are the one served, the ones
being cancelled and the queue, each increasing and each below the next (`OrderInv`);
an event is in the buffer only while the sensor is armed or a drain runs (`EventInv`); the
context is freed only once the reader has left (`LifeInv`).

`WdfObjectsProofs`. `ObjectsSound` and `QueuesStopFirst`, for any queues and objects of
the driver, any number of queued actions and of opens. The destructors nest, and each is
cut into frames between which other threads publish actions, so `WdfInv` describes the
stack: a frame lies under another only if it is a later part of the same destructor or
belongs to one that may have called it (`Under`, `Callers`), hence no object is destroyed
twice and every object with a frame left (`Doomed`) is still allocated (`StackInv`).
`PlaceInv` says which objects can be doomed where the main thread is, `TreeInv` ties
parents, children and the objects allocated together while some of them are half taken
apart. `QueueInv` has what `QueuesStopFirst` rests on and no single function of the code
shows: queues precede their device among the driver's children, so that an unload reaches
them first. `ObjectsSound` includes `KnownUses`: each of the three recorded uses of freed
memory occurs only at its place, and no other occurs at all. `EventInv` says that the
actions of an object have one order in its own list and in the queue, and `LinkInv` that
the one being linked is the first of its object in the queue: a flush sets the object's list to what follows the action taken
(evtqueue.c:30), which would lose actions if the lists disagreed.
That a free cell of the queue has a lowest one follows from `WFMin` of
WellFoundedInduction: a least element exists for a formula written out, without
induction over an operator.

`CliSessionProofs`. `SessionSound`, `PairingKept` and `RecordsKept`, for any records,
nodes, names and values, any number of sessions and commands, and a crash at any moment.
The record store is described by the list it stands for: `Listed(d, l)` says that the heap
`d` links exactly the nodes of `l`, forwards and backwards, `Found(d, m)` the same of the
chain of results, and `Store(d)` that there are such lists. One lemma per function of
storage.c says what it makes of them (`PushListed`, `UnlinkListed`, `QueryIs`, `AddRecord`,
`DeleteRecord`, `Enumerate`). The data store is described likewise: `FileIs(items, pd, rs)`
says that a file is the pairing data `pd` and the records `rs`, or a part of that from the
start, and every such part is again one (`PartOfFile`), which is what a crash in the middle
of a save needs. `Keeps(recs, know)` is what `RecordsKept` says of a list: no record that is
not known, and while the knowledge is exact, every one. `Agrees(pd, know)` says that the
pairing data hold what is known and each name once: only because of the latter does it not matter that a load turns the list round.
`SInv` ties the four together: until the records are loaded what a session knows of them is
what the file holds (`Records`), the file holds what is durable except while it is written
(`Disk`), and then what was written is the start of a file that holds what the session
knows (`Writing`).
The loops of the code are recursive functions over the number of turns. What they return is
proved by induction over a set (`Upto`), which needs no operator as a parameter and follows
from `WFMin`; that such a function exists at all, by `StepsExist`.

`TransportProofs`. `EveryCopy` says of any DLL with disjoint sections that
`pe_copy_mem` and `pe_peek_mem_i8` agree with its file (`CopySound`, the first half of
`ImageSound`). The loop over the sections clips each three ways, and `CopyRange` shows that
what is left is exactly where the section has data (`InFile`).

Only model-checked:
- liveness (`DeathNoticed`, `CancelEndsAction`, `DeathEndsAction`, `CloseEnds`,
  `SentCancelEnds`, `CompletionArrives`, `CancelledCaptureEnds`, `TeardownEnds`,
  `CloseReturns`), which is out of the prover's reach;
- what detection and loading compute (`InterfacesSound`, `LoadSound`): they are built from
  folds and flattened sequences of the community modules, whose recursion the provers cannot
  unfold, and say what becomes of concrete descriptors and images.

## 5. Not modelled, and the plan

Of the remaining work, a launcher that restarts, in `TudorSystem`, would say most.

Left out:
- cryptography (`bcrypt/`, `crypt/`): calls into OpenSSL whose content is numeric;
- the sandbox: system calls without state of their own;
- critical sections, semaphores, threads and FLS (`sync.c`, `thread.c`): used by the
  closed DLL only, in a way the repository does not show;
- the launcher's pairing data store (`pdata.c`): nothing in the repository calls it;
- `usb.c` and `src/cli/src/hidraw_detect.c`: not compiled; and `hid.c`, its USB objects and
  its framing of commands and answers, which are never reached because
  `WdfUsbTargetDeviceCreate` fails on purpose (hid.c:351-362);
- registry values other than pairing data, SetupAPI, strings, user32, log: constants
  and conversions for the DLL;
- PE headers, the bounds checks of the directories and their 32-bit branches: they
  decide only whether two fixed DLLs are accepted.
