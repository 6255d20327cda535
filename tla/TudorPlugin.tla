---------------------------- MODULE TudorPlugin ----------------------------
(***************************************************************************)
(* The libfprint TOD module (libfprint-tod/src) inside fprintd.  It runs   *)
(* on one GLib main loop, so each callback is one action.  At most one     *)
(* libfprint action and at most one receive from the host are pending.     *)
(*                                                                         *)
(* External: libfprint (starts actions, cancels them, forgets the action   *)
(* on its completion and ignores the completion of another action), GLib   *)
(* (g_cancellable_connect on a cancelled cancellable calls back at once    *)
(* and returns 0; a receive gets its timeout when it is created), logind's *)
(* PrepareForSleep, and the launcher, taken by what it promises:           *)
(* HostSlots.  No host is ever orphaned by this code (both callers of      *)
(* close_device pass false), so AdoptHost always finds none.               *)
(***************************************************************************)
EXTENDS IpcLink, FiniteSets

CONSTANTS MaxId,       \* how many hosts the launcher starts
          MaxCancels,  \* bound on cancelled actions
          MaxSleeps,   \* bound on PrepareForSleep signals
          Events       \* what else happens: a subset of AllEvents

(* A crash of the host, a host slower than the timeouts, the exit of       *)
(* fprintd, and a reply of the launcher whose descriptor cannot be taken.  *)
AllEvents == {"crash", "slow", "exit", "no_fd"}

ASSUME PluginAssumption == /\ MaxId \in Nat \ {0}
                           /\ MaxCancels \in Nat /\ MaxSleeps \in Nat
                           /\ Events \subseteq AllEvents

VARIABLES slot, issued, signals, reply,   \* the launcher: see HostSlots
          heard,         \* HostDied signals the main loop has dispatched
          action,        \* the libfprint action under way, or "none"
          outcome,       \* how the last one ended
          userCancelled, \* its cancellable is cancelled
          cancels,       \* cancellations so far
          isOpen,        \* libfprint has the device open
          probed,        \* "no", "yes" or "failed"
          exiting,       \* ensure_closed has been called
          cbCalled,      \* its cb_called, TRUE also if there was nothing to wait for
          prints,        \* prints enrolled and not deleted, as fprintd knows them
          guids,         \* records whose GUID has been generated
          inOpen,        \* open_device has started a host and calls init_host_proc
          recv,          \* the pending receive
          gallery,       \* the prints the action is about
          adding,        \* the one load_record is adding to the host
          db,            \* db_records: the mirror of the host's records
          hasId, hostId, hostDead,
          sock,          \* ipc_socket is not NULL
          cancelHandler, \* cancel_handler_id is not 0
          hasCanceled,
          closeTask,     \* close_task: "none", or who waits for it
          closeTimeout,  \* close_timeout_src is not NULL
          closeInhib,    \* suspend_close_cb was given a valid fd
          inhib,         \* host_sleep_inhib >= 0
          sus,           \* suspend_cancel_params of a suspend that waits for an action
          sleeps,        \* PrepareForSleep signals so far
          abort          \* the assertion that failed and took fprintd down

Launcher == INSTANCE HostSlots WITH Paths <- {"hidraw"}
launcherVars == <<slot, issued, signals, reply>>

libVars    == <<isOpen, probed, exiting, cbCalled, prints>>
actionVars == <<action, outcome, userCancelled, recv, gallery, adding, cancelHandler, hasCanceled>>
devVars    == <<inOpen, db, hasId, hostId, hostDead, sock>>
closeVars  == <<closeTask, closeTimeout, closeInhib>>
sleepVars  == <<inhib, sus>>
pluginVars == <<launcherVars, heard, libVars, actionVars, devVars, closeVars, sleepVars,
                guids, cancels, sleeps, abort>>

Nothing     == "no_record"
NoRecv      == [on |-> "none", stale |-> FALSE, cancelled |-> FALSE]
Receive(on) == [NoRecv EXCEPT !.on = on]
NoSuspend   == [waiting |-> FALSE, inhib |-> FALSE, timeout |-> FALSE]

(* fpi_device_tudor_init in a new fprintd; the launcher's state and the    *)
(* prints fprintd has on disk are older than that.                         *)
PluginStarts ==
    /\ action' = "none" /\ outcome' = "none" /\ userCancelled' = FALSE
    /\ isOpen' = FALSE /\ probed' = "no" /\ exiting' = FALSE /\ cbCalled' = FALSE
    /\ inOpen' = FALSE /\ recv' = NoRecv /\ gallery' = {} /\ adding' = Nothing /\ db' = {}
    /\ hasId' = FALSE /\ hostId' = 0 /\ hostDead' = FALSE /\ sock' = FALSE
    /\ cancelHandler' = FALSE /\ hasCanceled' = FALSE
    /\ closeTask' = "none" /\ closeTimeout' = FALSE /\ closeInhib' = FALSE
    /\ inhib' = FALSE /\ sus' = NoSuspend
    /\ heard' = Len(signals)
    /\ abort' = "none"
    /\ UNCHANGED <<launcherVars, prints, guids, cancels, sleeps, toHost, toPlugin, proc>>

PluginInit ==
    /\ Launcher!Init
    /\ heard = 0
    /\ action = "none" /\ outcome = "none" /\ userCancelled = FALSE
    /\ isOpen = FALSE /\ probed = "no" /\ exiting = FALSE /\ cbCalled = FALSE
    /\ inOpen = FALSE /\ recv = NoRecv /\ gallery = {} /\ adding = Nothing /\ db = {}
    /\ hasId = FALSE /\ hostId = 0 /\ hostDead = FALSE /\ sock = FALSE
    /\ cancelHandler = FALSE /\ hasCanceled = FALSE
    /\ closeTask = "none" /\ closeTimeout = FALSE /\ closeInhib = FALSE
    /\ inhib = FALSE /\ sus = NoSuspend
    /\ prints = {} /\ guids = {} /\ cancels = 0 /\ sleeps = 0 /\ abort = "none"

-----------------------------------------------------------------------------
(* check_host_proc_dead is the negation of this. *)
HostUsable == hasId /\ ~hostDead

(* send_ipc_msg succeeds; to a dead process sendmsg fails. *)
CanSend == HostUsable /\ sock /\ proc \in {"spawned", "running"}

(* What libfprint still has under way when action a reports an error:      *)
(* delete_acked_cb completes clear_storage instead, which libfprint        *)
(* ignores.                                                                *)
AfterError(a) == IF a = "delete" THEN a ELSE "none"

(* The current action ends; free_*_params drops the cancel handler. *)
Completes(res) ==
    /\ action' = (IF res = "ok" THEN "none" ELSE AfterError(action))
    /\ outcome' = res
    /\ recv' = NoRecv
    /\ cancelHandler' = FALSE
    /\ UNCHANGED <<userCancelled, gallery, adding, hasCanceled>>

(* A message is sent as the next step of action a, and a receive for "on"  *)
(* follows; a failed send ends the action.                                 *)
Asks(a, m, on) ==
    \/ /\ CanSend
       /\ PluginSends(m)
       /\ action' = a /\ outcome' = "none"
       /\ recv' = Receive(on)
    \/ /\ ~CanSend
       /\ action' = AfterError(a) /\ outcome' = "error"
       /\ recv' = NoRecv
       /\ UNCHANGED toHost

(* kill_host_process: the launcher frees the slot and kills the process. *)
KillHost == Launcher!Kill(hostId) /\ proc' = "none"

(* dispose_dev.  A receive that is still pending keeps the old socket.  A  *)
(* close task that is still there is dropped, not returned.                *)
ClearDev ==
    /\ hasId' = FALSE /\ sock' = FALSE /\ db' = {}
    /\ inhib' = FALSE
    /\ closeTimeout' = FALSE /\ closeTask' = "none"
    /\ inOpen' = FALSE
    /\ UNCHANGED hostId

(* Mutant: a host known to be dead is not given back to the launcher. *)
mut_dispose_dev == /\ IF HostUsable THEN KillHost ELSE UNCHANGED <<launcherVars, proc>>
                   /\ ClearDev

dispose_dev == /\ IF hasId THEN KillHost ELSE UNCHANGED <<launcherVars, proc>>
               /\ ClearDev

StaleRecv == IF recv.on = "none" THEN recv ELSE [recv EXCEPT !.stale = TRUE]

-----------------------------------------------------------------------------
(* Probing and opening the device. *)

(* The loop of fprintd runs and libfprint has no action under way. *)
Idle == ~inOpen /\ ~exiting /\ action = "none"

(* What the end of open_device with an error means for action a. *)
OpenFailed(a) ==
    /\ action' = "none" /\ outcome' = "error"
    /\ recv' = NoRecv
    /\ probed' = IF a = "probe" THEN "failed" ELSE probed
    /\ UNCHANGED <<isOpen, exiting, cbCalled, prints, userCancelled, gallery, adding, cancelHandler,
                   hasCanceled>>

(* start_host_process cannot take the descriptor from the launcher's reply *)
(* (ipc.c:274-276): host_id is set and host_has_id is not, so dispose_dev  *)
(* leaves the host that was started alone.                                 *)
NoDescriptor(a) ==
    /\ "no_fd" \in Events
    /\ reply'.res = "ok"
    /\ OpenFailed(a)
    /\ hostId' = reply'.id
    /\ hasId' = FALSE /\ sock' = FALSE /\ db' = {} /\ inhib' = FALSE /\ inOpen' = FALSE
    /\ closeTimeout' = FALSE /\ closeTask' = "none"
    /\ proc' = "spawned" /\ toHost' = <<>> /\ toPlugin' = <<>>
    /\ UNCHANGED hostDead

(* The D-Bus calls up to LaunchHost.  AdoptHost finds no orphan. *)
open_device(a) ==
    /\ ~hasId
    /\ Launcher!Launch("hidraw")
    /\ \/ /\ reply'.res = "ok"
          /\ hasId' = TRUE /\ hostId' = reply'.id /\ hostDead' = FALSE
          /\ sock' = TRUE /\ inhib' = TRUE
          /\ inOpen' = TRUE
          /\ proc' = "spawned" /\ toHost' = <<>> /\ toPlugin' = <<>>
          /\ action' = a /\ outcome' = "none"
          /\ UNCHANGED <<libVars, userCancelled, recv, gallery, adding, cancelHandler, hasCanceled, db,
                         closeTask, closeTimeout>>
       \/ /\ reply'.res # "ok"
          /\ OpenFailed(a)
          /\ ClearDev
          /\ UNCHANGED <<hostDead, ipcVars>>
       \/ NoDescriptor(a)
    /\ UNCHANGED <<heard, closeInhib, sus, guids, cancels, sleeps, abort>>

fpi_device_tudor_probe == Idle /\ probed = "no" /\ open_device("probe")

(* open_device with a host that is there already has nothing to do. *)
fpi_device_tudor_open ==
    /\ Idle /\ probed = "yes" /\ ~isOpen
    /\ \/ open_device("open")
       \/ /\ hasId
          /\ isOpen' = TRUE
          /\ outcome' = "ok"
          /\ UNCHANGED <<ipcVars, launcherVars, heard, probed, exiting, cbCalled, prints, action,
                         userCancelled, recv, gallery, adding, cancelHandler, hasCanceled, devVars, closeVars,
                         sleepVars, guids, cancels, sleeps, abort>>

fpi_device_tudor_close ==
    /\ Idle /\ isOpen
    /\ isOpen' = FALSE
    /\ UNCHANGED <<ipcVars, launcherVars, heard, probed, exiting, cbCalled, prints, actionVars, devVars,
                   closeVars, sleepVars, guids, cancels, sleeps, abort>>

(* The second half of open_device: INIT with the hidraw channels.  Opening *)
(* the command channel or sending may fail.                                *)
init_host_proc ==
    /\ inOpen
    /\ \/ /\ CanSend
          /\ PluginSends(Plain("INIT"))
          /\ inOpen' = FALSE
          /\ recv' = Receive("init")
          /\ UNCHANGED <<launcherVars, libVars, action, outcome, userCancelled, gallery, adding,
                         cancelHandler, hasCanceled, db, hasId, hostId, sock, closeTask, closeTimeout,
                         inhib, proc>>
       \/ /\ OpenFailed(action)
          /\ dispose_dev
          /\ UNCHANGED toHost
    /\ UNCHANGED <<toPlugin, heard, hostDead, closeInhib, sus, guids, cancels, sleeps, abort>>

-----------------------------------------------------------------------------
(* libfprint's actions on the open device.  A dead host is reported before *)
(* anything else; prints are valid prints of this driver.                  *)
ActionRejected ==
    /\ ~HostUsable
    /\ outcome' = "error"
    /\ UNCHANGED <<ipcVars, action, userCancelled, recv, gallery, adding, cancelHandler, hasCanceled>>

ActionAsks(a, ps, m, on) ==
    /\ HostUsable
    /\ Asks(a, m, on)
    /\ userCancelled' = FALSE
    /\ gallery' = ps
    /\ UNCHANGED <<toPlugin, proc, cancelHandler, hasCanceled>>

StartMsg(a, ps) ==
    IF a = "identify" THEN Plain("IDENTIFY")
    ELSE Msg(IF a = "enroll" THEN "ENROLL" ELSE "VERIFY", CHOOSE r \in ps : TRUE)

(* load_record for each print the host does not have, then the capture. *)
LoadOrStart(a, ps, loaded) ==
    \/ /\ ps \subseteq loaded
       /\ Asks(a, StartMsg(a, ps), "start")
       /\ adding' = Nothing
    \/ \E r \in ps \ loaded : Asks(a, Msg("ADD_RECORD", r), "add") /\ adding' = r

StartAction ==
    /\ Idle /\ isOpen
    /\ UNCHANGED <<launcherVars, heard, libVars, devVars, closeVars, sleepVars, cancels, sleeps, abort>>

(* The GUID of a new print is fresh. *)
fpi_device_tudor_enroll ==
    /\ StartAction
    /\ \/ ActionRejected /\ UNCHANGED guids
       \/ \E r \in Records \ guids :
             /\ ActionAsks("enroll", {r}, StartMsg("enroll", {r}), "start")
             /\ guids' = guids \cup {r}
             /\ UNCHANGED adding

StartIdentification(a, ps) ==
    /\ HostUsable
    /\ LoadOrStart(a, ps, db)
    /\ userCancelled' = FALSE
    /\ gallery' = ps
    /\ UNCHANGED <<toPlugin, proc, cancelHandler, hasCanceled>>

fpi_device_tudor_verify ==
    /\ StartAction /\ UNCHANGED guids
    /\ ActionRejected \/ \E r \in prints : StartIdentification("verify", {r})

fpi_device_tudor_identify ==
    /\ StartAction /\ UNCHANGED guids
    /\ ActionRejected \/ StartIdentification("identify", prints)

fpi_device_tudor_delete ==
    /\ StartAction /\ UNCHANGED guids
    /\ \/ ActionRejected
       \/ \E r \in prints : ActionAsks("delete", {r}, Msg("DEL_RECORD", r), "del") /\ UNCHANGED adding

fpi_device_clear_storage ==
    /\ StartAction /\ UNCHANGED guids
    /\ \/ ActionRejected
       \/ ActionAsks("clear", prints, Plain("CLEAR_RECORDS"), "clear") /\ UNCHANGED adding

-----------------------------------------------------------------------------
(* Receiving: sock_ready and the callbacks it leads to. *)
RecvReady == recv.on # "none" /\ (recv.cancelled \/ (~recv.stale /\ toPlugin # <<>>))

PluginConsume == toPlugin # <<>> /\ toPlugin' = Tail(toPlugin)

(* A receive ends in an error: the host is dead, or the receive was        *)
(* cancelled or timed out.  init_recv_cb gives the host up; a failed probe *)
(* makes libfprint drop the device.                                        *)
RecvFails ==
    /\ Completes("error")
    /\ \/ recv.on = "init" /\ dispose_dev
       \/ /\ recv.on # "init"
          /\ UNCHANGED <<launcherVars, proc, inOpen, db, hasId, hostId, sock, closeTask, closeTimeout, inhib>>
    /\ probed' = IF action = "probe" THEN "failed" ELSE probed
    /\ UNCHANGED <<toHost, toPlugin, heard, isOpen, exiting, cbCalled, prints, hostDead, closeInhib,
                   sus, guids, cancels, sleeps, abort>>

RecvError == RecvReady /\ (recv.cancelled \/ ~HostUsable) /\ RecvFails

(* The 25 s of a receive pass.  A live host answers in time unless "slow". *)
RecvTimeout ==
    /\ recv.on \notin {"none", "resp"} /\ ~RecvReady
    /\ "slow" \in Events \/ recv.stale \/ proc \in {"none", "dead"}
    /\ RecvFails

(* The callback of each kind of receive, given message m. *)
Unexpected == Completes("protocol") /\ UNCHANGED <<toHost, prints, db, isOpen, probed>>

InitFails ==
    /\ Completes("error")
    /\ dispose_dev
    /\ probed' = IF action = "probe" THEN "failed" ELSE probed
    /\ UNCHANGED <<toHost, isOpen, prints>>

KeepDev == UNCHANGED <<launcherVars, proc, inOpen, hasId, hostId, sock, closeTask, closeTimeout, inhib>>

(* load_pdata and store_pdata ask the launcher and may fail; READY ends    *)
(* open_device, and a probe goes on with PROBE.                            *)
init_recv_cb(m) ==
    \/ /\ m.type \in {"LOAD_PDATA", "STORE_PDATA"}
       /\ Asks(action, Plain(IF m.type = "LOAD_PDATA" THEN "RESP_LOAD_PDATA" ELSE "ACK"), "init")
       /\ CanSend
       /\ KeepDev
       /\ UNCHANGED <<userCancelled, gallery, adding, cancelHandler, hasCanceled, isOpen, probed, prints, db>>
    \/ /\ m.type \in {"LOAD_PDATA", "STORE_PDATA"}
       /\ InitFails
    \/ /\ m.type = "READY" /\ action = "open"
       /\ Completes("ok")
       /\ isOpen' = TRUE
       /\ KeepDev
       /\ UNCHANGED <<toHost, probed, prints, db>>
    \/ /\ m.type = "READY" /\ action = "probe"
       /\ Asks("probe", Plain("PROBE"), "probe")
       /\ probed' = IF CanSend THEN probed ELSE "failed"
       /\ KeepDev
       /\ UNCHANGED <<userCancelled, gallery, adding, cancelHandler, hasCanceled, isOpen, prints, db>>
    \/ /\ m.type \notin {"LOAD_PDATA", "STORE_PDATA", "READY"}
       /\ InitFails

probe_recv_cb(m) ==
    /\ Completes(IF m.type = "RESP_PROBE" THEN "ok" ELSE "protocol")
    /\ probed' = IF m.type = "RESP_PROBE" THEN "yes" ELSE "failed"
    /\ UNCHANGED <<toHost, isOpen, prints, db>>

load_rec_acked_cb(m) ==
    \/ /\ m.type = "ACK"
       /\ db' = db \cup {adding}
       /\ LoadOrStart(action, gallery, db')
       /\ UNCHANGED <<userCancelled, gallery, cancelHandler, hasCanceled, isOpen, probed, prints>>
    \/ m.type # "ACK" /\ Unexpected

(* The capture has started.  register_cancel_handler:                      *)
(* g_cancellable_connect on a cancellable that is cancelled calls          *)
(* cancel_cb while cancel_handler_id is still 0, and returns 0.            *)
StartAcked(m) ==
    \/ /\ m.type = "ACK"
       /\ hasCanceled' = FALSE
       /\ cancelHandler' = ~userCancelled
       /\ recv' = Receive("resp")
       /\ UNCHANGED <<action, outcome, userCancelled, gallery, adding, toHost, isOpen, probed, prints, db>>
    \/ m.type # "ACK" /\ Unexpected

enroll_start_acked_cb(m) == action = "enroll" /\ StartAcked(m)
verify_acked_cb(m)       == action = "verify" /\ StartAcked(m)
identify_acked_cb(m)     == action = "identify" /\ StartAcked(m)

handle_cancel_ack ==
    /\ Completes(IF hasCanceled THEN "cancelled" ELSE "unexpected_ack")
    /\ UNCHANGED <<toHost, isOpen, probed, prints, db>>

(* Mutant: a retry ends the enrollment, as it does in verify_recv_cb. *)
mut_enroll_recv_cb(m) ==
    /\ Completes("ok")
    /\ db' = IF m.arg = "done" THEN db \cup gallery ELSE db
    /\ prints' = IF m.arg = "done" THEN prints \cup gallery ELSE prints
    /\ UNCHANGED <<toHost, isOpen, probed>>

enroll_recv_cb(m) ==
    \/ /\ m.arg \in {"retry", "more"}
       /\ recv' = Receive("resp")
       /\ UNCHANGED <<action, outcome, userCancelled, gallery, adding, cancelHandler, hasCanceled,
                      toHost, isOpen, probed, prints, db>>
    \/ /\ m.arg = "duplicate"
       /\ Completes("duplicate")
       /\ UNCHANGED <<toHost, isOpen, probed, prints, db>>
    \/ /\ m.arg = "done"
       /\ Completes("ok")
       /\ db' = db \cup gallery
       /\ prints' = prints \cup gallery
       /\ UNCHANGED <<toHost, isOpen, probed>>

(* Verify and identify report one result, a retry included, and end. *)
ReportsResult == Completes("ok") /\ UNCHANGED <<toHost, isOpen, probed, prints, db>>

verify_recv_cb(m)   == m.type = "RESP_VERIFY" /\ action = "verify" /\ ReportsResult
identify_recv_cb(m) == m.type = "RESP_IDENTIFY" /\ action = "identify" /\ ReportsResult

(* What the three callbacks have in common. *)
RespReceived(m) ==
    \/ m.type = "ACK" /\ handle_cancel_ack
    \/ m.type = "RESP_ENROLL" /\ action = "enroll" /\ enroll_recv_cb(m)
    \/ verify_recv_cb(m)
    \/ identify_recv_cb(m)
    \/ /\ <<m.type, action>> \notin {<<"ACK", action>>, <<"RESP_ENROLL", "enroll">>,
                                     <<"RESP_VERIFY", "verify">>, <<"RESP_IDENTIFY", "identify">>}
       /\ Unexpected

(* ack_recv_cb hands on an ACK; fprintd then forgets the prints. *)
Removed(m, rest) ==
    \/ /\ m.type = "ACK"
       /\ Completes("ok")
       /\ db' = rest
       /\ prints' = prints \ gallery
       /\ UNCHANGED <<toHost, isOpen, probed>>
    \/ m.type # "ACK" /\ Unexpected

delete_acked_cb(m)        == Removed(m, db \ gallery)
clear_storage_acked_cb(m) == Removed(m, {})

sock_ready ==
    /\ RecvReady /\ ~recv.cancelled /\ HostUsable
    /\ PluginConsume
    /\ LET m == Head(toPlugin) IN
          \/ recv.on = "init" /\ init_recv_cb(m)
          \/ /\ \/ recv.on = "probe" /\ probe_recv_cb(m)
                \/ recv.on = "add" /\ load_rec_acked_cb(m)
                \/ recv.on = "start" /\ \/ enroll_start_acked_cb(m)
                                        \/ verify_acked_cb(m) \/ identify_acked_cb(m)
                \/ recv.on = "resp" /\ RespReceived(m)
                \/ recv.on = "del" /\ delete_acked_cb(m)
                \/ recv.on = "clear" /\ clear_storage_acked_cb(m)
             /\ KeepDev
    /\ UNCHANGED <<heard, exiting, cbCalled, hostDead, closeInhib, sus, guids, cancels, sleeps, abort>>

-----------------------------------------------------------------------------
(* Cancellation: invoke_cancel_handler, from the user or on suspend.  "Not *)
(* much we can do" if the send fails.                                      *)
invoke_cancel_handler ==
    \/ /\ cancelHandler /\ ~hasCanceled /\ CanSend
       /\ PluginSends(Plain("CANCEL"))
       /\ hasCanceled' = TRUE
    \/ /\ ~(cancelHandler /\ ~hasCanceled /\ CanSend)
       /\ UNCHANGED <<toHost, hasCanceled>>

UserCancels ==
    /\ action \in {"enroll", "verify", "identify"} /\ ~userCancelled
    /\ cancels < MaxCancels
    /\ cancels' = cancels + 1
    /\ userCancelled' = TRUE
    /\ invoke_cancel_handler
    /\ UNCHANGED <<toPlugin, proc, launcherVars, heard, libVars, action, outcome, recv, gallery, adding,
                   cancelHandler, devVars, closeVars, sleepVars, guids, sleeps, abort>>

-----------------------------------------------------------------------------
(* Closing.  The task's callback runs when the task returns: the one of a  *)
(* suspend closes the inhibitor it was given, and closing -1 fails an      *)
(* assertion; the one of an exit sets cb_called.                           *)
close_sleep_inhibitor(valid) == abort' = IF valid THEN abort ELSE "inhibitor"

TaskReturns(who, valid) ==
    /\ IF who = "suspend" THEN close_sleep_inhibitor(valid) ELSE UNCHANGED abort
    /\ cbCalled' = (cbCalled \/ who = "exit")

(* close_device with shutdown_host; "left" is what host_sleep_inhib is now. *)
close_device(who, valid, left) ==
    \/ /\ ~CanSend
       /\ dispose_dev
       /\ recv' = StaleRecv
       /\ TaskReturns(who, valid)
       /\ UNCHANGED <<toHost, closeInhib>>
    \/ /\ CanSend
       /\ PluginSends(Plain("SHUTDOWN"))
       /\ closeTask' = who /\ closeInhib' = valid
       /\ closeTimeout' = TRUE
       /\ abort' = IF closeTimeout THEN "close_timeout" ELSE abort
       /\ inhib' = left
       /\ UNCHANGED <<cbCalled, recv, launcherVars, proc, hasId, sock, db, inOpen, hostId>>

(* Mutant: the device is disposed, the task is not returned. *)
mut_CloseReturns ==
    /\ dispose_dev
    /\ UNCHANGED <<toHost, toPlugin, libVars, action, outcome, userCancelled, gallery, adding,
                   cancelHandler, hasCanceled, closeInhib, sus, guids, cancels, sleeps, abort>>

(* The close task returns and the device is disposed. *)
CloseReturns ==
    /\ TaskReturns(closeTask, closeInhib)
    /\ dispose_dev
    /\ UNCHANGED <<toHost, toPlugin, isOpen, probed, exiting, prints, action, outcome, userCancelled,
                   gallery, adding, cancelHandler, hasCanceled, closeInhib, sus, guids, cancels, sleeps>>

(* SHUTDOWN_TIMEOUT_SECS pass; a live host shuts down in time unless it is *)
(* "slow" or stuck in a send nobody reads.                                 *)
shutdown_timeout_cb ==
    /\ closeTimeout /\ closeTask # "none"
    /\ "slow" \in Events \/ proc \in {"none", "dead"} \/ Len(toPlugin) = QueueLen
    /\ CloseReturns
    /\ recv' = StaleRecv
    /\ UNCHANGED <<heard, hostDead>>

(* Mutant: the host is marked dead, but pending receives go on. *)
mut_host_died_signal_cb ==
    /\ heard < Len(signals)
    /\ heard' = heard + 1
    /\ hostDead' = (hostDead \/ hostId = signals[heard + 1])
    /\ UNCHANGED <<ipcVars, launcherVars, libVars, actionVars, inOpen, db, hasId, hostId, sock, closeVars,
                   sleepVars, guids, cancels, sleeps, abort>>

(* The HostDied signal.  Cancelling ipc_cancel makes a receive ready. *)
host_died_signal_cb ==
    /\ heard < Len(signals)
    /\ heard' = heard + 1
    /\ \/ /\ ~HostUsable \/ hostId # signals[heard + 1]
          /\ UNCHANGED <<ipcVars, launcherVars, libVars, actionVars, devVars, closeVars, sleepVars,
                         guids, cancels, sleeps, abort>>
       \/ /\ HostUsable /\ hostId = signals[heard + 1]
          /\ hostDead' = TRUE
          /\ recv' = IF recv.on = "none" THEN recv ELSE [recv EXCEPT !.cancelled = TRUE]
          /\ \/ closeTask # "none" /\ CloseReturns
             \/ /\ closeTask = "none"
                /\ UNCHANGED <<ipcVars, launcherVars, libVars, action, outcome, userCancelled, gallery,
                               adding, cancelHandler, hasCanceled, inOpen, db, hasId, hostId, sock,
                               closeVars, sleepVars, guids, cancels, sleeps, abort>>

-----------------------------------------------------------------------------
(* Suspend: logind's PrepareForSleep. *)
suspend_dev(valid, left) ==
    \/ HostUsable /\ close_device("suspend", valid, left)
    \/ /\ ~HostUsable
       /\ close_sleep_inhibitor(valid)
       /\ inhib' = left
       /\ UNCHANGED <<ipcVars, launcherVars, cbCalled, recv, inOpen, db, hasId, hostId, sock, closeVars>>

(* The D-Bus connection exists from the first open_device on; libfprint    *)
(* drops a device it could not probe.  A second signal while an earlier    *)
(* one still waits is left out.                                            *)
suspend_signal_cb ==
    /\ sleeps < MaxSleeps
    /\ probed = "yes" \/ action = "probe"
    /\ sleeps' = sleeps + 1
    /\ \/ /\ action # "none" /\ ~sus.waiting
          /\ invoke_cancel_handler
          /\ sus' = [waiting |-> TRUE, inhib |-> inhib, timeout |-> TRUE]
          /\ inhib' = FALSE
          /\ UNCHANGED <<proc, launcherVars, cbCalled, recv, devVars, closeVars, abort>>
       \/ /\ action = "none"
          /\ suspend_dev(inhib, FALSE)
          /\ UNCHANGED <<sus, hostDead, hasCanceled>>
    /\ UNCHANGED <<toPlugin, heard, isOpen, probed, exiting, prints, action, outcome, userCancelled,
                   gallery, adding, cancelHandler, guids, cancels>>

(* Mutant: the waiting suspend is forgotten when the action ends. *)
mut_suspend_monitor_cb ==
    /\ sus.waiting /\ action = "none"
    /\ sus' = NoSuspend
    /\ UNCHANGED <<ipcVars, launcherVars, heard, libVars, actionVars, devVars, closeVars, inhib,
                   guids, cancels, sleeps, abort>>

suspend_monitor_cb ==
    /\ sus.waiting /\ action = "none"
    /\ sus' = NoSuspend
    /\ \/ sus.inhib /\ suspend_dev(TRUE, inhib)
       \/ ~sus.inhib /\ UNCHANGED <<toHost, proc, launcherVars, cbCalled, recv, inOpen, db, hasId, hostId,
                                    sock, closeVars, inhib, abort>>
    /\ UNCHANGED <<toPlugin, heard, isOpen, probed, exiting, prints, action, outcome, userCancelled,
                   gallery, adding, cancelHandler, hasCanceled, hostDead, guids, cancels, sleeps>>

(* Mutant: the host is killed, its id is kept. *)
mut_suspend_timeout_cb ==
    /\ sus.waiting /\ sus.timeout
    /\ sus' = [sus EXCEPT !.timeout = FALSE]
    /\ hasId /\ KillHost
    /\ UNCHANGED <<toHost, toPlugin, heard, libVars, actionVars, devVars, closeVars, inhib,
                   guids, cancels, sleeps, abort>>

(* kill_host_process asserts host_has_id.  Nothing but the id is cleared. *)
suspend_timeout_cb ==
    /\ sus.waiting /\ sus.timeout
    /\ sus' = [sus EXCEPT !.timeout = FALSE]
    /\ \/ hasId /\ KillHost /\ hasId' = FALSE /\ UNCHANGED abort
       \/ ~hasId /\ abort' = "kill" /\ UNCHANGED <<launcherVars, proc, hasId>>
    /\ UNCHANGED <<toHost, toPlugin, heard, libVars, actionVars, inOpen, db, hostId, hostDead, sock,
                   closeVars, inhib, guids, cancels, sleeps>>

-----------------------------------------------------------------------------
(* The end of fprintd: the atexit hook, or libfprint dropping a device it  *)
(* could not probe, closes the device and runs the main loop until the     *)
(* callback of the close task has been called.                             *)
ensure_closed ==
    /\ ~exiting
    /\ "exit" \in Events \/ probed = "failed"
    /\ exiting' = TRUE
    /\ \/ hasId /\ close_device("exit", FALSE, inhib)
       \/ /\ ~hasId
          /\ cbCalled' = TRUE
          /\ UNCHANGED <<toHost, proc, launcherVars, recv, inOpen, db, hasId, hostId, sock, closeVars,
                         inhib, abort>>
    /\ UNCHANGED <<toPlugin, heard, isOpen, probed, prints, action, outcome, userCancelled, gallery, adding,
                   cancelHandler, hasCanceled, hostDead, sus, guids, cancels, sleeps>>

FprintdExits == exiting /\ cbCalled /\ PluginStarts

(* D-Bus starts fprintd again after an assertion took it down. *)
FprintdRestarts == abort # "none" /\ PluginStarts

-----------------------------------------------------------------------------
LibfprintCalls == \/ fpi_device_tudor_probe \/ fpi_device_tudor_open \/ fpi_device_tudor_close
                  \/ fpi_device_tudor_enroll \/ fpi_device_tudor_verify \/ fpi_device_tudor_identify
                  \/ fpi_device_tudor_delete \/ fpi_device_clear_storage
                  \/ UserCancels

MainLoop == /\ ~inOpen
            /\ \/ sock_ready \/ RecvError \/ RecvTimeout
               \/ host_died_signal_cb
               \/ shutdown_timeout_cb
               \/ suspend_monitor_cb \/ suspend_timeout_cb

PluginNext == \/ abort = "none" /\ (LibfprintCalls \/ init_host_proc \/ MainLoop)
              \/ abort = "none" /\ ~inOpen /\ (suspend_signal_cb \/ ensure_closed \/ FprintdExits)
              \/ FprintdRestarts

(* The main loop dispatches what is ready, and timers fire. *)
PluginFairness ==
    /\ WF_<<ipcVars, pluginVars>>(abort = "none" /\ init_host_proc)
    /\ WF_<<ipcVars, pluginVars>>(abort = "none" /\ ~inOpen /\ (sock_ready \/ RecvError \/ RecvTimeout))
    /\ WF_<<ipcVars, pluginVars>>(abort = "none" /\ ~inOpen /\ host_died_signal_cb)
    /\ WF_<<ipcVars, pluginVars>>(abort = "none" /\ ~inOpen /\ shutdown_timeout_cb)
    /\ WF_<<ipcVars, pluginVars>>(abort = "none" /\ ~inOpen /\ suspend_monitor_cb)
    /\ WF_<<ipcVars, pluginVars>>(abort = "none" /\ ~inOpen /\ suspend_timeout_cb)
    /\ WF_<<ipcVars, pluginVars>>(abort = "none" /\ ~inOpen /\ FprintdExits)

Aborts == {"none", "inhibitor", "close_timeout", "kill"}
Actions == {"none", "probe", "open", "enroll", "verify", "identify", "delete", "clear"}
Outcomes == {"none", "ok", "error", "protocol", "cancelled", "unexpected_ack", "duplicate"}

PluginTypeOK ==
    /\ slot \in [{"hidraw"} -> [id : 0..MaxId, st : {"free", "held", "orphan", "dead"}]]
    /\ issued \subseteq 1..MaxId
    /\ signals \in Seq(1..MaxId) /\ heard \in 0..Len(signals)
    /\ action \in Actions /\ outcome \in Outcomes
    /\ {userCancelled, isOpen, exiting, cbCalled, inOpen, hasId, hostDead, sock, cancelHandler, hasCanceled,
        closeTimeout, closeInhib, inhib} \subseteq BOOLEAN
    /\ probed \in {"no", "yes", "failed"}
    /\ recv \in [on : {"none", "init", "probe", "add", "start", "resp", "del", "clear"},
                 stale : BOOLEAN, cancelled : BOOLEAN]
    /\ gallery \subseteq Records /\ adding \in Records \cup {Nothing}
    /\ {db, prints, guids} \subseteq SUBSET Records
    /\ hostId \in 0..MaxId
    /\ closeTask \in {"none", "suspend", "exit"}
    /\ sus \in [waiting : BOOLEAN, inhib : BOOLEAN, timeout : BOOLEAN]
    /\ cancels \in 0..MaxCancels /\ sleeps \in 0..MaxSleeps
    /\ abort \in Aborts
=============================================================================
