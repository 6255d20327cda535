----------------------------- MODULE TudorHost -----------------------------
(***************************************************************************)
(* The tudor host process: main.c, the message handler of handler.c and    *)
(* the asynchronous captures of libtudor (async.c, device.c) it drives.    *)
(*                                                                         *)
(* One thread reads messages; a capture ends on a thread of its own.  Both *)
(* work under handler_state.lock, so handling a message or a callback is   *)
(* one action, with two exceptions, in which the lock stays held: between  *)
(* starting a capture and setting its callback the capture may already     *)
(* complete (hpc = "set_callback"), and between the commit of an           *)
(* enrollment and its answer the host may fail (hpc = "committed").        *)
(*                                                                         *)
(* The sensor driver DLL is external: it decides how a call or a capture   *)
(* ends.  Templates are kept by the DLL on the sensor (DLL storage), the   *)
(* host's own record list is then bookkeeping only and left out here.      *)
(***************************************************************************)
EXTENDS IpcLink

CONSTANTS MaxFails,      \* MAX_CONSECUTIVE_CAPTURE_FAILS
          EarlyCapture,  \* may a capture end before its callback is set?
          DiscardFails   \* may the DLL fail to discard an enrollment?

ASSUME HostAssumption == /\ MaxFails \in Nat
                         /\ EarlyCapture \in BOOLEAN
                         /\ DiscardFails \in BOOLEAN

VARIABLES hpc,          \* where the host is: see HostPcs
          asyncRes,     \* handler_state.async_res: "none", or how far the capture is
          actionKind,   \* which callback the capture has: enroll, verify or identify
          cancelled,    \* async_cancelled
          captureFails, \* capture_fails
          ackAfter,     \* set_callback was called by handle_msg, which sends an ACK next
          enrolling,    \* tudor_device.enrolling
          enrollRec,    \* tudor_device.enroll_guid and enroll_finger
          cachedPdata,  \* cached_pdata is not NULL
          sensor,       \* templates on the sensor; they outlive the host
          fault         \* why the host process ended

captureVars == <<asyncRes, actionKind, cancelled, ackAfter>>
enrollVars  == <<enrolling, enrollRec>>
hostLocal   == <<hpc, captureVars, captureFails, enrollVars, cachedPdata>>
hostVars    == <<hostLocal, sensor, fault>>

HostPcs == {"recv_init", "open", "load_pdata", "store_pdata", "loop", "set_callback",
            "committed", "close"}
Captures == {"none", "started", "early", "armed"}
Kinds    == {"enroll", "verify", "identify"}
NoRecord == "no_record"
Faults   == {"none", "exit", "crash", "open_failed", "type", "in_action", "unexpected", "start",
             "enrolling", "commit", "answer", "discard", "captures", "reentrance"}

HostLocalInit ==
    /\ hpc = "recv_init"
    /\ asyncRes = "none"
    /\ actionKind = "enroll"
    /\ cancelled = FALSE
    /\ captureFails = 0
    /\ ackAfter = FALSE
    /\ enrolling = FALSE
    /\ enrollRec = NoRecord
    /\ cachedPdata = FALSE

HostInit == HostLocalInit /\ sensor = {} /\ fault = "none"

-----------------------------------------------------------------------------
(* The process ends: exit, abort or a crash of the DLL. *)
Ends(why) ==
    /\ proc' = "dead"
    /\ fault' = why
    /\ UNCHANGED <<hostLocal, sensor>>

Consume == toHost # <<>> /\ toHost' = Tail(toHost)

(* main starts: the statics and locals of a new process. *)
HostBoot ==
    /\ proc = "spawned"
    /\ proc' = "running"
    /\ fault' = "none"
    /\ hpc' = "recv_init"
    /\ asyncRes' = "none" /\ actionKind' = "enroll" /\ cancelled' = FALSE
    /\ captureFails' = 0 /\ ackAfter' = FALSE
    /\ enrolling' = FALSE /\ enrollRec' = NoRecord
    /\ cachedPdata' = FALSE
    /\ UNCHANGED <<toHost, toPlugin, sensor>>

(* ipc_recv_msg where one type is expected, as in recv_init_msg. *)
RecvExpected(type, nextPc, cached) ==
    /\ Consume
    /\ \/ /\ Head(toHost).type = type
          /\ hpc' = nextPc
          /\ cachedPdata' = cached
          /\ UNCHANGED <<proc, captureVars, captureFails, enrollVars, sensor, fault>>
       \/ Head(toHost).type # type /\ Ends("type")
    /\ UNCHANGED toPlugin

recv_init_msg == hpc = "recv_init" /\ RecvExpected("INIT", "open", cachedPdata)

(* get_pdata_cb, called by the DLL while it opens the sensor: an answer is *)
(* kept, so that later calls send nothing and are not steps here.          *)
get_pdata_cb ==
    \/ /\ hpc = "open" /\ ~cachedPdata
       /\ HostSends(Plain("LOAD_PDATA"))
       /\ hpc' = "load_pdata"
       /\ UNCHANGED <<toHost, proc, captureVars, captureFails, enrollVars, cachedPdata, sensor, fault>>
    \/ hpc = "load_pdata" /\ RecvExpected("RESP_LOAD_PDATA", "open", TRUE)

set_pdata_cb ==
    \/ /\ hpc = "open"
       /\ HostSends(Plain("STORE_PDATA"))
       /\ hpc' = "store_pdata"
       /\ cachedPdata' = TRUE
       /\ UNCHANGED <<toHost, proc, captureVars, captureFails, enrollVars, sensor, fault>>
    \/ hpc = "store_pdata" /\ RecvExpected("ACK", "open", cachedPdata)

(* tudor_init and tudor_open return. *)
OpenReturns ==
    /\ hpc = "open"
    /\ \/ /\ HostSends(Plain("READY"))
          /\ hpc' = "loop"
          /\ UNCHANGED <<proc, captureVars, captureFails, enrollVars, cachedPdata, sensor, fault>>
       \/ Ends("open_failed") /\ UNCHANGED toPlugin
    /\ UNCHANGED toHost

main_open == recv_init_msg \/ get_pdata_cb \/ set_pdata_cb \/ OpenReturns

-----------------------------------------------------------------------------
(* The message handler.  check_in_action only peeked at the message, which *)
(* stays in the socket when the host aborts.                               *)
InAction == asyncRes # "none"

IdleRequests == {"SHUTDOWN", "PROBE", "ADD_RECORD", "DEL_RECORD", "CLEAR_RECORDS",
                 "ENROLL", "VERIFY", "IDENTIFY"}

check_in_action ==
    /\ Head(toHost).type \in IdleRequests /\ InAction
    /\ Ends("in_action")
    /\ UNCHANGED <<toHost, toPlugin>>

handle_unexpected ==
    /\ Head(toHost).type \notin IdleRequests \cup {"CANCEL"}
    /\ Ends("unexpected")
    /\ UNCHANGED <<toHost, toPlugin>>

Accepts(type) == Head(toHost).type = type /\ ~InAction /\ Consume

(* Mutant: SHUTDOWN is accepted during an action. *)
mut_handle_SHUTDOWN ==
    /\ Head(toHost).type = "SHUTDOWN" /\ Consume
    /\ hpc' = "close"
    /\ UNCHANGED <<toPlugin, proc, captureVars, captureFails, enrollVars, cachedPdata, sensor, fault>>

handle_SHUTDOWN ==
    /\ Accepts("SHUTDOWN")
    /\ hpc' = "close"
    /\ UNCHANGED <<toPlugin, proc, captureVars, captureFails, enrollVars, cachedPdata, sensor, fault>>

handle_PROBE ==
    /\ Accepts("PROBE")
    /\ HostSends(Plain("RESP_PROBE"))
    /\ UNCHANGED <<proc, hostVars>>

(* Mutant: a cancel during an action is read and forgotten. *)
mut_handle_CANCEL ==
    /\ Head(toHost).type = "CANCEL" /\ Consume
    /\ \/ InAction /\ UNCHANGED toPlugin
       \/ ~InAction /\ HostSends(ACK)
    /\ UNCHANGED <<proc, hostVars>>

handle_CANCEL ==
    /\ Head(toHost).type = "CANCEL" /\ Consume
    /\ \/ InAction /\ cancelled' = TRUE /\ UNCHANGED toPlugin
       \/ ~InAction /\ HostSends(ACK) /\ UNCHANGED cancelled
    /\ UNCHANGED <<proc, hpc, asyncRes, actionKind, ackAfter, captureFails, enrollVars,
                   cachedPdata, sensor, fault>>

(* With DLL storage a record that is already known is left alone. *)
handle_ADD_RECORD ==
    /\ Accepts("ADD_RECORD")
    /\ HostSends(ACK)
    /\ UNCHANGED <<proc, hostVars>>

(* tudor_wipe_records through the DLL's DeleteRecord: if that fails the    *)
(* templates stay, and the request is acknowledged all the same.           *)
WipeRecords(recs) ==
    /\ sensor' \in {sensor, sensor \ recs}
    /\ HostSends(ACK)
    /\ UNCHANGED <<proc, hostLocal, fault>>

handle_DEL_RECORD    == Accepts("DEL_RECORD") /\ WipeRecords({Head(toHost).arg})
handle_CLEAR_RECORDS == Accepts("CLEAR_RECORDS") /\ WipeRecords(Records)

(* tudor_enroll_capture or tudor_identify succeeded; init_action ran before. *)
StartCapture(kind, ack) ==
    /\ asyncRes' = "started"
    /\ actionKind' = kind
    /\ cancelled' = FALSE
    /\ ackAfter' = ack
    /\ hpc' = "set_callback"

(* Mutant: tudor_enroll_start forgets to set enrolling. *)
mut_handle_ENROLL ==
    /\ Accepts("ENROLL")
    /\ enrollRec' = Head(toHost).arg
    /\ StartCapture("enroll", TRUE)
    /\ UNCHANGED <<enrolling, proc, captureFails, cachedPdata, sensor, fault, toPlugin>>

handle_ENROLL ==
    /\ Accepts("ENROLL")
    /\ \/ enrolling /\ Ends("enrolling")
       \/ ~enrolling /\ Ends("start")
       \/ /\ ~enrolling
          /\ enrolling' = TRUE
          /\ enrollRec' = Head(toHost).arg
          /\ StartCapture("enroll", TRUE)
          /\ UNCHANGED <<proc, captureFails, cachedPdata, sensor, fault>>
    /\ UNCHANGED toPlugin

(* VERIFY and IDENTIFY: both run tudor_identify and differ in the callback. *)
StartIdentify(type, kind) ==
    /\ Accepts(type)
    /\ \/ enrolling /\ Ends("enrolling")
       \/ ~enrolling /\ Ends("start")
       \/ /\ ~enrolling
          /\ StartCapture(kind, TRUE)
          /\ UNCHANGED <<proc, captureFails, enrollVars, cachedPdata, sensor, fault>>
    /\ UNCHANGED toPlugin

handle_VERIFY   == StartIdentify("VERIFY", "verify")
handle_IDENTIFY == StartIdentify("IDENTIFY", "identify")

(* Mutant: the lock is given up between the commit and its answer. *)
mut_handle_msg ==
    /\ hpc \in {"loop", "committed"} /\ toHost # <<>>
    /\ \/ check_in_action \/ handle_unexpected
       \/ handle_SHUTDOWN \/ handle_PROBE \/ handle_CANCEL
       \/ handle_ADD_RECORD \/ handle_DEL_RECORD \/ handle_CLEAR_RECORDS
       \/ handle_ENROLL \/ handle_VERIFY \/ handle_IDENTIFY

handle_msg ==
    /\ hpc = "loop" /\ toHost # <<>>
    /\ \/ check_in_action \/ handle_unexpected
       \/ handle_SHUTDOWN \/ handle_PROBE \/ handle_CANCEL
       \/ handle_ADD_RECORD \/ handle_DEL_RECORD \/ handle_CLEAR_RECORDS
       \/ handle_ENROLL \/ handle_VERIFY \/ handle_IDENTIFY

-----------------------------------------------------------------------------
(* tudor_set_async_callback, called with handler_state.lock held.  If the  *)
(* capture is over already, the callback runs at once with the result's    *)
(* lock held: its cleanup_action destroys that lock, which pthread refuses *)
(* with EBUSY, and cant_fail_ret aborts.                                   *)
tudor_set_async_callback ==
    /\ hpc = "set_callback"
    /\ \/ /\ asyncRes = "started"
          /\ asyncRes' = "armed"
          /\ hpc' = "loop"
          /\ IF ackAfter THEN HostSends(ACK) ELSE UNCHANGED toPlugin
          /\ UNCHANGED <<proc, actionKind, cancelled, ackAfter, captureFails, enrollVars,
                         cachedPdata, sensor, fault>>
       \/ asyncRes = "early" /\ Ends("reentrance") /\ UNCHANGED toPlugin
    /\ UNCHANGED toHost

(* async_complete_op before the callback is set: only the result is noted. *)
CompletesEarly ==
    /\ EarlyCapture
    /\ hpc = "set_callback" /\ asyncRes = "started"
    /\ asyncRes' = "early"
    /\ UNCHANGED <<ipcVars, hpc, actionKind, cancelled, ackAfter, captureFails, enrollVars,
                   cachedPdata, sensor, fault>>

-----------------------------------------------------------------------------
(* The capture callbacks: async_complete_op calls them without any lock.   *)
(* cleanup_action forgets the capture and answers a cancelled one.         *)
Completed(kind) == hpc = "loop" /\ asyncRes = "armed" /\ actionKind = kind

NoMoreCapture == asyncRes' = "none" /\ UNCHANGED <<hpc, actionKind, cancelled, ackAfter>>

(* The part of a callback after cleanup_action that answers the client. *)
Responds(m) == /\ NoMoreCapture
               /\ HostSends(m)
               /\ UNCHANGED <<proc, cachedPdata, fault>>

CancelledResponds == cancelled /\ Responds(ACK)

(* Mutant: a cancelled enrollment is not discarded. *)
mut_EnrollCancelled == CancelledResponds /\ UNCHANGED <<enrollVars, captureFails, sensor>>

(* tudor_enroll_discard returns; enrolling is cleared only if it worked. *)
EnrollCancelled ==
    \/ /\ CancelledResponds
       /\ enrolling' = FALSE
       /\ UNCHANGED <<enrollRec, captureFails, sensor>>
    \/ DiscardFails /\ cancelled /\ Ends("discard") /\ HostSends(ACK)

(* tudor_enroll_commit: committed, a duplicate (then discarded, whatever   *)
(* tudor_enroll_discard returns), or any other failure.                    *)
EnrollDone ==
    /\ ~cancelled
    /\ \/ /\ asyncRes' = "none"
          /\ hpc' = "committed"
          /\ enrolling' = FALSE
          /\ sensor' = sensor \cup {enrollRec}
          /\ UNCHANGED <<toPlugin, proc, actionKind, cancelled, ackAfter, enrollRec, captureFails,
                         cachedPdata, fault>>
       \/ /\ Responds(Msg("RESP_ENROLL", "duplicate"))
          /\ enrolling' \in IF DiscardFails THEN BOOLEAN ELSE {FALSE}
          /\ UNCHANGED <<enrollRec, captureFails, sensor>>
       \/ Ends("commit") /\ UNCHANGED toPlugin

(* The rest of enroll_cb after a commit: the record is looked up and sent. *)
(* One that is too large for a message, or memory that cannot be had,      *)
(* aborts the host with the template on the sensor.                        *)
EnrollAnswers ==
    /\ hpc = "committed"
    /\ \/ /\ HostSends(Msg("RESP_ENROLL", "done"))
          /\ hpc' = "loop"
          /\ UNCHANGED <<proc, captureVars, captureFails, enrollVars, cachedPdata, sensor, fault>>
       \/ Ends("answer") /\ UNCHANGED toPlugin
    /\ UNCHANGED toHost

(* Mutant: the next capture is started although the action was cancelled, *)
(* which init_action forgets.                                             *)
mut_EnrollAgain ==
    /\ StartCapture("enroll", FALSE)
    /\ \E a \in {"more", "retry"} : HostSends(Msg("RESP_ENROLL", a))
    /\ UNCHANGED <<proc, captureFails, enrollVars, cachedPdata, sensor, fault>>

(* A capture that was bad, failed or is not the last: capture again. *)
EnrollAgain ==
    /\ ~cancelled
    /\ \/ /\ StartCapture("enroll", FALSE)
          /\ \E a \in {"more", "retry"} : HostSends(Msg("RESP_ENROLL", a))
          /\ UNCHANGED <<proc, captureFails, enrollVars, cachedPdata, sensor, fault>>
       \/ Ends("start") /\ UNCHANGED toPlugin

enroll_cb == /\ Completed("enroll")
             /\ EnrollCancelled \/ EnrollDone \/ EnrollAgain
             /\ UNCHANGED toHost

(* verify_via_identify_cb and identify_cb, which answer with results. *)
Captured(type, results) ==
    /\ ~cancelled
    /\ \E a \in results : Responds(Msg(type, a))
    /\ captureFails' = 0

(* WINBIO_E_BAD_CAPTURE *)
BadCapture(type) ==
    /\ ~cancelled
    /\ Responds(Msg(type, "retry"))
    /\ UNCHANGED captureFails

(* Mutant: one failure too many is tolerated. *)
mut_CaptureError(type) ==
    /\ ~cancelled
    /\ \/ /\ captureFails <= MaxFails
          /\ Responds(Msg(type, "retry"))
          /\ captureFails' = captureFails + 1
       \/ captureFails > MaxFails /\ Ends("captures") /\ UNCHANGED toPlugin

CaptureError(type) ==
    /\ ~cancelled
    /\ \/ /\ captureFails < MaxFails
          /\ Responds(Msg(type, "retry"))
          /\ captureFails' = captureFails + 1
       \/ captureFails >= MaxFails /\ Ends("captures") /\ UNCHANGED toPlugin

IdentifyCallback(kind, type, results) ==
    /\ Completed(kind)
    /\ \/ CancelledResponds /\ UNCHANGED captureFails
       \/ Captured(type, results) \/ BadCapture(type) \/ CaptureError(type)
    /\ UNCHANGED <<toHost, enrollVars, sensor>>

verify_via_identify_cb == IdentifyCallback("verify", "RESP_VERIFY", {"match", "no_match"})

(* The GUID the DLL reports need not be one of ours ("unknown"). *)
identify_cb == IdentifyCallback("identify", "RESP_IDENTIFY", {"no_match", "unknown"} \cup sensor)

CaptureCallback == enroll_cb \/ verify_via_identify_cb \/ identify_cb

-----------------------------------------------------------------------------
(* main after the handler loop, and what can happen to any process. *)
main_close ==
    /\ hpc = "close"
    /\ Ends("exit")
    /\ UNCHANGED <<toHost, toPlugin>>

HostCrash ==
    /\ proc = "running"
    /\ Ends("crash")
    /\ UNCHANGED <<toHost, toPlugin>>

(* The steps the host process takes by itself. *)
HostSteps == /\ proc = "running"
             /\ \/ main_open \/ handle_msg \/ tudor_set_async_callback \/ CompletesEarly
                \/ CaptureCallback \/ EnrollAnswers \/ main_close

HostNext == HostBoot \/ HostSteps \/ HostCrash

(* The scheduler runs the host's threads, the DLL returns from calls, and a *)
(* cancelled capture ends.  A finger on the sensor is not guaranteed.  The  *)
(* message thread gets handler_state.lock in the end (strong fairness):     *)
(* nobody holds it while a capture waits for a finger.                      *)
HostFairness ==
    /\ WF_<<ipcVars, hostVars>>(HostBoot)
    /\ WF_<<ipcVars, hostVars>>(proc = "running" /\ main_open)
    /\ SF_<<ipcVars, hostVars>>(proc = "running" /\ handle_msg)
    /\ WF_<<ipcVars, hostVars>>(proc = "running" /\ main_close)
    /\ WF_<<ipcVars, hostVars>>(proc = "running" /\ tudor_set_async_callback)
    /\ WF_<<ipcVars, hostVars>>(proc = "running" /\ EnrollAnswers)
    /\ WF_<<ipcVars, hostVars>>(proc = "running" /\ cancelled /\ CaptureCallback)

HostTypeOK ==
    /\ LinkTypeOK
    /\ hpc \in HostPcs
    /\ asyncRes \in Captures
    /\ actionKind \in Kinds
    /\ cancelled \in BOOLEAN
    /\ captureFails \in 0..MaxFails
    /\ ackAfter \in BOOLEAN
    /\ enrolling \in BOOLEAN
    /\ enrollRec \in Records \cup {NoRecord}
    /\ cachedPdata \in BOOLEAN
    /\ sensor \subseteq Records
    /\ fault \in Faults
=============================================================================
