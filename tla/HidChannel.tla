----------------------------- MODULE HidChannel -----------------------------
(***************************************************************************)
(* The command channel to the sensor as the DLL sees it: overlapped reads  *)
(* on a HID file, served by one reader thread (winapi/fileops.c), and      *)
(* feature reports that switch event delivery on and off and drain stale   *)
(* input (winapi/hiddll.c).  Both take reports from one kernel buffer.     *)
(*                                                                         *)
(* Threads: the reader, a DLL thread that issues and collects reads and    *)
(* closes the file, and a DLL thread that sends feature reports.  The      *)
(* hidraw descriptors are opened with O_NONBLOCK by both programs, so no   *)
(* read blocks and switching the flag to and fro changes nothing.          *)
(***************************************************************************)
EXTENDS Naturals, Sequences

CONSTANTS MaxReads,    \* bound: reads of a behaviour
          MaxReports,  \* bound: input reports the sensor sends
          Shared       \* does the image channel share the device (Bluetooth)?

ASSUME HidAssumption == MaxReads \in Nat /\ MaxReports \in Nat /\ Shared \in BOOLEAN

Reads   == 1..MaxReads
Reports == {"event", "answer", "key"}
NoRead  == 0

VARIABLES fifo,      \* input reports in the kernel's buffer
          sent,      \* input reports sent so far
          armed,     \* the sensor sends events: it got 'wait event', no 'end event' since
          owed,      \* the sensor has still to answer a command
          fd,        \* "ok" or "gone": unplugged, or closed at shutdown
          pass,      \* win_hid_pass_heartbeats
          monitor,   \* img_monitor_started
          stopping,  \* tudor_shutting_down
          unended,   \* an 'end event' failed, and none has come through since
          file,      \* the reader's context: allocated, thread started, shutdown asked for
          queue,     \* queue_head, oldest first
          status,    \* of each read: OVERLAPPED.Internal
          op,        \* of each read: is its winfile_op allocated?
          rd,        \* the reader thread: where it is, its read, the report, reads to cancel
          user,      \* the reading DLL thread
          ctl,       \* the DLL thread that sends feature reports
          freed      \* a completion used a winfile_op after its free

sensor == <<fifo, sent, armed, owed, fd>>
flags  == <<pass, monitor, stopping, unended>>
reads  == <<queue, status, op>>
vars   == <<sensor, flags, reads, file, rd, user, ctl, freed>>

TypeOK ==
    /\ fifo \in Seq(Reports) /\ Len(fifo) <= MaxReports /\ sent \in 0..MaxReports
    /\ armed \in BOOLEAN /\ owed \in BOOLEAN /\ fd \in {"ok", "gone"}
    /\ pass \in BOOLEAN /\ monitor \in BOOLEAN /\ stopping \in BOOLEAN
    /\ unended \in BOOLEAN
    /\ file \in [alive : BOOLEAN, started : BOOLEAN, shutdown : BOOLEAN]
    /\ queue \in Seq(Reads)
    /\ status \in [Reads -> {"unused", "pending", "success", "cancelled"}]
    /\ op \in [Reads -> BOOLEAN]
    /\ rd.at \in {"none", "top", "wait", "read", "poll", "check", "complete", "touch", "exit"}
    /\ rd.req \in Reads \cup {NoRead} /\ rd.rep \in Reports \cup {"none"}
    /\ rd.res \in {"success", "cancelled"} /\ rd.rest \in Seq(Reads)
    /\ user \in {"run", "join", "closed"}
    /\ ctl \in {"idle", "wait", "end", "drain", "drain_read", "flush"}
    /\ freed \in BOOLEAN

Init ==
    /\ fifo = <<>> /\ sent = 0 /\ armed = FALSE /\ owed = FALSE /\ fd = "ok"
    /\ pass = FALSE /\ monitor = FALSE /\ stopping = FALSE /\ unended = FALSE
    /\ file = [alive |-> TRUE, started |-> FALSE, shutdown |-> FALSE]
    /\ queue = <<>>
    /\ status = [r \in Reads |-> "unused"] /\ op = [r \in Reads |-> FALSE]
    /\ rd = [at |-> "none", req |-> NoRead, rep |-> "none", res |-> "success", rest |-> <<>>]
    /\ user = "run" /\ ctl = "idle" /\ freed = FALSE

-----------------------------------------------------------------------------
(* The sensor (external): events while it is armed, answers to commands,    *)
(* and on a shared device the keyboard's own reports.                       *)
SendReport(r) ==
    /\ fd = "ok" /\ sent < MaxReports
    /\ CASE r = "event"  -> armed
         [] r = "answer" -> owed
         [] r = "key"    -> Shared
    /\ fifo' = Append(fifo, r)
    /\ sent' = sent + 1
    /\ owed' = (owed /\ r # "answer")
    /\ UNCHANGED <<armed, fd, flags, reads, file, rd, user, ctl, freed>>

DeviceLost ==
    /\ fd = "ok"
    /\ fd' = "gone"
    /\ fifo' = <<>> /\ armed' = FALSE /\ owed' = FALSE
    /\ UNCHANGED <<sent, flags, reads, file, rd, user, ctl, freed>>

-----------------------------------------------------------------------------
(* Mutant: the new read is put in front of the others. *)
mut_ReadFile(r) ==
    /\ user = "run" /\ status[r] = "unused" /\ (r > 1 => status[r - 1] # "unused")
    /\ status' = [status EXCEPT ![r] = "pending"]
    /\ op' = [op EXCEPT ![r] = TRUE]
    /\ queue' = <<r>> \o queue
    /\ file' = [file EXCEPT !.started = TRUE]
    /\ rd' = IF file.started THEN rd ELSE [rd EXCEPT !.at = "top"]
    /\ UNCHANGED <<sensor, flags, user, ctl, freed>>

(* ReadFile and hid_file_read: the read is queued, the first one starts the *)
(* reader.                                                                  *)
ReadFile(r) ==
    /\ user = "run" /\ status[r] = "unused" /\ (r > 1 => status[r - 1] # "unused")
    /\ status' = [status EXCEPT ![r] = "pending"]
    /\ op' = [op EXCEPT ![r] = TRUE]
    /\ queue' = Append(queue, r)
    /\ file' = [file EXCEPT !.started = TRUE]
    /\ rd' = IF file.started THEN rd ELSE [rd EXCEPT !.at = "top"]
    /\ UNCHANGED <<sensor, flags, user, ctl, freed>>

(* GetOverlappedResult on a read that is complete frees its winfile_op: for *)
(* a HID file there is nothing else to clean up.                            *)
GetOverlappedResult(r) ==
    /\ op[r] /\ status[r] # "pending"
    /\ op' = [op EXCEPT ![r] = FALSE]
    /\ UNCHANGED <<sensor, flags, queue, status, file, rd, user, ctl, freed>>

(* WriteFile and hid_file_write: a command, complete when it returns. *)
WriteFile ==
    /\ user = "run" /\ fd = "ok" /\ ~owed
    /\ owed' = TRUE
    /\ UNCHANGED <<fifo, sent, armed, fd, flags, reads, file, rd, user, ctl, freed>>

(* CloseHandle and hid_file_destroy: ask the reader to stop, join it, free. *)
CloseHandle ==
    /\ user = "run"
    /\ file' = [file EXCEPT !.shutdown = TRUE]
    /\ user' = "join"
    /\ UNCHANGED <<sensor, flags, reads, rd, ctl, freed>>

hid_file_destroy ==
    /\ user = "join"
    /\ file.started => rd.at = "exit"
    /\ file' = [file EXCEPT !.alive = FALSE]
    /\ user' = "closed"
    /\ UNCHANGED <<sensor, flags, reads, rd, ctl, freed>>

(* main: tudor_shutting_down is set, then the descriptors are closed. *)
ShutDown ==
    /\ ~stopping
    /\ stopping' = TRUE
    /\ UNCHANGED <<sensor, pass, monitor, unended, reads, file, rd, user, ctl, freed>>

-----------------------------------------------------------------------------
(* hid_reader_thread.                                                       *)
Stop == stopping \/ file.shutdown

ReaderTop ==
    /\ rd.at = "top"
    /\ rd' = [rd EXCEPT !.at = IF Stop THEN "exit" ELSE "wait"]
    /\ UNCHANGED <<sensor, flags, reads, file, user, ctl, freed>>

(* Under the lock: the oldest read, or all of them to be cancelled. *)
ReaderTakes ==
    /\ rd.at = "wait"
    /\ \/ /\ ~Stop /\ queue # <<>>
          /\ rd' = [rd EXCEPT !.at = "read", !.req = Head(queue)]
          /\ queue' = Tail(queue)
       \/ /\ Stop
          /\ rd' = IF queue = <<>> THEN [rd EXCEPT !.at = "exit"]
                   ELSE [rd EXCEPT !.at = "complete", !.req = Head(queue), !.res = "cancelled",
                                   !.rest = Tail(queue)]
          /\ queue' = <<>>
    /\ UNCHANGED <<sensor, flags, status, op, file, user, ctl, freed>>

ReaderReads ==
    /\ rd.at = "read"
    /\ CASE fd = "gone" -> rd' = [rd EXCEPT !.at = "complete", !.res = "cancelled"] /\ UNCHANGED fifo
         [] fd = "ok" /\ fifo = <<>> -> rd' = [rd EXCEPT !.at = "poll"] /\ UNCHANGED fifo
         [] OTHER -> rd' = [rd EXCEPT !.at = "check", !.rep = Head(fifo)] /\ fifo' = Tail(fifo)
    /\ UNCHANGED <<sent, armed, owed, fd, flags, reads, file, user, ctl, freed>>

(* Mutant: only the sensor's loss ends the loop. *)
mut_ReaderPolled ==
    /\ rd.at = "poll"
    /\ rd' = IF fd = "gone" THEN [rd EXCEPT !.at = "complete", !.res = "cancelled"]
                            ELSE [rd EXCEPT !.at = "read"]
    /\ UNCHANGED <<sensor, flags, reads, file, user, ctl, freed>>

(* After at most 500 ms. *)
ReaderPolled ==
    /\ rd.at = "poll"
    /\ rd' = IF Stop \/ fd = "gone" THEN [rd EXCEPT !.at = "complete", !.res = "cancelled"]
                                    ELSE [rd EXCEPT !.at = "read"]
    /\ UNCHANGED <<sensor, flags, reads, file, user, ctl, freed>>

(* Keyboard reports and, outside a capture, events are not for the DLL. *)
Dropped(rep) == rep = "key" \/ (rep = "event" /\ ~pass)

ReaderChecks ==
    /\ rd.at = "check"
    /\ rd' = IF Dropped(rd.rep) THEN [rd EXCEPT !.at = "read", !.rep = "none"]
             ELSE [rd EXCEPT !.at = "complete", !.res = "success", !.rep = "none"]
    /\ UNCHANGED <<sensor, flags, reads, file, user, ctl, freed>>

(* winio_complete_overlapped: from here the read can be collected ... *)
ReaderCompletes ==
    /\ rd.at = "complete"
    /\ status' = [status EXCEPT ![rd.req] = rd.res]
    /\ rd' = [rd EXCEPT !.at = "touch"]
    /\ UNCHANGED <<sensor, flags, queue, op, file, user, ctl, freed>>

(* ... and here its winfile_op is used once more.  A reader that cancels    *)
(* what was queued goes on to the next one.                                 *)
ReaderTouches ==
    /\ rd.at = "touch"
    /\ freed' = (freed \/ ~op[rd.req])
    /\ rd' = IF rd.rest = <<>> THEN [rd EXCEPT !.at = "top", !.req = NoRead]
             ELSE [rd EXCEPT !.at = "complete", !.req = Head(rd.rest), !.rest = Tail(rd.rest)]
    /\ UNCHANGED <<sensor, flags, reads, file, user, ctl>>

-----------------------------------------------------------------------------
(* Mutant: the filter stays closed when 'wait event' is sent. *)
mut_SetFeatureWait ==
    /\ ctl = "idle" /\ (armed => unended)
    /\ ctl' = "wait"
    /\ UNCHANGED <<sensor, flags, reads, file, rd, user, freed>>

(* HidD_SetFeature.  'wait event' lets events through before it is sent;    *)
(* then the scan cycle runs and the image monitor starts, unless the device *)
(* is shared.  The DLL (external) ends a wait before it begins another, but *)
(* may go on if that failed.                                                *)
SetFeatureWait ==
    /\ ctl = "idle" /\ (armed => unended)
    /\ pass' = TRUE
    /\ ctl' = "wait"
    /\ UNCHANGED <<sensor, monitor, stopping, unended, reads, file, rd, user, freed>>

start_img_monitor == monitor' = (monitor \/ ~Shared)

WaitSent ==
    /\ ctl = "wait"
    /\ \/ /\ fd = "ok"
          /\ armed' = TRUE
          /\ start_img_monitor
          /\ UNCHANGED pass
       \/ pass' = FALSE /\ UNCHANGED <<armed, monitor>>
    /\ ctl' = "idle"
    /\ UNCHANGED <<fifo, sent, owed, fd, stopping, unended, reads, file, rd, user, freed>>

(* 'end event': the sensor stops, events are no longer let through, and     *)
(* what is in the buffer is drained.                                        *)
SetFeatureEnd ==
    /\ ctl = "idle" /\ armed /\ fd = "ok"
    /\ armed' = FALSE
    /\ ctl' = "end"
    /\ unended' = FALSE
    /\ UNCHANGED <<fifo, sent, owed, fd, pass, monitor, stopping, reads, file, rd, user, freed>>

(* The ioctl fails: HidD_SetFeature returns, the sensor goes on, the filter *)
(* stays open and nothing is drained.                                       *)
SetFeatureEndFails ==
    /\ ctl = "idle" /\ armed
    /\ unended' = TRUE
    /\ UNCHANGED <<sensor, pass, monitor, stopping, reads, file, rd, user, ctl, freed>>

EndSent ==
    /\ ctl = "end"
    /\ pass' = FALSE
    /\ ctl' = "drain"
    /\ UNCHANGED <<sensor, monitor, stopping, unended, reads, file, rd, user, freed>>

(* Any other feature report: the sensor answers, and that is drained. *)
SetFeatureOther ==
    /\ ctl = "idle" /\ fd = "ok" /\ ~owed
    /\ owed' = TRUE
    /\ ctl' = "drain"
    /\ UNCHANGED <<fifo, sent, armed, fd, flags, reads, file, rd, user, freed>>

(* The drain polls for 50 ms, then reads: the reader may have been faster.  *)
DrainPolls ==
    /\ ctl = "drain"
    /\ ctl' = IF fifo = <<>> THEN "idle" ELSE "drain_read"
    /\ UNCHANGED <<sensor, flags, reads, file, rd, user, freed>>

DrainReads ==
    /\ ctl = "drain_read"
    /\ IF fifo = <<>> THEN ctl' = "idle" /\ UNCHANGED fifo
                      ELSE ctl' = "drain" /\ fifo' = Tail(fifo)
    /\ UNCHANGED <<sent, armed, owed, fd, flags, reads, file, rd, user, freed>>

HidD_FlushQueue ==
    /\ \/ ctl = "idle" /\ ctl' = "flush" /\ UNCHANGED fifo
       \/ ctl = "flush" /\ fifo # <<>> /\ fifo' = Tail(fifo) /\ UNCHANGED ctl
       \/ ctl = "flush" /\ fifo = <<>> /\ ctl' = "idle" /\ UNCHANGED fifo
    /\ UNCHANGED <<sent, armed, owed, fd, flags, reads, file, rd, user, freed>>

-----------------------------------------------------------------------------
ReaderStep ==
    \/ ReaderTop \/ ReaderTakes \/ ReaderReads \/ ReaderPolled
    \/ ReaderChecks \/ ReaderCompletes \/ ReaderTouches

ControlStep == WaitSent \/ EndSent \/ DrainPolls \/ DrainReads

Next ==
    \/ \E r \in Reports : SendReport(r)
    \/ DeviceLost \/ ShutDown
    \/ \E r \in Reads : ReadFile(r) \/ GetOverlappedResult(r)
    \/ WriteFile \/ CloseHandle \/ hid_file_destroy
    \/ ReaderStep
    \/ SetFeatureWait \/ SetFeatureEnd \/ SetFeatureEndFails \/ SetFeatureOther
    \/ ControlStep \/ HidD_FlushQueue

(* The reader runs, and a thread in CloseHandle goes on once it was joined. *)
Fairness == WF_vars(ReaderStep) /\ WF_vars(hid_file_destroy)

Spec == Init /\ [][Next]_vars /\ Fairness

-----------------------------------------------------------------------------
(* Reads complete in the order they were issued, whatever reports are       *)
(* skipped or cancelled in between: each report goes to the oldest pending  *)
(* read (fileops.c:180, 290).                                               *)
ReadsInOrder ==
    \A i, j \in Reads : i < j /\ status[j] \in {"success", "cancelled"} => status[i] # "pending"

(* The reader's context is freed only when the reader has left              *)
(* (fileops.c:330-336).                                                     *)
ContextOutlivesReader == ~file.alive => rd.at \in {"none", "exit"}

(* While the sensor waits for a finger, no event it sends is dropped by the *)
(* reader: the filter is opened before 'wait event' goes out, and closed    *)
(* after 'end event' came back (hiddll.c:412-421, 446-450).  If that fails, *)
(* a 'wait event' that fails too closes the filter of a sensor that is      *)
(* still armed: the property holds until then.                              *)
NoEventDropped ==
    [][rd.at = "check" /\ rd.rep = "event" /\ rd'.at = "read" => ~armed \/ unended]_vars

(* A wait does not begin with events of the one before it in the buffer:    *)
(* they were drained after 'end event' (hiddll.c:451-481), unless that      *)
(* failed (hiddll.c:418-421).                                               *)
FreshWait == ctl = "wait" /\ ~unended => \A i \in 1..Len(fifo) : fifo[i] # "event"

(* What every state of the channel satisfies: reads end in order, the       *)
(* reader outlives no context, and a wait begins with a clean buffer, with  *)
(* any number of reports skipped, drained or flushed by the other thread.   *)
ChannelSound == TypeOK /\ ReadsInOrder /\ ContextOutlivesReader /\ FreshWait

(* CloseHandle returns although a read may be pending on a silent sensor    *)
(* (fileops.c:192-193, 331).                                                *)
CloseReturns == user = "join" ~> user = "closed"

(* "Cancel all pending reads" (fileops.c:168): when the file is closed, no  *)
(* read is pending any more.                                                *)
ClosedEndsReads == user = "closed" => \A r \in Reads : status[r] # "pending"

=============================================================================
