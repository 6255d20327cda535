------------------------ MODULE HostAnyClientProofs ------------------------
(***************************************************************************)
(* Proofs about a tudor host process with any client, for any set of       *)
(* records, any queue length and any MAX_CONSECUTIVE_CAPTURE_FAILS.        *)
(*                                                                         *)
(* The inductive invariant ties tudor_device.enrolling to the capture of   *)
(* the handler, and the program counter of main to both.                   *)
(***************************************************************************)
EXTENDS HostAnyClient, TLAPS

(* The values the control state of the host ranges over. *)
ControlTypeOK ==
    /\ hpc \in HostPcs
    /\ asyncRes \in Captures
    /\ actionKind \in Kinds
    /\ cancelled \in BOOLEAN
    /\ enrolling \in BOOLEAN

(* An enroll capture needs an open enrollment; if discarding always works  *)
(* an open enrollment has a capture, too.  main leaves the loop idle.      *)
ControlInv ==
    /\ ControlTypeOK
    /\ InAction /\ actionKind = "enroll" => enrolling
    /\ ~DiscardFails /\ enrolling => InAction /\ actionKind = "enroll"
    /\ hpc \notin {"loop", "set_callback"} => ~InAction

-----------------------------------------------------------------------------
LEMMA InitControl == Init => ControlInv
  BY DEF Init, HostInit, HostLocalInit, ControlInv, ControlTypeOK, HostPcs, Captures, Kinds,
         InAction

(* Steps that leave the control state alone. *)
LEMMA SameControl ==
    ASSUME ControlInv, UNCHANGED <<hpc, asyncRes, actionKind, cancelled, enrolling>>
    PROVE  ControlInv'
  BY DEF ControlInv, ControlTypeOK, InAction

(* The process ends: its memory no longer changes. *)
LEMMA EndsControl ==
    ASSUME ControlInv, NEW why, Ends(why)
    PROVE  ControlInv'
  BY SameControl DEF Ends, hostLocal, captureVars, enrollVars

(* A capture starts under the lock. *)
LEMMA StartControl ==
    ASSUME ControlInv, NEW kind \in Kinds, NEW ack, StartCapture(kind, ack),
           enrolling' = (kind = "enroll")
    PROVE  ControlInv'
  BY DEF ControlInv, ControlTypeOK, StartCapture, HostPcs, Captures, Kinds, InAction

(* cleanup_action with no enrollment left open. *)
LEMMA DoneControl ==
    ASSUME ControlInv, NoMoreCapture,
           enrolling' \in BOOLEAN, ~DiscardFails => enrolling' = FALSE
    PROVE  ControlInv'
  BY DEF ControlInv, ControlTypeOK, NoMoreCapture, Captures, InAction

LEMMA OpenControl ==
    ASSUME ControlInv, main_open
    PROVE  ControlInv'
<1>1. ASSUME NEW type, NEW next \in HostPcs \ {"loop", "set_callback"}, NEW cached,
             hpc \notin {"loop", "set_callback"}, RecvExpected(type, next, cached)
      PROVE  ControlInv'
  <2>1. CASE \E why : Ends(why)
    BY <2>1, EndsControl
  <2>2. CASE hpc' = next /\ UNCHANGED <<captureVars, enrollVars>>
    BY <1>1, <2>2 DEF ControlInv, ControlTypeOK, InAction, captureVars, enrollVars, HostPcs
  <2> QED
    BY <1>1, <2>1, <2>2 DEF RecvExpected
<1>2. CASE recv_init_msg
  BY <1>1, <1>2 DEF recv_init_msg, HostPcs
<1>3. CASE get_pdata_cb
  <2>1. CASE hpc = "load_pdata" /\ RecvExpected("RESP_LOAD_PDATA", "open", TRUE)
    BY <1>1, <2>1 DEF HostPcs
  <2>2. CASE hpc = "open" /\ hpc' = "load_pdata" /\ UNCHANGED <<captureVars, enrollVars>>
    BY <2>2 DEF ControlInv, ControlTypeOK, InAction, captureVars, enrollVars, HostPcs
  <2> QED
    BY <1>3, <2>1, <2>2 DEF get_pdata_cb
<1>4. CASE set_pdata_cb
  <2>1. CASE hpc = "store_pdata" /\ RecvExpected("ACK", "open", cachedPdata)
    BY <1>1, <2>1 DEF HostPcs
  <2>2. CASE hpc = "open" /\ hpc' = "store_pdata" /\ UNCHANGED <<captureVars, enrollVars>>
    BY <2>2 DEF ControlInv, ControlTypeOK, InAction, captureVars, enrollVars, HostPcs
  <2> QED
    BY <1>4, <2>1, <2>2 DEF set_pdata_cb
<1>5. CASE OpenReturns
  <2>1. CASE Ends("open_failed")
    BY <2>1, EndsControl
  <2>2. CASE hpc = "open" /\ hpc' = "loop" /\ UNCHANGED <<captureVars, enrollVars>>
    BY <2>2 DEF ControlInv, ControlTypeOK, InAction, captureVars, enrollVars, HostPcs
  <2> QED
    BY <1>5, <2>1, <2>2 DEF OpenReturns
<1> QED
  BY <1>2, <1>3, <1>4, <1>5 DEF main_open

LEMMA HandleControl ==
    ASSUME ControlInv, handle_msg
    PROVE  ControlInv'
<1>1. CASE check_in_action
  BY <1>1, EndsControl DEF check_in_action
<1>2. CASE handle_unexpected
  BY <1>2, EndsControl DEF handle_unexpected
<1>3. CASE handle_SHUTDOWN
  BY <1>3 DEF handle_SHUTDOWN, Accepts, ControlInv, ControlTypeOK, InAction, captureVars,
              enrollVars, HostPcs
<1>4. CASE handle_PROBE \/ handle_ADD_RECORD
  BY <1>4, SameControl DEF handle_PROBE, handle_ADD_RECORD, hostVars, hostLocal, captureVars,
                           enrollVars
<1>5. CASE handle_CANCEL
  BY <1>5 DEF handle_CANCEL, ControlInv, ControlTypeOK, InAction, enrollVars
<1>6. CASE handle_DEL_RECORD \/ handle_CLEAR_RECORDS
  BY <1>6, SameControl DEF handle_DEL_RECORD, handle_CLEAR_RECORDS, WipeRecords, hostLocal,
              captureVars, enrollVars
<1>7. CASE handle_ENROLL
  <2>1. CASE \E why : Ends(why)
    BY <2>1, EndsControl
  <2>2. CASE StartCapture("enroll", TRUE) /\ enrolling' = TRUE
    BY <2>2, StartControl DEF Kinds
  <2> QED
    BY <1>7, <2>1, <2>2 DEF handle_ENROLL
<1>8. CASE handle_VERIFY \/ handle_IDENTIFY
  <2>1. CASE \E why : Ends(why)
    BY <2>1, EndsControl
  <2>2. CASE \E kind \in {"verify", "identify"} : StartCapture(kind, TRUE) /\ ~enrolling
                                                 /\ UNCHANGED enrolling
    <3>1. PICK kind \in {"verify", "identify"} : StartCapture(kind, TRUE) /\ ~enrolling
                                                /\ UNCHANGED enrolling
      BY <2>2
    <3>2. enrolling' = (kind = "enroll")
      BY <3>1 DEF ControlInv, ControlTypeOK
    <3> QED
      BY <3>1, <3>2, StartControl DEF Kinds
  <2> QED
    BY <1>8, <2>1, <2>2 DEF handle_VERIFY, handle_IDENTIFY, StartIdentify, enrollVars
<1> QED
  BY <1>1, <1>2, <1>3, <1>4, <1>5, <1>6, <1>7, <1>8 DEF handle_msg

LEMMA CallbackControl ==
    ASSUME ControlInv, CaptureCallback
    PROVE  ControlInv'
<1>1. CASE enroll_cb
  <2>1. CASE \E why : Ends(why)
    BY <2>1, EndsControl
  <2>2. CASE NoMoreCapture /\ enrolling' \in BOOLEAN /\ (~DiscardFails => enrolling' = FALSE)
    BY <2>2, DoneControl
  <2>3. CASE StartCapture("enroll", FALSE) /\ UNCHANGED enrolling
    <3>1. enrolling = TRUE
      BY <1>1 DEF enroll_cb, Completed, ControlInv, ControlTypeOK, InAction
    <3> QED
      BY <2>3, <3>1, StartControl DEF Kinds
  <2>4. CASE /\ asyncRes' = "none" /\ hpc' = "committed" /\ enrolling' = FALSE
             /\ UNCHANGED <<actionKind, cancelled>>
    BY <2>4 DEF ControlInv, ControlTypeOK, HostPcs, Captures, InAction
  <2> QED
    BY <1>1, <2>1, <2>2, <2>3, <2>4 DEF enroll_cb, EnrollCancelled, EnrollDone, EnrollAgain,
       CancelledResponds, Responds, enrollVars
<1>2. ASSUME NEW kind \in {"verify", "identify"}, NEW type, NEW results,
             IdentifyCallback(kind, type, results)
      PROVE  ControlInv'
  <2>1. CASE \E why : Ends(why)
    BY <2>1, EndsControl
  <2>2. CASE NoMoreCapture /\ UNCHANGED enrolling
    <3>1. enrolling \in BOOLEAN /\ (~DiscardFails => enrolling = FALSE)
      BY <1>2 DEF IdentifyCallback, Completed, ControlInv, ControlTypeOK
    <3> QED
      BY <2>2, <3>1, DoneControl
  <2> QED
    BY <1>2, <2>1, <2>2 DEF IdentifyCallback, CancelledResponds, Captured, BadCapture, CaptureError,
       Responds, enrollVars
<1> QED
  BY <1>1, <1>2 DEF CaptureCallback, verify_via_identify_cb, identify_cb

LEMMA NextControl == ControlInv /\ [Next]_vars => ControlInv'
<1> SUFFICES ASSUME ControlInv, [Next]_vars PROVE ControlInv'
  OBVIOUS
<1>1. CASE HostBoot
  BY <1>1 DEF HostBoot, ControlInv, ControlTypeOK, HostPcs, Captures, Kinds, InAction
<1>2. CASE HostSteps
  <2>1. CASE tudor_set_async_callback
    <3>1. CASE Ends("reentrance")
      BY <3>1, EndsControl
    <3>2. CASE /\ asyncRes = "started" /\ asyncRes' = "armed" /\ hpc' = "loop"
               /\ UNCHANGED <<actionKind, cancelled, enrollVars>>
      BY <3>2 DEF ControlInv, ControlTypeOK, HostPcs, Captures, InAction, enrollVars
    <3> QED
      BY <2>1, <3>1, <3>2 DEF tudor_set_async_callback
  <2>2. CASE CompletesEarly
    BY <2>2 DEF CompletesEarly, ControlInv, ControlTypeOK, Captures, InAction, enrollVars
  <2>3. CASE main_close
    BY <2>3, EndsControl DEF main_close
  <2>4. CASE EnrollAnswers
    <3>1. CASE Ends("answer")
      BY <3>1, EndsControl
    <3>2. CASE hpc = "committed" /\ hpc' = "loop" /\ UNCHANGED <<captureVars, enrollVars>>
      BY <3>2 DEF ControlInv, ControlTypeOK, HostPcs, InAction, captureVars, enrollVars
    <3> QED
      BY <2>4, <3>1, <3>2 DEF EnrollAnswers
  <2> QED
    BY <1>2, <2>1, <2>2, <2>3, <2>4, OpenControl, HandleControl, CallbackControl DEF HostSteps
<1>3. CASE HostCrash
  BY <1>3, EndsControl DEF HostCrash
<1>4. CASE ClientReads \/ Relaunch \/ \E m \in Requests : ClientSends(m)
  BY <1>4, SameControl DEF ClientReads, Relaunch, ClientSends, hostVars, hostLocal, captureVars,
                           enrollVars
<1>5. CASE UNCHANGED vars
  BY <1>5, SameControl DEF vars, hostVars, hostLocal, captureVars, enrollVars
<1> QED
  BY <1>1, <1>2, <1>3, <1>4, <1>5 DEF Next, HostNext

(* The invariant holds whatever the client sends (handler.c:291-461). *)
THEOREM HostControl == Spec => []ControlInv
  BY InitControl, NextControl, PTL DEF Spec

(* No enroll capture ever runs outside an enrollment (device.c:374). *)
THEOREM HostCapturesWhileEnrolling == Spec => []CapturesWhileEnrolling
<1>1. ControlInv => CapturesWhileEnrolling
  BY DEF ControlInv, CapturesWhileEnrolling
<1> QED
  BY <1>1, HostControl, PTL

(* If the DLL can always discard an enrollment, the driver is enrolling    *)
(* exactly while an enroll capture is under way (device.c:304-475).        *)
THEOREM HostEnrollingInAction ==
    ASSUME DiscardFails = FALSE
    PROVE  Spec => []EnrollingInAction
<1>1. ControlInv => EnrollingInAction
  BY DEF ControlInv, ControlTypeOK, EnrollingInAction
<1> QED
  BY <1>1, HostControl, PTL

(* ... and a shutdown finds the handler idle and the driver not enrolling  *)
(* (handler.c:293-296, main.c:199-217).                                    *)
THEOREM HostClosesIdle ==
    ASSUME DiscardFails = FALSE
    PROVE  Spec => []ClosesIdle
<1>1. ControlInv => ClosesIdle
  BY DEF ControlInv, ControlTypeOK, ClosesIdle
<1> QED
  BY <1>1, HostControl, PTL

-----------------------------------------------------------------------------
(* Types: what travels on the link, what main and the handler remember.    *)
HostInv ==
    /\ HostTypeOK
    /\ InAction /\ actionKind = "enroll" => enrollRec \in Records

LEMMA AnswerMsgs ==
    /\ \A t \in PlainAnswers : Plain(t) \in Answers
    /\ ACK \in Answers
    /\ \A a \in {"retry", "more", "done", "duplicate"} : Msg("RESP_ENROLL", a) \in Answers
    /\ \A a \in {"retry", "match", "no_match"} : Msg("RESP_VERIFY", a) \in Answers
    /\ \A a \in {"retry", "unknown", "no_match"} \cup Records : Msg("RESP_IDENTIFY", a) \in Answers
  BY DEF Answers, ACK, PlainAnswers

(* A request that carries a record carries one of Records. *)
LEMMA RequestArg ==
    ASSUME NEW m \in Requests, m.type \in RecordRequests
    PROVE  m.arg \in Records
  <1>1. CASE \E t \in PlainRequests : m = Plain(t)
    BY <1>1 DEF Plain, Msg, PlainRequests, RecordRequests
  <1>2. CASE \E t \in RecordRequests, r \in Records : m = Msg(t, r)
    BY <1>2 DEF Msg
  <1>3. QED
    BY <1>1, <1>2 DEF Requests

LEMMA SendsType ==
    ASSUME NEW m \in Answers, toPlugin \in Seq(Answers), HostSends(m)
    PROVE  toPlugin' \in Seq(Answers)
  BY DEF HostSends

LEMMA ConsumeType ==
    ASSUME toHost \in Seq(Requests), Consume
    PROVE  toHost' \in Seq(Requests) /\ Head(toHost) \in Requests
  BY DEF Consume

(* The handler's memory and the templates, without the link. *)
LocalTypeOK ==
    /\ hpc \in HostPcs
    /\ asyncRes \in Captures
    /\ actionKind \in Kinds
    /\ cancelled \in BOOLEAN
    /\ captureFails \in 0..MaxFails
    /\ ackAfter \in BOOLEAN
    /\ enrolling \in BOOLEAN
    /\ enrollRec \in Records \cup {NoRecord}
    /\ cachedPdata \in BOOLEAN
    /\ sensor \subseteq Records
    /\ fault \in Faults
    /\ InAction /\ actionKind = "enroll" => enrollRec \in Records

LEMMA HostInvSplit == HostInv <=> LinkTypeOK /\ LocalTypeOK
  BY DEF HostInv, HostTypeOK, LocalTypeOK

LEMMA LinkNext ==
    ASSUME HostInv, [Next]_vars
    PROVE  LinkTypeOK'
  <1>1. /\ toHost \in Seq(Requests) /\ toPlugin \in Seq(Answers)
        /\ proc \in {"none", "spawned", "running", "dead"} /\ sensor \subseteq Records
    BY DEF HostInv, HostTypeOK, LinkTypeOK
  <1>2. toHost' \in Seq(Requests)
    <2>1. UNCHANGED toHost \/ Consume \/ toHost' = <<>> \/ \E m \in Requests : PluginSends(m)
      BY DEF Next, HostNext, HostBoot, HostSteps, HostCrash, main_open, recv_init_msg, get_pdata_cb,
             set_pdata_cb, OpenReturns, RecvExpected, handle_msg, check_in_action,
             handle_unexpected, Accepts, handle_SHUTDOWN, handle_PROBE, handle_CANCEL,
             handle_ADD_RECORD, handle_DEL_RECORD, handle_CLEAR_RECORDS, handle_ENROLL,
             handle_VERIFY, handle_IDENTIFY, StartIdentify, tudor_set_async_callback,
             CompletesEarly, CaptureCallback, enroll_cb, verify_via_identify_cb, identify_cb,
             EnrollAnswers, IdentifyCallback, main_close, ClientReads, ClientSends, Relaunch, vars, ipcVars
    <2>2. CASE Consume
      BY <1>1, <2>2, ConsumeType
    <2>3. CASE \E m \in Requests : PluginSends(m)
      BY <1>1, <2>3 DEF PluginSends
    <2>4. CASE toHost' = <<>>
      <3>1. <<>> \in Seq(Requests)
        OBVIOUS
      <3>2. QED
        BY <2>4, <3>1, Zenon
    <2>5. QED
      BY <1>1, <2>1, <2>2, <2>3, <2>4
  <1>3. proc' \in {"none", "spawned", "running", "dead"}
    <2>1. proc' = proc \/ proc' \in {"spawned", "running", "dead"}
      BY DEF Next, HostNext, HostBoot, HostSteps, HostCrash, main_open, recv_init_msg, get_pdata_cb,
             set_pdata_cb, OpenReturns, RecvExpected, handle_msg, check_in_action,
             handle_unexpected, handle_SHUTDOWN, handle_PROBE, handle_CANCEL, handle_ADD_RECORD,
             handle_DEL_RECORD, WipeRecords, handle_CLEAR_RECORDS, handle_ENROLL, handle_VERIFY,
             handle_IDENTIFY, StartIdentify, tudor_set_async_callback, CompletesEarly,
             CaptureCallback, enroll_cb, verify_via_identify_cb, EnrollCancelled, EnrollDone,
             EnrollAgain, CancelledResponds, Captured, BadCapture, CaptureError, identify_cb,
             IdentifyCallback, Responds, EnrollAnswers, main_close, ClientReads, ClientSends, Relaunch, vars,
             ipcVars, Ends
    <2>2. QED
      BY <1>1, <2>1
  <1>4. toPlugin' \in Seq(Answers)
    <2> USE <1>1, AnswerMsgs, SendsType
    <2>1. CASE main_open
      BY <2>1 DEF main_open, recv_init_msg, get_pdata_cb, set_pdata_cb, OpenReturns, RecvExpected,
                  PlainAnswers
    <2>2. CASE handle_msg
      BY <2>2 DEF handle_msg, check_in_action, handle_unexpected, handle_SHUTDOWN, handle_PROBE,
                  handle_CANCEL, handle_ADD_RECORD, handle_DEL_RECORD, handle_CLEAR_RECORDS,
                  WipeRecords, handle_ENROLL, handle_VERIFY, handle_IDENTIFY, StartIdentify,
                  PlainAnswers
    <2>3. CASE tudor_set_async_callback
      BY <2>3 DEF tudor_set_async_callback
    <2>4. CASE enroll_cb
      BY <2>4 DEF enroll_cb, EnrollCancelled, EnrollDone, EnrollAgain, CancelledResponds, Responds
    <2>5. CASE verify_via_identify_cb
      BY <2>5 DEF verify_via_identify_cb, IdentifyCallback, CancelledResponds, Captured, BadCapture,
                  CaptureError, Responds
    <2>6. CASE identify_cb
      BY <2>6 DEF identify_cb, IdentifyCallback, CancelledResponds, Captured, BadCapture,
                  CaptureError, Responds
    <2>7. CASE ClientReads
      BY <2>7 DEF ClientReads
    <2>8. CASE Relaunch
      BY <2>8 DEF Relaunch
    <2>9. CASE UNCHANGED toPlugin
      BY <2>9
    <2>10. CASE EnrollAnswers
      BY <2>10 DEF EnrollAnswers
    <2>11. QED
      BY <2>1, <2>2, <2>3, <2>4, <2>5, <2>6, <2>7, <2>8, <2>9, <2>10
      DEF Next, HostNext, HostBoot, HostSteps, HostCrash, CompletesEarly, CaptureCallback, main_close,
          ClientSends, vars, ipcVars
  <1>5. QED
    BY <1>2, <1>3, <1>4 DEF LinkTypeOK

LEMMA EndsLocal ==
    ASSUME LocalTypeOK, NEW why \in Faults, Ends(why)
    PROVE  LocalTypeOK'
  BY DEF LocalTypeOK, Ends, hostLocal, captureVars, enrollVars, InAction

LEMMA SameLocal ==
    ASSUME LocalTypeOK, UNCHANGED <<hpc, captureVars, captureFails, enrollVars, cachedPdata, fault>>,
           sensor' \subseteq sensor
    PROVE  LocalTypeOK'
  BY DEF LocalTypeOK, captureVars, enrollVars, InAction

LEMMA StartLocal ==
    ASSUME LocalTypeOK, NEW kind \in Kinds, NEW ack \in BOOLEAN, StartCapture(kind, ack),
           enrolling' \in BOOLEAN, enrollRec' \in Records \cup {NoRecord},
           kind = "enroll" => enrollRec' \in Records,
           UNCHANGED <<captureFails, cachedPdata, sensor, fault>>
    PROVE  LocalTypeOK'
  BY DEF LocalTypeOK, StartCapture, HostPcs, Captures, InAction

(* cleanup_action and an answer: no capture is left. *)
LEMMA RespondsLocal ==
    ASSUME LocalTypeOK, NoMoreCapture, UNCHANGED <<cachedPdata, fault, enrollRec>>,
           enrolling' \in BOOLEAN, captureFails' \in 0..MaxFails, sensor' \subseteq Records
    PROVE  LocalTypeOK'
  BY DEF LocalTypeOK, NoMoreCapture, Captures, InAction

LEMMA OpenLocal ==
    ASSUME LocalTypeOK, main_open
    PROVE  LocalTypeOK'
  <1>1. ASSUME NEW next \in HostPcs, hpc' = next, cachedPdata' \in BOOLEAN,
               UNCHANGED <<captureVars, captureFails, enrollVars, sensor, fault>>
        PROVE  LocalTypeOK'
    BY <1>1 DEF LocalTypeOK, captureVars, enrollVars, InAction
  <1>2. ASSUME NEW type, NEW next \in HostPcs, NEW cached \in BOOLEAN, RecvExpected(type, next, cached)
        PROVE  LocalTypeOK'
    <2>1. CASE Ends("type")
      BY <2>1, EndsLocal DEF Faults
    <2>2. QED
      BY <1>1, <1>2, <2>1 DEF RecvExpected
  <1>3. cachedPdata \in BOOLEAN
    BY DEF LocalTypeOK
  <1>4. CASE recv_init_msg
    BY <1>2, <1>3, <1>4 DEF recv_init_msg, HostPcs
  <1>5. CASE get_pdata_cb
    BY <1>1, <1>2, <1>3, <1>5 DEF get_pdata_cb, HostPcs
  <1>6. CASE set_pdata_cb
    BY <1>1, <1>2, <1>3, <1>6 DEF set_pdata_cb, HostPcs
  <1>7. CASE OpenReturns
    <2>1. CASE Ends("open_failed")
      BY <2>1, EndsLocal DEF Faults
    <2>2. QED
      BY <1>1, <1>3, <1>7, <2>1 DEF OpenReturns, HostPcs
  <1>8. QED
    BY <1>4, <1>5, <1>6, <1>7 DEF main_open

LEMMA HandleLocal ==
    ASSUME LinkTypeOK, LocalTypeOK, handle_msg
    PROVE  LocalTypeOK'
  <1>1. toHost \in Seq(Requests)
    BY DEF LinkTypeOK
  <1>2. CASE check_in_action \/ handle_unexpected
    BY <1>2, EndsLocal DEF check_in_action, handle_unexpected, Faults
  <1>3. CASE handle_SHUTDOWN
    BY <1>3 DEF handle_SHUTDOWN, LocalTypeOK, captureVars, enrollVars, InAction, HostPcs
  <1>4. CASE handle_PROBE \/ handle_ADD_RECORD
    BY <1>4, SameLocal DEF handle_PROBE, handle_ADD_RECORD, hostVars, hostLocal
  <1>5. CASE handle_CANCEL
    BY <1>5 DEF handle_CANCEL, LocalTypeOK, enrollVars, InAction
  <1>6. CASE handle_DEL_RECORD \/ handle_CLEAR_RECORDS
    BY <1>6, SameLocal DEF handle_DEL_RECORD, handle_CLEAR_RECORDS, WipeRecords, hostLocal
  <1>7. CASE handle_ENROLL
    <2>1. CASE Ends("enrolling") \/ Ends("start")
      BY <2>1, EndsLocal DEF Faults
    <2>2. Head(toHost).arg \in Records
      <3>1. Head(toHost) \in Requests /\ Head(toHost).type = "ENROLL"
        BY <1>1, <1>7, ConsumeType DEF handle_ENROLL, Accepts
      <3>2. QED
        BY <3>1, RequestArg DEF RecordRequests
    <2>3. CASE /\ enrolling' = TRUE /\ enrollRec' = Head(toHost).arg /\ StartCapture("enroll", TRUE)
               /\ UNCHANGED <<captureFails, cachedPdata, sensor, fault>>
      BY <2>2, <2>3, StartLocal DEF Kinds
    <2>4. QED
      BY <1>7, <2>1, <2>3 DEF handle_ENROLL
  <1>8. ASSUME NEW type, NEW kind \in Kinds \ {"enroll"}, StartIdentify(type, kind)
        PROVE  LocalTypeOK'
    <2>1. CASE Ends("enrolling") \/ Ends("start")
      BY <2>1, EndsLocal DEF Faults
    <2>2. CASE /\ StartCapture(kind, TRUE)
               /\ UNCHANGED <<captureFails, enrollVars, cachedPdata, sensor, fault>>
      <3>1. enrolling' \in BOOLEAN /\ enrollRec' \in Records \cup {NoRecord}
        BY <2>2 DEF LocalTypeOK, enrollVars
      <3>2. QED
        BY <2>2, <3>1, StartLocal
    <2>3. QED
      BY <1>8, <2>1, <2>2 DEF StartIdentify
  <1>9. CASE handle_VERIFY \/ handle_IDENTIFY
    BY <1>8, <1>9 DEF handle_VERIFY, handle_IDENTIFY, Kinds
  <1>10. QED
    BY <1>2, <1>3, <1>4, <1>5, <1>6, <1>7, <1>9 DEF handle_msg

LEMMA CallbackLocal ==
    ASSUME LocalTypeOK, CaptureCallback
    PROVE  LocalTypeOK'
  <1>1. /\ enrolling \in BOOLEAN /\ captureFails \in 0..MaxFails /\ sensor \subseteq Records
        /\ enrollRec \in Records \cup {NoRecord}
    BY DEF LocalTypeOK
  <1>2. CASE enroll_cb
    <2>1. enrollRec \in Records
      BY <1>2 DEF enroll_cb, Completed, LocalTypeOK, InAction
    <2>2. CASE EnrollCancelled
      <3>1. CASE Ends("discard")
        BY <3>1, EndsLocal DEF Faults
      <3>2. QED
        BY <1>1, <2>2, <3>1, RespondsLocal DEF EnrollCancelled, CancelledResponds, Responds
    <2>3. CASE EnrollDone
      <3>1. CASE Ends("commit")
        BY <3>1, EndsLocal DEF Faults
      <3>2. CASE /\ Responds(Msg("RESP_ENROLL", "duplicate")) /\ enrolling' \in BOOLEAN
                 /\ UNCHANGED <<enrollRec, captureFails, sensor>>
        BY <1>1, <3>2, RespondsLocal DEF Responds
      <3>3. CASE /\ asyncRes' = "none" /\ hpc' = "committed" /\ enrolling' = FALSE
                 /\ sensor' = sensor \cup {enrollRec}
                 /\ UNCHANGED <<actionKind, cancelled, ackAfter, enrollRec, captureFails, cachedPdata,
                                fault>>
        BY <2>1, <3>3 DEF LocalTypeOK, HostPcs, Captures, InAction
      <3>4. QED
        BY <2>3, <3>1, <3>2, <3>3 DEF EnrollDone
    <2>4. CASE EnrollAgain
      <3>1. CASE Ends("start")
        BY <3>1, EndsLocal DEF Faults
      <3>2. CASE /\ StartCapture("enroll", FALSE)
                 /\ UNCHANGED <<captureFails, enrollVars, cachedPdata, sensor, fault>>
        BY <1>1, <2>1, <3>2, StartLocal DEF enrollVars, Kinds
      <3>3. QED
        BY <2>4, <3>1, <3>2 DEF EnrollAgain
    <2>5. QED
      BY <1>2, <2>2, <2>3, <2>4 DEF enroll_cb
  <1>3. ASSUME NEW kind, NEW type, NEW results, IdentifyCallback(kind, type, results)
        PROVE  LocalTypeOK'
    <2>1. UNCHANGED <<enrollVars, sensor>>
      BY <1>3 DEF IdentifyCallback
    <2>2. CASE Ends("captures")
      BY <2>2, EndsLocal DEF Faults
    <2>3. ASSUME NEW m, Responds(m), captureFails' \in 0..MaxFails
          PROVE  LocalTypeOK'
      BY <1>1, <2>1, <2>3, RespondsLocal DEF Responds, enrollVars
    <2>4. CASE CancelledResponds /\ UNCHANGED captureFails
      BY <1>1, <2>3, <2>4 DEF CancelledResponds
    <2>5. CASE Captured(type, results)
      BY <1>1, <2>3, <2>5, HostAssumption DEF Captured
    <2>6. CASE BadCapture(type)
      BY <1>1, <2>3, <2>6 DEF BadCapture
    <2>7. CASE CaptureError(type)
      <3>1. captureFails < MaxFails => captureFails + 1 \in 0..MaxFails
        BY <1>1, HostAssumption
      <3>2. QED
        BY <2>2, <2>3, <2>7, <3>1 DEF CaptureError
    <2>8. QED
      BY <1>3, <2>4, <2>5, <2>6, <2>7 DEF IdentifyCallback
  <1>4. QED
    BY <1>2, <1>3 DEF CaptureCallback, verify_via_identify_cb, identify_cb

LEMMA LocalNext ==
    ASSUME HostInv, [Next]_vars
    PROVE  LocalTypeOK'
  <1>1. LinkTypeOK /\ LocalTypeOK
    BY HostInvSplit
  <1>2. CASE HostBoot
    <2>1. 0 \in 0..MaxFails
      BY HostAssumption
    <2>2. LocalTypeOK /\ UNCHANGED sensor
      BY <1>1, <1>2 DEF HostBoot
    <2>3. QED
      BY <1>2, <2>1, <2>2 DEF HostBoot, LocalTypeOK, HostPcs, Captures, Kinds, InAction, Faults
  <1>3. CASE tudor_set_async_callback
    <2>1. CASE Ends("reentrance")
      BY <1>1, <2>1, EndsLocal DEF Faults
    <2>2. CASE /\ asyncRes = "started" /\ asyncRes' = "armed" /\ hpc' = "loop"
               /\ UNCHANGED <<actionKind, cancelled, ackAfter, captureFails, enrollVars, cachedPdata,
                              sensor, fault>>
      BY <1>1, <2>2 DEF LocalTypeOK, HostPcs, Captures, InAction, enrollVars
    <2>3. QED
      BY <1>3, <2>1, <2>2 DEF tudor_set_async_callback
  <1>4. CASE CompletesEarly
    BY <1>1, <1>4 DEF CompletesEarly, LocalTypeOK, Captures, InAction, enrollVars
  <1>5. CASE main_close \/ HostCrash
    BY <1>1, <1>5, EndsLocal DEF main_close, HostCrash, Faults
  <1>6. CASE EnrollAnswers
    <2>1. CASE Ends("answer")
      BY <1>1, <2>1, EndsLocal DEF Faults
    <2>2. CASE /\ hpc' = "loop"
               /\ UNCHANGED <<captureVars, captureFails, enrollVars, cachedPdata, sensor, fault>>
      BY <1>1, <2>2 DEF LocalTypeOK, HostPcs, InAction, captureVars, enrollVars
    <2>3. QED
      BY <1>6, <2>1, <2>2 DEF EnrollAnswers
  <1>7. CASE HostSteps
    BY <1>1, <1>3, <1>4, <1>5, <1>7, <1>6, OpenLocal, HandleLocal, CallbackLocal DEF HostSteps
  <1>8. CASE ClientReads \/ Relaunch \/ \E m \in Requests : ClientSends(m)
    BY <1>1, <1>8, SameLocal DEF ClientReads, Relaunch, ClientSends, hostVars, hostLocal
  <1>9. CASE UNCHANGED vars
    BY <1>1, <1>9, SameLocal DEF vars, hostVars, hostLocal
  <1>10. QED
    BY <1>2, <1>5, <1>7, <1>8, <1>9 DEF Next, HostNext

(* Whatever a client sends and however the DLL answers, the host's state    *)
(* keeps its types: it stores only records it was asked to enroll, and     *)
(* never counts past MAX_CONSECUTIVE_CAPTURE_FAILS (handler.c:209, 254).    *)
THEOREM HostTypes == Spec => []HostTypeOK
  <1>1. Init => HostInv
    <2> SUFFICES ASSUME Init PROVE HostInv
      OBVIOUS
    <2>1. toHost \in Seq(Requests) /\ toPlugin \in Seq(Answers)
      BY DEF Init
    <2>2. LinkTypeOK
      BY <2>1 DEF Init, LinkTypeOK
    <2>3. LocalTypeOK
      <3>1. 0 \in 0..MaxFails
        BY HostAssumption
      <3>2. QED
        BY <3>1 DEF Init, HostInit, HostLocalInit, LocalTypeOK, HostPcs, Captures, Kinds, Faults,
                    InAction
    <2>4. QED
      BY <2>2, <2>3, HostInvSplit
  <1>2. HostInv /\ [Next]_vars => HostInv'
    <2> SUFFICES ASSUME HostInv, [Next]_vars PROVE HostInv'
      OBVIOUS
    <2>1. LinkTypeOK' /\ LocalTypeOK'
      BY LinkNext, LocalNext
    <2>2. QED
      BY <2>1 DEF HostInv, HostTypeOK, LocalTypeOK
  <1>3. HostInv => HostTypeOK
    BY DEF HostInv
  <1>4. QED
    BY <1>1, <1>2, <1>3, PTL DEF Spec

(* A committed enrollment whose answer is due is on the sensor. *)
CommitInv == hpc = "committed" => enrollRec \in sensor

(* Every step but the commit and its answer leaves hpc = "committed" behind *)
(* or keeps it together with the record and the templates.                  *)
LEMMA KeepsCommit ==
    ASSUME [Next]_vars
    PROVE  \/ hpc' # "committed"
           \/ UNCHANGED <<hpc, enrollRec, sensor>>
           \/ hpc' = "committed" /\ UNCHANGED enrollRec /\ sensor' = sensor \cup {enrollRec}
  <1>1. CASE main_open
    BY <1>1 DEF main_open, recv_init_msg, get_pdata_cb, set_pdata_cb, OpenReturns, RecvExpected, Ends,
                hostLocal, enrollVars
  <1>2. CASE handle_msg
    BY <1>2 DEF handle_msg, check_in_action, handle_unexpected, handle_SHUTDOWN, handle_PROBE,
                handle_CANCEL, handle_ADD_RECORD, handle_DEL_RECORD, WipeRecords,
                handle_CLEAR_RECORDS, handle_ENROLL, handle_VERIFY, handle_IDENTIFY, StartIdentify,
                StartCapture, hostVars, hostLocal, Ends
  <1>3. CASE CaptureCallback
    BY <1>3 DEF CaptureCallback, enroll_cb, Completed, EnrollCancelled, EnrollDone, EnrollAgain,
                CancelledResponds, StartCapture, Responds, NoMoreCapture, verify_via_identify_cb,
                identify_cb, IdentifyCallback, Captured, BadCapture, CaptureError, Ends, hostLocal
  <1>4. QED
    BY <1>1, <1>2, <1>3
    DEF Next, HostNext, HostBoot, HostSteps, HostCrash, tudor_set_async_callback, CompletesEarly,
        EnrollAnswers, main_close, ClientReads, ClientSends, Relaunch, vars, hostVars, hostLocal,
        enrollVars, Ends

(* "done" is sent only as the answer to a commit. *)
LEMMA SendsDone ==
    ASSUME [Next]_vars, toPlugin \in Seq(Answers),
           toPlugin' = Append(toPlugin, Msg("RESP_ENROLL", "done"))
    PROVE  hpc = "committed"
  <1>1. toPlugin' # toPlugin /\ toPlugin' # <<>> /\ (toPlugin # <<>> => toPlugin' # Tail(toPlugin))
    OBVIOUS
  <1>2. ASSUME NEW m, HostSends(m)
        PROVE  m = Msg("RESP_ENROLL", "done")
    <2>1. toPlugin' = Append(toPlugin, m)
      BY <1>2 DEF HostSends
    <2>2. toPlugin'[Len(toPlugin) + 1] = m /\ toPlugin'[Len(toPlugin) + 1] = Msg("RESP_ENROLL", "done")
      BY <2>1
    <2>3. QED
      BY <2>2
  <1>3. ASSUME NEW t \in {"READY", "RESP_PROBE", "ACK", "LOAD_PDATA", "STORE_PDATA", "RESP_VERIFY",
                          "RESP_IDENTIFY"}, NEW a
        PROVE  ~HostSends(Msg(t, a))
    BY <1>2, <1>3 DEF Msg
  <1>4. ASSUME NEW a \in {"more", "retry", "duplicate"}
        PROVE  ~HostSends(Msg("RESP_ENROLL", a))
    BY <1>2, <1>4 DEF Msg
  <1>5. ~main_open
    BY <1>1, <1>3 DEF main_open, recv_init_msg, get_pdata_cb, set_pdata_cb, OpenReturns,
                      RecvExpected, Plain
  <1>6. ~handle_msg
    BY <1>1, <1>3 DEF handle_msg, check_in_action, handle_unexpected, handle_SHUTDOWN, handle_PROBE,
                      handle_CANCEL, handle_ADD_RECORD, handle_DEL_RECORD, WipeRecords,
                      handle_CLEAR_RECORDS, handle_ENROLL, handle_VERIFY, handle_IDENTIFY,
                      StartIdentify, Plain, ACK
  <1>7. ~enroll_cb
    BY <1>1, <1>3, <1>4 DEF enroll_cb, EnrollCancelled, EnrollDone, EnrollAgain, CancelledResponds,
                            Responds, Plain, ACK
  <1>8. ASSUME NEW kind, NEW t \in {"RESP_VERIFY", "RESP_IDENTIFY"}, NEW results
        PROVE  ~IdentifyCallback(kind, t, results)
    BY <1>1, <1>3 DEF IdentifyCallback, CancelledResponds, Captured, BadCapture, CaptureError,
                      Responds, Plain, ACK
  <1>9. ~CaptureCallback
    BY <1>7, <1>8 DEF CaptureCallback, verify_via_identify_cb, identify_cb
  <1>10. ~tudor_set_async_callback
    BY <1>1, <1>3 DEF tudor_set_async_callback, Plain, ACK
  <1>11. QED
    BY <1>1, <1>5, <1>6, <1>9, <1>10
    DEF Next, HostNext, HostBoot, HostSteps, HostCrash, CompletesEarly, EnrollAnswers, main_close,
        ClientReads, ClientSends, Relaunch, vars, ipcVars

(* The client is told that a print is enrolled only while its template is   *)
(* on the sensor (handler.c:93-167): proved for any client, any failures of *)
(* the DLL and a host that may fail between the commit and the answer.      *)
THEOREM HostDoneIsStored == Spec => DoneIsStored
  <1> DEFINE Told == toPlugin' = Append(toPlugin, Msg("RESP_ENROLL", "done")) => enrollRec \in sensor
  <1>1. Init => CommitInv
    BY DEF Init, HostInit, HostLocalInit, CommitInv
  <1>2. CommitInv /\ [Next]_vars => CommitInv'
    <2> SUFFICES ASSUME CommitInv, [Next]_vars PROVE CommitInv'
      OBVIOUS
    <2>1. QED
      BY KeepsCommit DEF CommitInv
  <1>3. HostTypeOK /\ CommitInv /\ [Next]_vars => [Told]_vars
    BY SendsDone DEF HostTypeOK, LinkTypeOK, CommitInv
  <1>4. QED
    BY <1>1, <1>2, <1>3, HostTypes, PTL DEF Spec, DoneIsStored
=============================================================================
