----------------------------- MODULE CaptureIo -----------------------------
(***************************************************************************)
(* One fingerprint capture on its way through the shims: the DLL's         *)
(* StartCapture calls DeviceIoControl (winapi/io.c), which turns into a    *)
(* WDF request for the driver half of the DLL (tudor/device.c, wdf/file.c, *)
(* wdf/request.c), whose completion completes the OVERLAPPED and starts    *)
(* the thread that runs the capture's callback (tudor/async.c).            *)
(*                                                                         *)
(* Three threads: "client" is the host's message thread, "driver" the DLL's*)
(* own thread, "cb" the callback's thread.  A step ends where another      *)
(* thread can get in between: at a lock, an event or an atomic access.     *)
(*                                                                         *)
(* The DLL is external.  It decides whether it completes a request inside  *)
(* the queue's handler or later, whether and when it makes the request     *)
(* cancelable, and whether its FinishCapture collects the OVERLAPPED with  *)
(* GetOverlappedResult.                                                    *)
(***************************************************************************)
EXTENDS Naturals, Sequences

CONSTANT MaxOps   \* captures in a behaviour

ASSUME CaptureAssumption == MaxOps \in Nat

Threads  == {"client", "driver", "cb"}
Outcomes == {"success", "failed", "cancelled"}
Pending  == "pending"
None     == "none"

VARIABLES ovlp,     \* the OVERLAPPED: Internal, whether Pointer is set, hEvent
          op,       \* the struct winfile_op behind Pointer
          req,      \* the struct winwdf_request
          lock,     \* who holds req->lock
          hlock,    \* who holds handler_state.lock
          armed,    \* tudor_set_async_callback stored the handler's callback
          res,      \* tudor_async_res.success; None once async_res is NULL
          outBuf,   \* the caller's output buffer holds the driver's answer
          dll,      \* driver half: does it owe an answer, was it told to cancel
          compl,    \* wdf_complete_request in progress, under req->lock
          pc,       \* where each thread is
          cbStat,   \* the status the callback thread was started with
          ops,      \* captures started
          fault     \* memory that was used after its free, or an abort

memory == <<ovlp, op, req>>
locks  == <<lock, hlock>>
async  == <<armed, res>>
rest   == <<outBuf, dll, cbStat, ops, fault>>
vars   == <<memory, locks, async, rest, compl, pc>>

Requests == [alive : BOOLEAN, started : BOOLEAN, done : BOOLEAN, status : Outcomes \cup {None},
             drvCancel : BOOLEAN, cbs : {<<>>, <<"devctrl_cb">>, <<"req_cb", "devctrl_cb">>}]

ClientPcs == {"idle", "handler", "publish", "add_cb", "store_cb", "load", "exchange", "set_async",
              "action", "cancel", "drv_cancel", "relock", "wait", "blocked", "cleanup", "clear",
              "destroy", "return"}
CbPcs     == {"none", "run", "wait", "blocked", "cleanup", "clear", "destroy", "read", "read_early",
              "finish", "handler", "cleanup_async", "clear_async", "destroy_async", "return"}
Faults    == {None, "set_callback", "cancel", "complete", "twice", "answered_twice", "reentrance"}

TypeOK ==
    /\ ovlp \in [Internal : Outcomes \cup {Pending, None}, Pointer : BOOLEAN, event : BOOLEAN]
    /\ op \in [alive : BOOLEAN, ctx : BOOLEAN, cbStatus : Outcomes \cup {Pending}, cbFnc : BOOLEAN]
    /\ req \in Requests
    /\ lock \in Threads \cup {None} /\ hlock \in Threads \cup {None}
    /\ armed \in BOOLEAN /\ res \in {None, Pending, "ok", "err"} /\ outBuf \in BOOLEAN
    /\ dll \in [owes : BOOLEAN, told : BOOLEAN]
    /\ compl.by \in Threads \cup {None}
    /\ compl.at \in {None, "next", "event", "status", "callback"}
    /\ pc.client \in ClientPcs /\ pc.driver \in {"idle", "unmarked"} /\ pc.cb \in CbPcs
    /\ cbStat \in Outcomes \cup {None}
    /\ ops \in 0..MaxOps
    /\ fault \in Faults

NoCompletion == [by |-> None, at |-> None, status |-> None, left |-> <<>>, then |-> None]

Init ==
    /\ ovlp = [Internal |-> None, Pointer |-> FALSE, event |-> FALSE]
    /\ op = [alive |-> FALSE, ctx |-> FALSE, cbStatus |-> Pending, cbFnc |-> FALSE]
    /\ req = [alive |-> FALSE, started |-> FALSE, done |-> FALSE, status |-> None,
              drvCancel |-> FALSE, cbs |-> <<>>]
    /\ lock = None /\ hlock = None
    /\ armed = FALSE /\ res = None /\ outBuf = FALSE
    /\ dll = [owes |-> FALSE, told |-> FALSE]
    /\ compl = NoCompletion
    /\ pc = [client |-> "idle", driver |-> "idle", cb |-> "none"]
    /\ cbStat = None /\ ops = 0 /\ fault = None

Goto(t, p) == pc' = [pc EXCEPT ![t] = p]

(* A thread touches memory that was freed, or aborts: the model stops. *)
Broken(what) ==
    /\ fault' = what
    /\ UNCHANGED <<memory, locks, async, outBuf, dll, cbStat, ops, compl, pc>>

(* Thread t is at p, and not inside wdf_complete_request. *)
At(t, p) == pc[t] = p /\ compl.by # t

-----------------------------------------------------------------------------
(* Mutant: a request that is done already is completed again. *)
mut_wdf_complete_request(t, status, then) ==
    /\ lock = None
    /\ dll' = [dll EXCEPT !.owes = FALSE]
    /\ req' = [req EXCEPT !.done = TRUE, !.status = status]
    /\ lock' = t
    /\ compl' = [by |-> t, at |-> "next", status |-> status, left |-> req.cbs, then |-> then]
    /\ UNCHANGED <<ovlp, op, hlock, async, outBuf, cbStat, ops, fault, pc>>

(* wdf_complete_request.  It holds the request's lock until all callbacks   *)
(* were called, so one thread at a time is in it; that thread goes on at    *)
(* `then`.  A request that is not pending is left alone.                    *)
wdf_complete_request(t, status, then) ==
    /\ lock = None
    /\ dll' = [dll EXCEPT !.owes = FALSE]
    /\ IF req.started /\ ~req.done
         THEN /\ req' = [req EXCEPT !.done = TRUE, !.status = status]
              /\ lock' = t
              /\ compl' = [by |-> t, at |-> "next", status |-> status, left |-> req.cbs, then |-> then]
              /\ UNCHANGED pc
         ELSE /\ Goto(t, then)
              /\ UNCHANGED <<req, lock, compl>>
    /\ UNCHANGED <<ovlp, op, hlock, async, outBuf, cbStat, ops, fault>>

NextCallback(cb) == compl.at = "next" /\ compl.left # <<>> /\ Head(compl.left) = cb

(* devctrl_cb copies the answer to the caller's buffer. *)
devctrl_cb ==
    /\ NextCallback("devctrl_cb")
    /\ outBuf' = (compl.status = "success")
    /\ compl' = [compl EXCEPT !.left = Tail(@)]
    /\ UNCHANGED <<memory, locks, async, dll, cbStat, ops, fault, pc>>

(* req_cb calls winio_complete_overlapped, which takes the operation from   *)
(* Pointer before it writes Internal and wakes the waiter.                  *)
req_cb ==
    /\ NextCallback("req_cb")
    /\ ovlp' = [ovlp EXCEPT !.Internal = compl.status]
    /\ compl' = [compl EXCEPT !.left = Tail(@), !.at = "event"]
    /\ UNCHANGED <<op, req, locks, async, rest, pc>>

(* Mutant: the waiter is not woken. *)
mut_win_set_event ==
    /\ compl.at = "event"
    /\ compl' = [compl EXCEPT !.at = "status"]
    /\ UNCHANGED <<memory, locks, async, rest, pc>>

win_set_event ==
    /\ compl.at = "event"
    /\ ovlp' = [ovlp EXCEPT !.event = TRUE]
    /\ compl' = [compl EXCEPT !.at = "status"]
    /\ UNCHANGED <<op, req, locks, async, rest, pc>>

StoreStatus ==
    /\ compl.at = "status"
    /\ IF ~op.alive THEN Broken("complete")
       ELSE /\ op' = [op EXCEPT !.cbStatus = compl.status]
            /\ compl' = [compl EXCEPT !.at = "callback"]
            /\ UNCHANGED <<ovlp, req, locks, async, rest, pc>>

(* Mutant: the callback is read, and not taken. *)
mut_TakeCallback ==
    /\ compl.at = "callback"
    /\ IF ~op.alive THEN Broken("complete")
       ELSE /\ IF op.cbFnc THEN Goto("cb", "run") /\ cbStat' = compl.status
                           ELSE UNCHANGED <<pc, cbStat>>
            /\ compl' = [compl EXCEPT !.at = "next"]
            /\ UNCHANGED <<memory, locks, async, outBuf, dll, ops, fault>>

(* call_overlapped_cb, if there is a callback: it gets its own thread. *)
TakeCallback ==
    /\ compl.at = "callback"
    /\ IF ~op.alive THEN Broken("complete")
       ELSE /\ op' = [op EXCEPT !.cbFnc = FALSE]
            /\ IF op.cbFnc THEN Goto("cb", "run") /\ cbStat' = compl.status
                           ELSE UNCHANGED <<pc, cbStat>>
            /\ compl' = [compl EXCEPT !.at = "next"]
            /\ UNCHANGED <<ovlp, req, locks, async, outBuf, dll, ops, fault>>

UnlockRequest ==
    /\ compl.at = "next" /\ compl.left = <<>>
    /\ lock' = None
    /\ Goto(compl.by, compl.then)
    /\ compl' = NoCompletion
    /\ UNCHANGED <<memory, hlock, async, rest>>

CompletionStep ==
    devctrl_cb \/ req_cb \/ win_set_event \/ StoreStatus \/ TakeCallback \/ UnlockRequest

-----------------------------------------------------------------------------
init_overlapped ==
    /\ ovlp' = [Internal |-> Pending, Pointer |-> TRUE, event |-> FALSE]
    /\ op' = [alive |-> TRUE, ctx |-> FALSE, cbStatus |-> Pending, cbFnc |-> FALSE]

wdf_create_request == [alive |-> TRUE, started |-> FALSE, done |-> FALSE, status |-> None,
                       drvCancel |-> FALSE, cbs |-> <<>>]

wdf_configure_request(r) ==
    [r EXCEPT !.started = FALSE, !.done = FALSE, !.status = None, !.drvCancel = FALSE]

wdf_start_request(r) == [r EXCEPT !.started = TRUE]

(* winwdf_devctrl_file, up to the call of the driver half *)
winwdf_devctrl_file ==
    wdf_start_request([wdf_configure_request(wdf_create_request) EXCEPT !.cbs = <<"devctrl_cb">>])

(* tudor_devctrl, likewise; from here the driver half owes an answer. *)
tudor_devctrl ==
    /\ req' = winwdf_devctrl_file
    /\ outBuf' = FALSE
    /\ dll' = [owes |-> TRUE, told |-> FALSE]

async_new_res == armed' = FALSE /\ res' = Pending

(* The message thread starts a capture under the handler's lock: the DLL's  *)
(* StartCapture calls DeviceIoControl, which calls tudor_devctrl.           *)
DeviceIoControl ==
    /\ pc.client = "idle" /\ hlock = None /\ ops < MaxOps
    /\ hlock' = "client"
    /\ ops' = ops + 1
    /\ init_overlapped
    /\ tudor_devctrl
    /\ async_new_res
    /\ cbStat' = None
    /\ Goto("client", "handler")
    /\ UNCHANGED <<lock, compl, fault>>

(* wdf_queue_devctrl calls EvtIoDeviceControl of the driver half (external),*)
(* which completes the request on this thread, or keeps it.                 *)
EvtIoDeviceControl ==
    /\ At("client", "handler")
    /\ \/ \E s \in {"success", "failed"} : wdf_complete_request("client", s, "publish")
       \/ /\ \E marked \in BOOLEAN : req' = [req EXCEPT !.drvCancel = marked]
          /\ Goto("client", "publish")
          /\ UNCHANGED <<ovlp, op, locks, async, rest, compl>>

(* winwdf_devctrl_file stores the request in op->op_ctx. *)
PublishRequest ==
    /\ pc.client = "publish"
    /\ op' = [op EXCEPT !.ctx = TRUE]
    /\ Goto("client", "add_cb")
    /\ UNCHANGED <<ovlp, req, locks, async, rest, compl>>

(* winwdf_add_request_callback(req_cb): called at once if the request is    *)
(* done, otherwise put in front of devctrl_cb.                              *)
winwdf_add_request_callback ==
    /\ At("client", "add_cb") /\ lock = None
    /\ IF req.done
         THEN /\ lock' = "client"
              /\ compl' = [by |-> "client", at |-> "next", status |-> req.status,
                           left |-> <<"req_cb">>, then |-> "store_cb"]
              /\ UNCHANGED <<req, pc>>
         ELSE /\ req' = [req EXCEPT !.cbs = <<"req_cb">> \o @]
              /\ Goto("client", "store_cb")
              /\ UNCHANGED <<lock, compl>>
    /\ UNCHANGED <<ovlp, op, hlock, async, rest>>

(* winio_set_overlapped_callback: store the callback, look at the status,   *)
(* take the callback back if it came too late for the completion.           *)
StoreCallback ==
    /\ pc.client = "store_cb"
    /\ IF ~ovlp.Pointer
         THEN /\ pc' = [pc EXCEPT !.client = "set_async", !.cb = "run"]
              /\ cbStat' = ovlp.Internal
              /\ UNCHANGED op
         ELSE /\ op' = [op EXCEPT !.cbFnc = TRUE]
              /\ Goto("client", "load")
              /\ UNCHANGED cbStat
    /\ UNCHANGED <<ovlp, req, locks, async, outBuf, dll, ops, fault, compl>>

(* Mutant: the status is not looked at again after the store. *)
mut_LoadStatus ==
    /\ pc.client = "load"
    /\ Goto("client", "set_async")
    /\ UNCHANGED <<memory, locks, async, rest, compl>>

LoadStatus ==
    /\ pc.client = "load"
    /\ IF ~op.alive THEN Broken("set_callback")
       ELSE /\ Goto("client", IF op.cbStatus = Pending THEN "set_async" ELSE "exchange")
            /\ UNCHANGED <<memory, locks, async, rest, compl>>

ExchangeCallback ==
    /\ pc.client = "exchange"
    /\ IF ~op.alive THEN Broken("set_callback")
       ELSE /\ op' = [op EXCEPT !.cbFnc = FALSE]
            /\ IF op.cbFnc
                 THEN pc' = [pc EXCEPT !.client = "set_async", !.cb = "run"] /\ cbStat' = op.cbStatus
                 ELSE Goto("client", "set_async") /\ UNCHANGED cbStat
            /\ UNCHANGED <<ovlp, req, locks, async, outBuf, dll, ops, fault, compl>>

(* tudor_set_async_callback: a result that is there already runs the        *)
(* handler's callback under the result's mutex, which it destroys: abort.   *)
tudor_set_async_callback ==
    /\ pc.client = "set_async"
    /\ IF res # Pending THEN Broken("reentrance")
       ELSE /\ armed' = TRUE
            /\ hlock' = None
            /\ Goto("client", "action")
            /\ UNCHANGED <<memory, lock, res, rest, compl>>

(* The handler's callback has cleared async_res: the next action may start. *)
ActionOver ==
    /\ pc.client = "action" /\ res = None /\ hlock = None
    /\ Goto("client", "idle")
    /\ UNCHANGED <<memory, locks, async, rest, compl>>

-----------------------------------------------------------------------------
(* A CANCEL message: tudor_cancel_async calls winio_cancel_overlapped under *)
(* the handler's lock.                                                      *)
winio_cancel_overlapped ==
    /\ pc.client = "action" /\ res # None /\ hlock = None
    /\ hlock' = "client"
    /\ Goto("client", CASE ovlp.Internal # Pending  -> "cleanup"
                        [] ovlp.Pointer /\ op.ctx -> "cancel"
                        [] OTHER                  -> "wait")
    /\ UNCHANGED <<memory, lock, async, rest, compl>>

(* winwdf_cancel_request: the driver's cancel routine is called without the *)
(* lock, and the lock is taken again after it.                              *)
winwdf_cancel_request ==
    /\ pc.client = "cancel"
    /\ IF ~req.alive THEN Broken("cancel")
       ELSE /\ lock = None
            /\ Goto("client", IF ~req.done /\ req.drvCancel THEN "drv_cancel" ELSE "wait")
            /\ UNCHANGED <<memory, locks, async, rest, compl>>

(* The driver half's routine (external) completes the request here, or      *)
(* leaves that to its own thread.                                           *)
drv_cancel ==
    /\ At("client", "drv_cancel")
    /\ IF ~req.alive THEN Broken("cancel")
       ELSE \/ wdf_complete_request("client", "cancelled", "relock")
            \/ /\ dll' = [dll EXCEPT !.told = TRUE]
               /\ Goto("client", "relock")
               /\ UNCHANGED <<memory, locks, async, outBuf, cbStat, ops, fault, compl>>

CancelRelocks ==
    /\ pc.client = "relock"
    /\ IF ~req.alive THEN Broken("cancel")
       ELSE /\ lock = None
            /\ Goto("client", "wait")
            /\ UNCHANGED <<memory, locks, async, rest, compl>>

-----------------------------------------------------------------------------
(* winio_wait_overlapped of thread t.  The event is an auto-reset event.    *)
ChecksPending(t) ==
    /\ pc[t] = "wait"
    /\ Goto(t, IF ovlp.Internal = Pending THEN "blocked" ELSE "cleanup")
    /\ UNCHANGED <<memory, locks, async, rest, compl>>

evt_wait(t) ==
    /\ pc[t] = "blocked" /\ ovlp.event
    /\ ovlp' = [ovlp EXCEPT !.event = FALSE]
    /\ Goto(t, "cleanup")
    /\ UNCHANGED <<op, req, locks, async, rest, compl>>

(* winio_cleanup_overlapped: Pointer is read, then cleared; tudor_cleanup   *)
(* destroys the request, then the operation is freed.                       *)
ReadsPointer(t, here, clear, skip) ==
    /\ pc[t] = here
    /\ Goto(t, IF ovlp.Pointer THEN clear ELSE skip)
    /\ UNCHANGED <<memory, locks, async, rest, compl>>

ClearsPointer(t, here, destroy) ==
    /\ pc[t] = here
    /\ ovlp' = [ovlp EXCEPT !.Pointer = FALSE]
    /\ Goto(t, destroy)
    /\ UNCHANGED <<op, req, locks, async, rest, compl>>

(* The list of callbacks is freed, not cleared. *)
wdf_reset_request(r) ==
    [r EXCEPT !.started = FALSE, !.done = FALSE, !.status = None, !.drvCancel = FALSE]

(* Mutant: the request is destroyed without its lock. *)
mut_Destroys(t, here, then) ==
    /\ pc[t] = here
    /\ req' = [wdf_reset_request(req) EXCEPT !.alive = FALSE]
    /\ op' = [op EXCEPT !.alive = FALSE]
    /\ Goto(t, then)
    /\ UNCHANGED <<ovlp, locks, async, rest, compl>>

(* winwdf_destroy_object, req_destr: the lock first. *)
Destroys(t, here, then) ==
    /\ pc[t] = here
    /\ IF ~op.alive \/ ~req.alive THEN Broken("twice")
       ELSE /\ lock = None
            /\ req' = [wdf_reset_request(req) EXCEPT !.alive = FALSE]
            /\ op' = [op EXCEPT !.alive = FALSE]
            /\ Goto(t, then)
            /\ UNCHANGED <<ovlp, locks, async, rest, compl>>

Collects(t, then) ==
    \/ ChecksPending(t)
    \/ evt_wait(t)
    \/ ReadsPointer(t, "cleanup", "clear", then)
    \/ ClearsPointer(t, "clear", "destroy")
    \/ Destroys(t, "destroy", then)

(* The CANCEL message was handled. *)
CancelReturns ==
    /\ pc.client = "return"
    /\ hlock' = None
    /\ Goto("client", "action")
    /\ UNCHANGED <<memory, lock, async, rest, compl>>

-----------------------------------------------------------------------------
(* The driver half's own thread (external): it may make the request         *)
(* cancelable, and answers it some time: no longer cancelable, then done.   *)
WdfRequestMarkCancelable ==
    /\ pc.driver = "idle" /\ dll.owes /\ pc.client # "handler"
    /\ lock = None /\ ~req.drvCancel
    /\ req' = [req EXCEPT !.drvCancel = TRUE]
    /\ UNCHANGED <<ovlp, op, locks, async, rest, compl, pc>>

WdfRequestUnmarkCancelable ==
    /\ pc.driver = "idle" /\ dll.owes /\ pc.client # "handler"
    /\ lock = None
    /\ req' = [req EXCEPT !.drvCancel = FALSE]
    /\ Goto("driver", "unmarked")
    /\ UNCHANGED <<ovlp, op, locks, async, rest, compl>>

WdfRequestComplete ==
    /\ At("driver", "unmarked")
    /\ IF ~req.alive THEN Broken("answered_twice")
       ELSE \E s \in IF dll.told THEN Outcomes ELSE {"success", "failed"} :
              wdf_complete_request("driver", s, "idle")

-----------------------------------------------------------------------------
(* The callback's thread: enroll_cb, verify_cb and identify_cb of device.c. *)
(* FinishCapture (external) reads the answer, with or without collecting    *)
(* the OVERLAPPED first.                                                    *)
capture_cb ==
    /\ pc.cb = "run"
    /\ \E p \in IF cbStat = "success" THEN {"wait", "read_early"} ELSE {"finish"} : Goto("cb", p)
    /\ UNCHANGED <<memory, locks, async, rest, compl>>

FinishCapture ==
    /\ pc.cb \in {"read", "read_early"}
    /\ Goto("cb", "finish")
    /\ UNCHANGED <<memory, locks, async, rest, compl>>

(* async_complete_op sets the result and calls the handler's callback. *)
async_complete_op ==
    /\ pc.cb = "finish"
    /\ \E r \in IF cbStat = "success" THEN {"ok", "err"} ELSE {"err"} : res' = r
    /\ Goto("cb", IF armed THEN "handler" ELSE "none")
    /\ UNCHANGED <<memory, locks, armed, rest, compl>>

(* The handler's callback takes its lock, and cleanup_action calls          *)
(* tudor_cleanup_async.                                                     *)
cleanup_action ==
    \/ /\ pc.cb = "handler" /\ hlock = None
       /\ hlock' = "cb"
       /\ Goto("cb", "cleanup_async")
       /\ UNCHANGED <<memory, lock, async, rest, compl>>
    \/ ReadsPointer("cb", "cleanup_async", "clear_async", "return")
    \/ ClearsPointer("cb", "clear_async", "destroy_async")
    \/ Destroys("cb", "destroy_async", "return")

HandlerCallbackEnds ==
    /\ pc.cb = "return"
    /\ hlock' = None
    /\ res' = None /\ armed' = FALSE
    /\ Goto("cb", "none")
    /\ UNCHANGED <<memory, lock, rest, compl>>

-----------------------------------------------------------------------------
ClientStep ==
    \/ EvtIoDeviceControl \/ PublishRequest \/ winwdf_add_request_callback
    \/ StoreCallback \/ LoadStatus \/ ExchangeCallback \/ tudor_set_async_callback \/ ActionOver
    \/ winwdf_cancel_request \/ drv_cancel \/ CancelRelocks
    \/ Collects("client", "return") \/ CancelReturns

CallbackStep ==
    \/ capture_cb \/ Collects("cb", "read") \/ FinishCapture
    \/ async_complete_op \/ cleanup_action \/ HandlerCallbackEnds

DriverStep == WdfRequestMarkCancelable \/ WdfRequestUnmarkCancelable \/ WdfRequestComplete

Next ==
    /\ fault = None
    /\ \/ DeviceIoControl \/ winio_cancel_overlapped
       \/ ClientStep \/ CompletionStep \/ DriverStep \/ CallbackStep

(* The threads run.  A finger may never come, so the driver half need not   *)
(* answer by itself; it does once its cancel routine was called.            *)
DriverAnswers == (WdfRequestUnmarkCancelable /\ dll.told) \/ WdfRequestComplete

Fairness ==
    /\ WF_vars(fault = None /\ ClientStep)
    /\ WF_vars(fault = None /\ CompletionStep)
    /\ SF_vars(fault = None /\ CallbackStep)
    /\ SF_vars(fault = None /\ DriverAnswers)

Spec == Init /\ [][Next]_vars /\ Fairness

-----------------------------------------------------------------------------
(* The thread that completes a request never touches the operation after    *)
(* its free, although the waiter it wakes (io.c:121) frees it: the waiter   *)
(* has to destroy the request first, and for that it needs the lock that    *)
(* wdf_complete_request holds until all callbacks were called.              *)
CompleterSafe == fault # "complete"

(* Once FinishCapture has collected the OVERLAPPED, the answer is in its    *)
(* buffer, although req_cb, which wakes it, runs before devctrl_cb, which   *)
(* copies the answer (request.c:213).  A cancel at the same time may let    *)
(* the collecting thread pass early.                                        *)
CollectedIsComplete == pc.cb = "read" /\ hlock # "client" => outBuf

(* What every state of a capture satisfies. *)
CaptureSound == TypeOK /\ CompleterSafe /\ CollectedIsComplete

(* The callback is started once per capture, although the completion and    *)
(* winio_set_overlapped_callback may both find it set (io.c:90, io.c:126).  *)
CallbackOnce == [][pc'.cb = "run" /\ pc.cb # "run" => cbStat = None]_vars

(* An OVERLAPPED is a one-shot result for the handler: it completes with    *)
(* one status, its callback is told that status, and the next capture does  *)
(* not begin before that (io.c:59-129, request.c:184-216).                  *)
Result == INSTANCE AsyncResult WITH
    phase  <- CASE ovlp.Internal = None    -> "idle"
                [] ovlp.Internal = Pending -> "pending"
                [] OTHER                   -> "done",
    result <- IF ovlp.Internal \in Outcomes THEN ovlp.Internal ELSE None,
    told   <- cbStat
ImplementsAsyncResult == Result!Spec

(* A request that is completed while the client sets its callback, or       *)
(* before, or after, gives the handler a result (io.c:82-129).              *)
CompletionArrives == req.done ~> (res # Pending \/ fault # None)

(* A capture whose cancel routine was called ends: the routine, the event   *)
(* and the three cleanups leave nobody waiting (io.c:100-112,               *)
(* request.c:247).                                                          *)
CancelledCaptureEnds == dll.told ~> (res = None \/ fault # None)
=============================================================================
