-------------------------- MODULE CaptureIoProofs --------------------------
(***************************************************************************)
(* Proofs about CaptureIo, for any number of captures.                     *)
(***************************************************************************)
EXTENDS CaptureIo, SequenceTheorems, TLAPS

(* The lists of callbacks of a request, and what is left of one. *)
OnlyCopy   == <<"devctrl_cb">>
OnlyNotify == <<"req_cb">>
Both       == <<"req_cb", "devctrl_cb">>

Overlapped  == [Internal : Outcomes \cup {Pending, None}, Pointer : BOOLEAN, event : BOOLEAN]
Operations  == [alive : BOOLEAN, ctx : BOOLEAN, cbStatus : Outcomes \cup {Pending}, cbFnc : BOOLEAN]
Completions == [by : {"client", "driver", None}, at : {None, "next", "event", "status", "callback"},
                status : Outcomes \cup {None}, left : {<<>>, OnlyCopy, OnlyNotify, Both},
                then : {None, "publish", "store_cb", "relock", "idle"}]
Places      == [client : ClientPcs, driver : {"idle", "unmarked"}, cb : CbPcs]

MemoryShape == ovlp \in Overlapped /\ op \in Operations /\ req \in Requests
ThreadShape == compl \in Completions /\ pc \in Places /\ dll \in [owes : BOOLEAN, told : BOOLEAN]
ValueShape  ==
    /\ lock \in Threads \cup {None} /\ hlock \in Threads \cup {None}
    /\ armed \in BOOLEAN /\ res \in {None, Pending, "ok", "err"} /\ outBuf \in BOOLEAN
    /\ cbStat \in Outcomes \cup {None}
    /\ ops \in 0..MaxOps
    /\ fault \in Faults /\ fault # "complete"

(* Whoever is in wdf_complete_request holds the lock of a request that is   *)
(* alive and done; while it notifies, the OVERLAPPED has the status.        *)
ComplInv ==
    /\ compl.by = None => compl = NoCompletion /\ lock = None
    /\ compl.by # None =>
         /\ lock = compl.by /\ compl.at # None
         /\ req.alive /\ req.done /\ compl.status = req.status
         /\ compl.left \in {OnlyNotify, Both} => compl.at = "next" /\ ovlp.Internal = Pending
         /\ compl.at # "next" => ovlp.Internal = compl.status
    /\ compl.by = "client" =>
         \/ pc.client = "handler" /\ compl.then = "publish"
         \/ pc.client = "add_cb" /\ compl.then = "store_cb"
         \/ pc.client = "drv_cancel" /\ compl.then = "relock"
    /\ compl.by = "driver" => pc.driver = "unmarked" /\ compl.then = "idle"

(* The operation and its request live and die together; a request that is   *)
(* done has a status, and the OVERLAPPED gets no other.                     *)
RequestInv ==
    /\ op.alive = req.alive /\ req.started = req.alive
    /\ req.done => req.started /\ req.status \in Outcomes
    /\ req.started => req.cbs \in {OnlyCopy, Both}
    /\ req.started /\ ~req.done => ovlp.Internal = Pending
    /\ req.alive /\ ovlp.Internal \in Outcomes => ovlp.Internal = req.status
    /\ op.cbStatus # Pending => op.cbStatus = ovlp.Internal
    /\ ovlp.event => ovlp.Internal \in Outcomes

(* The answer is copied while the request is completed, and stays there.    *)
CopyInv ==
    /\ req.done => \/ outBuf = (req.status = "success")
                   \/ compl.by # None /\ compl.left \in {OnlyCopy, Both}
    /\ ~op.alive /\ ovlp.Internal # None =>
         ovlp.Internal \in Outcomes /\ outBuf = (ovlp.Internal = "success")

(* Who may free the operation: whoever cleared Pointer. *)
CleanupInv ==
    /\ ovlp.Pointer => op.alive
    /\ op.alive /\ ~ovlp.Pointer => pc.client = "destroy" \/ pc.cb \in {"destroy", "destroy_async"}
    /\ pc.client = "destroy" \/ pc.cb \in {"destroy", "destroy_async", "read"} => ~ovlp.Pointer
    /\ pc.client \in {"cleanup", "clear", "destroy"} => ovlp.Internal \in Outcomes
    /\ pc.cb = "return" => ~op.alive
    /\ hlock = "client" <=> pc.client \notin {"idle", "action"}
    /\ hlock = "cb" <=> pc.cb \in {"cleanup_async", "clear_async", "destroy_async", "return"}

(* The capture is being set up: nobody can know of its OVERLAPPED yet. *)
Setup == pc.client \in {"handler", "publish"} \/ At("client", "add_cb")
SetupInv ==
    /\ Setup => /\ ovlp.Internal = Pending /\ req.cbs = OnlyCopy
                /\ compl.left \in {<<>>, OnlyCopy} /\ compl.at \in {None, "next"}
    /\ pc.client \in {"handler", "publish", "add_cb", "store_cb"} =>
         ovlp.Pointer /\ cbStat = None /\ ~op.cbFnc /\ res # None
    /\ pc.client = "exchange" => op.cbStatus # Pending

(* The callback thread runs after its callback was taken, with the status   *)
(* of the OVERLAPPED; a capture that is over was told.                      *)
ToldInv ==
    /\ op.cbFnc => cbStat = None
    /\ cbStat = None => pc.cb = "none"
    /\ cbStat # None => cbStat = ovlp.Internal
    /\ pc.cb \in {"wait", "blocked", "cleanup", "clear", "destroy", "read", "read_early"} =>
          cbStat = "success"
    /\ res = None => pc.cb = "none" /\ ~op.cbFnc /\ ~op.alive /\ (ovlp.Internal = None \/ cbStat # None)
    /\ pc.client = "idle" => res = None
    /\ pc.client # "idle" => ovlp.Internal # None

ShapeInv == MemoryShape /\ ThreadShape /\ ValueShape
CaptureInv == ShapeInv /\ ComplInv /\ RequestInv /\ CopyInv /\ CleanupInv /\ SetupInv /\ ToldInv

-----------------------------------------------------------------------------
(* The lists of callbacks are different, and so are their first entries. *)
LEMMA ListFacts ==
    /\ Head(OnlyCopy) = "devctrl_cb" /\ Tail(OnlyCopy) = <<>>
    /\ Head(OnlyNotify) = "req_cb" /\ Tail(OnlyNotify) = <<>>
    /\ Head(Both) = "req_cb" /\ Tail(Both) = OnlyCopy
    /\ OnlyNotify \o OnlyCopy = Both
    /\ OnlyCopy # <<>> /\ OnlyNotify # <<>> /\ Both # <<>>
    /\ OnlyCopy # OnlyNotify /\ OnlyCopy # Both /\ OnlyNotify # Both
  <1>1. /\ Len(OnlyCopy) = 1 /\ Len(OnlyNotify) = 1 /\ Len(Both) = 2 /\ OnlyCopy[1] = "devctrl_cb"
        /\ OnlyNotify[1] = "req_cb"
    BY DEF OnlyCopy, OnlyNotify, Both
  <1>2. Tail(Both) = OnlyCopy
    BY DEF OnlyCopy, Both
  <1>3. OnlyNotify \o OnlyCopy = Both
    <2>1. /\ OnlyNotify \in Seq({"req_cb", "devctrl_cb"})
          /\ OnlyCopy \in Seq({"req_cb", "devctrl_cb"}) /\ Both \in Seq({"req_cb", "devctrl_cb"})
      BY DEF OnlyCopy, OnlyNotify, Both
    <2>2. OnlyNotify \o OnlyCopy \in Seq({"req_cb", "devctrl_cb"})
      BY <2>1, ConcatProperties
    <2>3. Len(OnlyNotify \o OnlyCopy) = 2
      BY <1>1, <2>1, ConcatProperties
    <2>4. (OnlyNotify \o OnlyCopy)[1] = "req_cb" /\ (OnlyNotify \o OnlyCopy)[2] = "devctrl_cb"
      BY <1>1, <2>1, ConcatProperties
    <2>5. Both[1] = "req_cb" /\ Both[2] = "devctrl_cb"
      BY DEF Both
    <2>6. \A k \in 1..2 : k = 1 \/ k = 2
      OBVIOUS
    <2>7. ASSUME NEW k \in 1..2
          PROVE  (OnlyNotify \o OnlyCopy)[k] = Both[k]
      BY <2>4, <2>5, <2>6
    <2>8. QED
      BY <1>1, <2>1, <2>2, <2>3, <2>7, SeqEqual
  <1>4. QED
    BY <1>1, <1>2, <1>3 DEF OnlyCopy, OnlyNotify, Both

(* The values of the fields. *)
LEMMA FieldTypes ==
    ASSUME CaptureInv
    PROVE  /\ ovlp.Internal \in {"success", "failed", "cancelled", Pending, None}
           /\ ovlp.Pointer \in BOOLEAN /\ ovlp.event \in BOOLEAN
           /\ op.alive \in BOOLEAN /\ op.cbStatus \in {"success", "failed", "cancelled", Pending}
           /\ op.cbFnc \in BOOLEAN
           /\ req.alive \in BOOLEAN /\ req.started \in BOOLEAN /\ req.done \in BOOLEAN
           /\ req.status \in {"success", "failed", "cancelled", None}
           /\ compl.by \in {"client", "driver", None}
           /\ compl.at \in {None, "next", "event", "status", "callback"}
           /\ compl.status \in {"success", "failed", "cancelled", None}
           /\ compl.left \in {<<>>, OnlyCopy, OnlyNotify, Both}
           /\ pc.client \in ClientPcs /\ pc.driver \in {"idle", "unmarked"} /\ pc.cb \in CbPcs
           /\ cbStat \in {"success", "failed", "cancelled", None} /\ outBuf \in BOOLEAN
           /\ compl.by = None => compl.at = None /\ compl.left = <<>> /\ lock = None
           /\ compl.by # None => compl.at # None /\ lock = compl.by
           /\ None = "none" /\ Pending = "pending" /\ Outcomes = {"success", "failed", "cancelled"}
  <1>1. MemoryShape /\ ThreadShape /\ ValueShape
    BY DEF CaptureInv, ShapeInv
  <1>2. /\ ovlp.Internal \in {"success", "failed", "cancelled", Pending, None}
        /\ ovlp.Pointer \in BOOLEAN /\ ovlp.event \in BOOLEAN
        /\ op.alive \in BOOLEAN /\ op.cbStatus \in {"success", "failed", "cancelled", Pending}
        /\ op.cbFnc \in BOOLEAN
    BY <1>1 DEF MemoryShape, Overlapped, Operations, Outcomes
  <1>3. /\ req.alive \in BOOLEAN /\ req.started \in BOOLEAN /\ req.done \in BOOLEAN
        /\ req.status \in {"success", "failed", "cancelled", None}
    BY <1>1 DEF MemoryShape, Requests, Outcomes
  <1>4. /\ compl.by \in {"client", "driver", None}
        /\ compl.at \in {None, "next", "event", "status", "callback"}
        /\ compl.status \in {"success", "failed", "cancelled", None}
        /\ compl.left \in {<<>>, OnlyCopy, OnlyNotify, Both}
    BY <1>1 DEF ThreadShape, Completions, Outcomes
  <1>5. pc.client \in ClientPcs /\ pc.driver \in {"idle", "unmarked"} /\ pc.cb \in CbPcs
    BY <1>1 DEF ThreadShape, Places
  <1>6. cbStat \in {"success", "failed", "cancelled", None} /\ outBuf \in BOOLEAN
    BY <1>1 DEF ValueShape, Outcomes
  <1>7. /\ compl.by = None => compl.at = None /\ compl.left = <<>> /\ lock = None
        /\ compl.by # None => compl.at # None /\ lock = compl.by
    BY DEF CaptureInv, ComplInv, NoCompletion
  <1>8. None = "none" /\ Pending = "pending" /\ Outcomes = {"success", "failed", "cancelled"}
    BY DEF None, Pending, Outcomes
  <1>9. QED
    BY <1>2, <1>3, <1>4, <1>5, <1>6, <1>7, <1>8

(* A thread that breaks changes nothing but fault. *)
LEMMA BrokenKeeps ==
    ASSUME CaptureInv, NEW what \in Faults \ {"complete"}, Broken(what)
    PROVE  CaptureInv'
  <1>1. ShapeInv'
    BY DEF CaptureInv, ShapeInv, MemoryShape, ThreadShape, ValueShape, Broken, memory, locks, async
  <1>2. ComplInv' /\ RequestInv' /\ CopyInv'
    BY DEF CaptureInv, ComplInv, RequestInv, CopyInv, Broken, memory, locks, async
  <1>3. CleanupInv' /\ SetupInv' /\ ToldInv'
    BY DEF CaptureInv, CleanupInv, SetupInv, Setup, At, ToldInv, Broken, memory, locks, async
  <1>4. QED
    BY <1>1, <1>2, <1>3 DEF CaptureInv

LEMMA PublishNext ==
    ASSUME CaptureInv, PublishRequest
    PROVE  CaptureInv'
  <1>1. /\ pc.client = "publish"
        /\ pc'.client = "add_cb" /\ pc'.driver = pc.driver /\ pc'.cb = pc.cb
        /\ op'.alive = op.alive /\ op'.cbStatus = op.cbStatus /\ op'.cbFnc = op.cbFnc
        /\ UNCHANGED <<ovlp, req, lock, hlock, armed, res, outBuf, dll, compl, cbStat, ops, fault>>
    BY FieldTypes DEF CaptureInv, ShapeInv, MemoryShape, ThreadShape, Places, Operations,
                      PublishRequest, Goto, memory, locks, async, rest
  <1>2. ShapeInv'
    BY FieldTypes, <1>1 DEF CaptureInv, ShapeInv, MemoryShape, ThreadShape, ValueShape, Places,
                            Operations, ClientPcs, PublishRequest, Goto, memory, locks, async, rest
  <1>3. ComplInv' /\ RequestInv' /\ CopyInv'
    BY FieldTypes, <1>1 DEF CaptureInv, ComplInv, RequestInv, CopyInv, CleanupInv, SetupInv, Setup,
                            At, ToldInv
  <1>4. CleanupInv' /\ SetupInv' /\ ToldInv'
    BY FieldTypes, <1>1 DEF CaptureInv, ComplInv, RequestInv, CopyInv, CleanupInv, SetupInv, Setup,
                            At, ToldInv
  <1>5. QED
    BY <1>2, <1>3, <1>4 DEF CaptureInv

LEMMA NotifyNext ==
    ASSUME CaptureInv, req_cb
    PROVE  CaptureInv'
  <1>1. /\ compl.at = "next" /\ compl.left \in {OnlyNotify, Both}
        /\ ovlp'.Internal = compl.status /\ ovlp'.Pointer = ovlp.Pointer /\ ovlp'.event = ovlp.event
        /\ compl'.by = compl.by /\ compl'.at = "event" /\ compl'.status = compl.status
        /\ compl'.then = compl.then
        /\ compl'.left = (IF compl.left = Both THEN OnlyCopy ELSE <<>>)
        /\ UNCHANGED <<op, req, lock, hlock, armed, res, outBuf, dll, cbStat, ops, fault, pc>>
    BY ListFacts, FieldTypes DEF CaptureInv, ShapeInv, MemoryShape, ThreadShape, Overlapped,
                                 Completions, req_cb, NextCallback, memory, locks, async, rest
  <1>2. ShapeInv'
    BY ListFacts, FieldTypes, <1>1 DEF CaptureInv, ShapeInv, MemoryShape, ThreadShape, ValueShape,
                                       Overlapped, Completions, req_cb, NextCallback, memory, locks,
                                       async, rest
  <1>3. ComplInv' /\ RequestInv' /\ CopyInv'
    BY ListFacts, FieldTypes, <1>1 DEF CaptureInv, ComplInv, RequestInv, CopyInv, CleanupInv,
                                       SetupInv, Setup, At, ToldInv
  <1>4. CleanupInv' /\ SetupInv' /\ ToldInv'
    BY ListFacts, FieldTypes, <1>1 DEF CaptureInv, ComplInv, RequestInv, CopyInv, CleanupInv,
                                       SetupInv, Setup, At, ToldInv
  <1>5. QED
    BY <1>2, <1>3, <1>4 DEF CaptureInv

LEMMA StoreNext ==
    ASSUME CaptureInv, StoreCallback
    PROVE  CaptureInv'
  <1>1. /\ pc.client = "store_cb" /\ ovlp.Pointer
        /\ pc'.client = "load" /\ pc'.driver = pc.driver /\ pc'.cb = pc.cb
        /\ op'.alive = op.alive /\ op'.cbStatus = op.cbStatus /\ op'.cbFnc = TRUE
        /\ UNCHANGED <<ovlp, req, lock, hlock, armed, res, outBuf, dll, compl, cbStat, ops, fault>>
    BY FieldTypes DEF CaptureInv, ShapeInv, MemoryShape, ThreadShape, Places, Operations,
                      StoreCallback, SetupInv, Goto, memory, locks, async, rest
  <1>2. ShapeInv'
    BY FieldTypes, <1>1 DEF CaptureInv, ShapeInv, MemoryShape, ThreadShape, ValueShape, Places,
                            Operations, ClientPcs, StoreCallback, SetupInv, Goto, memory, locks,
                            async, rest
  <1>3. ComplInv' /\ RequestInv' /\ CopyInv'
    BY FieldTypes, <1>1 DEF CaptureInv, ComplInv, RequestInv, CopyInv, CleanupInv, SetupInv, Setup,
                            At, ToldInv
  <1>4. CleanupInv' /\ SetupInv' /\ ToldInv'
    BY FieldTypes, <1>1 DEF CaptureInv, ComplInv, RequestInv, CopyInv, CleanupInv, SetupInv, Setup,
                            At, ToldInv
  <1>5. QED
    BY <1>2, <1>3, <1>4 DEF CaptureInv

LEMMA LoadNext ==
    ASSUME CaptureInv, LoadStatus
    PROVE  CaptureInv'
  <1>0. SUFFICES ASSUME op.alive PROVE CaptureInv'
    BY BrokenKeeps DEF LoadStatus, Faults
  <1>1. /\ pc.client = "load"
        /\ pc'.client = (IF op.cbStatus = Pending THEN "set_async" ELSE "exchange")
        /\ pc'.driver = pc.driver /\ pc'.cb = pc.cb
        /\ UNCHANGED <<ovlp, op, req, lock, hlock, armed, res, outBuf, dll, compl, cbStat, ops, fault>>
    BY <1>0, FieldTypes DEF CaptureInv, ShapeInv, MemoryShape, ThreadShape, Places, LoadStatus,
                            Goto, memory, locks, async, rest
  <1>2. ShapeInv'
    BY <1>0, FieldTypes, <1>1 DEF CaptureInv, ShapeInv, MemoryShape, ThreadShape, ValueShape,
                                  Places, ClientPcs, LoadStatus, Goto, memory, locks, async, rest
  <1>3. ComplInv' /\ RequestInv' /\ CopyInv'
    BY FieldTypes, <1>1 DEF CaptureInv, ComplInv, RequestInv, CopyInv, CleanupInv, SetupInv, Setup,
                            At, ToldInv
  <1>4. CleanupInv' /\ SetupInv' /\ ToldInv'
    BY FieldTypes, <1>1 DEF CaptureInv, ComplInv, RequestInv, CopyInv, CleanupInv, SetupInv, Setup,
                            At, ToldInv
  <1>5. QED
    BY <1>2, <1>3, <1>4 DEF CaptureInv

LEMMA ExchangeNext ==
    ASSUME CaptureInv, ExchangeCallback
    PROVE  CaptureInv'
  <1>0. SUFFICES ASSUME op.alive PROVE CaptureInv'
    BY BrokenKeeps DEF ExchangeCallback, Faults
  <1>1. /\ pc.client = "exchange"
        /\ pc'.client = "set_async" /\ pc'.driver = pc.driver
        /\ pc'.cb = (IF op.cbFnc THEN "run" ELSE pc.cb)
        /\ op'.alive = op.alive /\ op'.cbStatus = op.cbStatus /\ op'.cbFnc = FALSE
        /\ cbStat' = (IF op.cbFnc THEN op.cbStatus ELSE cbStat) /\ cbStat' \in Outcomes \cup {None}
        /\ UNCHANGED <<ovlp, req, lock, hlock, armed, res, outBuf, dll, compl, ops, fault>>
    BY <1>0, FieldTypes DEF CaptureInv, ShapeInv, MemoryShape, ThreadShape, Places, Operations,
                            ExchangeCallback, SetupInv, Goto, memory, locks, async, rest
  <1>2. ShapeInv'
    <2>1. MemoryShape'
      BY <1>0, FieldTypes, <1>1 DEF CaptureInv, ShapeInv, MemoryShape, Places, Operations,
                                    ClientPcs, CbPcs, ExchangeCallback, SetupInv, Goto, memory,
                                    locks, async, rest
    <2>2. ThreadShape'
      BY <1>0, FieldTypes, <1>1 DEF CaptureInv, ShapeInv, ThreadShape, Places, Operations,
                                    ClientPcs, CbPcs, ExchangeCallback, SetupInv, Goto, memory,
                                    locks, async, rest
    <2>3. ValueShape'
      BY <1>0, FieldTypes, <1>1 DEF CaptureInv, ShapeInv, ValueShape, Places, Operations, ClientPcs,
                                    CbPcs, ExchangeCallback, SetupInv, Goto, memory, locks, async,
                                    rest
    <2>4. QED
      BY <2>1, <2>2, <2>3 DEF ShapeInv
  <1>3. ComplInv' /\ RequestInv' /\ CopyInv'
    BY FieldTypes, <1>1 DEF CaptureInv, ComplInv, RequestInv, CopyInv, CleanupInv, SetupInv, Setup,
                            At, ToldInv
  <1>4. CleanupInv' /\ SetupInv' /\ ToldInv'
    BY FieldTypes, <1>1 DEF CaptureInv, ComplInv, RequestInv, CopyInv, CleanupInv, SetupInv, Setup,
                            At, ToldInv
  <1>5. QED
    BY <1>2, <1>3, <1>4 DEF CaptureInv

LEMMA SetAsyncNext ==
    ASSUME CaptureInv, tudor_set_async_callback
    PROVE  CaptureInv'
  <1>0. SUFFICES ASSUME res = Pending PROVE CaptureInv'
    BY BrokenKeeps DEF tudor_set_async_callback, Faults
  <1>1. /\ pc.client = "set_async" /\ res = Pending
        /\ pc'.client = "action" /\ pc'.driver = pc.driver /\ pc'.cb = pc.cb
        /\ armed' = TRUE /\ hlock' = None
        /\ UNCHANGED <<ovlp, op, req, lock, res, outBuf, dll, compl, cbStat, ops, fault>>
    BY <1>0, FieldTypes DEF CaptureInv, ShapeInv, MemoryShape, ThreadShape, Places,
                            tudor_set_async_callback, Goto, memory, locks, async, rest
  <1>2. ShapeInv'
    BY <1>0, FieldTypes, <1>1 DEF CaptureInv, ShapeInv, MemoryShape, ThreadShape, ValueShape,
                                  Places, ClientPcs, tudor_set_async_callback, Goto, memory, locks,
                                  async, rest
  <1>3. ComplInv' /\ RequestInv' /\ CopyInv'
    BY FieldTypes, <1>1 DEF CaptureInv, ComplInv, RequestInv, CopyInv, CleanupInv, SetupInv, Setup,
                            At, ToldInv
  <1>4. CleanupInv' /\ SetupInv' /\ ToldInv'
    BY FieldTypes, <1>1 DEF CaptureInv, ComplInv, RequestInv, CopyInv, CleanupInv, SetupInv, Setup,
                            At, ToldInv
  <1>5. QED
    BY <1>2, <1>3, <1>4 DEF CaptureInv

LEMMA ActionOverNext ==
    ASSUME CaptureInv, ActionOver
    PROVE  CaptureInv'
  <1>1. /\ pc.client = "action" /\ res = None
        /\ pc'.client = "idle" /\ pc'.driver = pc.driver /\ pc'.cb = pc.cb
        /\ UNCHANGED <<ovlp, op, req, lock, hlock, armed, res, outBuf, dll, compl, cbStat, ops, fault>>
    BY FieldTypes DEF CaptureInv, ShapeInv, MemoryShape, ThreadShape, Places, ActionOver, Goto,
                      memory, locks, async, rest
  <1>2. ShapeInv'
    BY FieldTypes, <1>1 DEF CaptureInv, ShapeInv, MemoryShape, ThreadShape, ValueShape, Places,
                            ClientPcs, ActionOver, Goto, memory, locks, async, rest
  <1>3. ComplInv' /\ RequestInv' /\ CopyInv'
    BY FieldTypes, <1>1 DEF CaptureInv, ComplInv, RequestInv, CopyInv, CleanupInv, SetupInv, Setup,
                            At, ToldInv
  <1>4. CleanupInv' /\ SetupInv' /\ ToldInv'
    BY FieldTypes, <1>1 DEF CaptureInv, ComplInv, RequestInv, CopyInv, CleanupInv, SetupInv, Setup,
                            At, ToldInv
  <1>5. QED
    BY <1>2, <1>3, <1>4 DEF CaptureInv

LEMMA CancelNext ==
    ASSUME CaptureInv, winio_cancel_overlapped
    PROVE  CaptureInv'
  <1>1. /\ pc.client = "action" /\ hlock = None /\ hlock' = "client"
        /\ pc'.client \in {"cleanup", "cancel", "wait"} /\ pc'.driver = pc.driver /\ pc'.cb = pc.cb
        /\ pc'.client = "cleanup" => ovlp.Internal # Pending
        /\ UNCHANGED <<ovlp, op, req, lock, armed, res, outBuf, dll, compl, cbStat, ops, fault>>
    BY FieldTypes DEF CaptureInv, ShapeInv, MemoryShape, ThreadShape, Places,
                      winio_cancel_overlapped, Goto, memory, locks, async, rest
  <1>2. ShapeInv'
    BY FieldTypes, <1>1 DEF CaptureInv, ShapeInv, MemoryShape, ThreadShape, ValueShape, Places,
                            ClientPcs, Threads, winio_cancel_overlapped, Goto, memory, locks, async,
                            rest
  <1>3. ComplInv' /\ RequestInv' /\ CopyInv'
    BY FieldTypes, <1>1 DEF CaptureInv, ComplInv, RequestInv, CopyInv, CleanupInv, SetupInv, Setup,
                            At, ToldInv
  <1>4. CleanupInv' /\ SetupInv' /\ ToldInv'
    BY FieldTypes, <1>1 DEF CaptureInv, ComplInv, RequestInv, CopyInv, CleanupInv, SetupInv, Setup,
                            At, ToldInv
  <1>5. QED
    BY <1>2, <1>3, <1>4 DEF CaptureInv

LEMMA CancelRequestNext ==
    ASSUME CaptureInv, winwdf_cancel_request
    PROVE  CaptureInv'
  <1>0. SUFFICES ASSUME req.alive PROVE CaptureInv'
    BY BrokenKeeps DEF winwdf_cancel_request, Faults
  <1>1. /\ pc.client = "cancel"
        /\ pc'.client \in {"drv_cancel", "wait"} /\ pc'.driver = pc.driver /\ pc'.cb = pc.cb
        /\ UNCHANGED <<ovlp, op, req, lock, hlock, armed, res, outBuf, dll, compl, cbStat, ops, fault>>
    BY <1>0, FieldTypes DEF CaptureInv, ShapeInv, MemoryShape, ThreadShape, Places,
                            winwdf_cancel_request, Goto, memory, locks, async, rest
  <1>2. ShapeInv'
    BY <1>0, FieldTypes, <1>1 DEF CaptureInv, ShapeInv, MemoryShape, ThreadShape, ValueShape,
                                  Places, ClientPcs, winwdf_cancel_request, Goto, memory, locks,
                                  async, rest
  <1>3. ComplInv' /\ RequestInv' /\ CopyInv'
    BY FieldTypes, <1>1 DEF CaptureInv, ComplInv, RequestInv, CopyInv, CleanupInv, SetupInv, Setup,
                            At, ToldInv
  <1>4. CleanupInv' /\ SetupInv' /\ ToldInv'
    BY FieldTypes, <1>1 DEF CaptureInv, ComplInv, RequestInv, CopyInv, CleanupInv, SetupInv, Setup,
                            At, ToldInv
  <1>5. QED
    BY <1>2, <1>3, <1>4 DEF CaptureInv

LEMMA RelockNext ==
    ASSUME CaptureInv, CancelRelocks
    PROVE  CaptureInv'
  <1>0. SUFFICES ASSUME req.alive PROVE CaptureInv'
    BY BrokenKeeps DEF CancelRelocks, Faults
  <1>1. /\ pc.client = "relock"
        /\ pc'.client = "wait" /\ pc'.driver = pc.driver /\ pc'.cb = pc.cb
        /\ UNCHANGED <<ovlp, op, req, lock, hlock, armed, res, outBuf, dll, compl, cbStat, ops, fault>>
    BY <1>0, FieldTypes DEF CaptureInv, ShapeInv, MemoryShape, ThreadShape, Places, CancelRelocks,
                            Goto, memory, locks, async, rest
  <1>2. ShapeInv'
    BY <1>0, FieldTypes, <1>1 DEF CaptureInv, ShapeInv, MemoryShape, ThreadShape, ValueShape,
                                  Places, ClientPcs, CancelRelocks, Goto, memory, locks, async, rest
  <1>3. ComplInv' /\ RequestInv' /\ CopyInv'
    BY FieldTypes, <1>1 DEF CaptureInv, ComplInv, RequestInv, CopyInv, CleanupInv, SetupInv, Setup,
                            At, ToldInv
  <1>4. CleanupInv' /\ SetupInv' /\ ToldInv'
    BY FieldTypes, <1>1 DEF CaptureInv, ComplInv, RequestInv, CopyInv, CleanupInv, SetupInv, Setup,
                            At, ToldInv
  <1>5. QED
    BY <1>2, <1>3, <1>4 DEF CaptureInv

LEMMA CancelReturnsNext ==
    ASSUME CaptureInv, CancelReturns
    PROVE  CaptureInv'
  <1>1. /\ pc.client = "return"
        /\ pc'.client = "action" /\ pc'.driver = pc.driver /\ pc'.cb = pc.cb
        /\ hlock' = None
        /\ UNCHANGED <<ovlp, op, req, lock, armed, res, outBuf, dll, compl, cbStat, ops, fault>>
    BY FieldTypes DEF CaptureInv, ShapeInv, MemoryShape, ThreadShape, Places, CancelReturns, Goto,
                      memory, locks, async, rest
  <1>2. ShapeInv'
    BY FieldTypes, <1>1 DEF CaptureInv, ShapeInv, MemoryShape, ThreadShape, ValueShape, Places,
                            ClientPcs, CancelReturns, Goto, memory, locks, async, rest
  <1>3. ComplInv' /\ RequestInv' /\ CopyInv'
    BY FieldTypes, <1>1 DEF CaptureInv, ComplInv, RequestInv, CopyInv, CleanupInv, SetupInv, Setup,
                            At, ToldInv
  <1>4. CleanupInv' /\ SetupInv' /\ ToldInv'
    BY FieldTypes, <1>1 DEF CaptureInv, ComplInv, RequestInv, CopyInv, CleanupInv, SetupInv, Setup,
                            At, ToldInv
  <1>5. QED
    BY <1>2, <1>3, <1>4 DEF CaptureInv

LEMMA MarkNext ==
    ASSUME CaptureInv, WdfRequestMarkCancelable
    PROVE  CaptureInv'
  <1>1. /\ req'.alive = req.alive /\ req'.started = req.started /\ req'.done = req.done
        /\ req'.status = req.status /\ req'.cbs = req.cbs
        /\ UNCHANGED <<ovlp, op, lock, hlock, armed, res, outBuf, dll, compl, cbStat, ops, fault, pc>>
    BY FieldTypes DEF CaptureInv, ShapeInv, MemoryShape, ThreadShape, Requests,
                      WdfRequestMarkCancelable, memory, locks, async, rest
  <1>2. ShapeInv'
    BY FieldTypes, <1>1 DEF CaptureInv, ShapeInv, MemoryShape, ThreadShape, ValueShape, Requests,
                            WdfRequestMarkCancelable, memory, locks, async, rest
  <1>3. ComplInv' /\ RequestInv' /\ CopyInv'
    BY FieldTypes, <1>1 DEF CaptureInv, ComplInv, RequestInv, CopyInv, CleanupInv, SetupInv, Setup,
                            At, ToldInv
  <1>4. CleanupInv' /\ SetupInv' /\ ToldInv'
    BY FieldTypes, <1>1 DEF CaptureInv, ComplInv, RequestInv, CopyInv, CleanupInv, SetupInv, Setup,
                            At, ToldInv
  <1>5. QED
    BY <1>2, <1>3, <1>4 DEF CaptureInv

LEMMA UnmarkNext ==
    ASSUME CaptureInv, WdfRequestUnmarkCancelable
    PROVE  CaptureInv'
  <1>1. /\ compl.by = None
        /\ pc'.driver = "unmarked" /\ pc'.client = pc.client /\ pc'.cb = pc.cb
        /\ req'.alive = req.alive /\ req'.started = req.started /\ req'.done = req.done
        /\ req'.status = req.status /\ req'.cbs = req.cbs
        /\ UNCHANGED <<ovlp, op, lock, hlock, armed, res, outBuf, dll, compl, cbStat, ops, fault>>
    BY FieldTypes DEF CaptureInv, ShapeInv, MemoryShape, ThreadShape, Requests, Places,
                      WdfRequestUnmarkCancelable, Goto, memory, locks, async, rest
  <1>2. ShapeInv'
    <2>1. MemoryShape'
      BY FieldTypes, <1>1 DEF CaptureInv, ShapeInv, MemoryShape, Requests, Places,
                              WdfRequestUnmarkCancelable, Goto, memory, locks, async, rest
    <2>2. ThreadShape'
      BY FieldTypes, <1>1 DEF CaptureInv, ShapeInv, ThreadShape, Requests, Places,
                              WdfRequestUnmarkCancelable, Goto, memory, locks, async, rest
    <2>3. ValueShape'
      BY FieldTypes, <1>1 DEF CaptureInv, ShapeInv, ValueShape, Requests, Places,
                              WdfRequestUnmarkCancelable, Goto, memory, locks, async, rest
    <2>4. QED
      BY <2>1, <2>2, <2>3 DEF ShapeInv
  <1>3. ComplInv' /\ RequestInv' /\ CopyInv'
    BY FieldTypes, <1>1 DEF CaptureInv, ComplInv, RequestInv, CopyInv, CleanupInv, SetupInv, Setup,
                            At, ToldInv
  <1>4. CleanupInv' /\ SetupInv' /\ ToldInv'
    BY FieldTypes, <1>1 DEF CaptureInv, ComplInv, RequestInv, CopyInv, CleanupInv, SetupInv, Setup,
                            At, ToldInv
  <1>5. QED
    BY <1>2, <1>3, <1>4 DEF CaptureInv

LEMMA CaptureCbNext ==
    ASSUME CaptureInv, capture_cb
    PROVE  CaptureInv'
  <1>1. /\ pc.cb = "run"
        /\ pc'.cb \in {"wait", "read_early", "finish"} /\ pc'.driver = pc.driver
        /\ pc'.client = pc.client
        /\ pc'.cb # "finish" => cbStat = "success"
        /\ UNCHANGED <<ovlp, op, req, lock, hlock, armed, res, outBuf, dll, compl, cbStat, ops, fault>>
    BY FieldTypes DEF CaptureInv, ShapeInv, MemoryShape, ThreadShape, Places, capture_cb, Goto,
                      memory, locks, async, rest
  <1>2. ShapeInv'
    BY FieldTypes, <1>1 DEF CaptureInv, ShapeInv, MemoryShape, ThreadShape, ValueShape, Places,
                            CbPcs, capture_cb, Goto, memory, locks, async, rest
  <1>3. ComplInv' /\ RequestInv' /\ CopyInv'
    BY FieldTypes, <1>1 DEF CaptureInv, ComplInv, RequestInv, CopyInv, CleanupInv, SetupInv, Setup,
                            At, ToldInv
  <1>4. CleanupInv' /\ SetupInv' /\ ToldInv'
    BY FieldTypes, <1>1 DEF CaptureInv, ComplInv, RequestInv, CopyInv, CleanupInv, SetupInv, Setup,
                            At, ToldInv
  <1>5. QED
    BY <1>2, <1>3, <1>4 DEF CaptureInv

LEMMA FinishNext ==
    ASSUME CaptureInv, FinishCapture
    PROVE  CaptureInv'
  <1>1. /\ pc.cb \in {"read", "read_early"}
        /\ pc'.cb = "finish" /\ pc'.client = pc.client /\ pc'.driver = pc.driver
        /\ UNCHANGED <<ovlp, op, req, lock, hlock, armed, res, outBuf, dll, compl, cbStat, ops, fault>>
    BY FieldTypes DEF CaptureInv, ShapeInv, MemoryShape, ThreadShape, Places, FinishCapture, Goto,
                      memory, locks, async, rest
  <1>2. ShapeInv'
    BY FieldTypes, <1>1 DEF CaptureInv, ShapeInv, MemoryShape, ThreadShape, ValueShape, Places,
                            CbPcs, FinishCapture, Goto, memory, locks, async, rest
  <1>3. ComplInv' /\ RequestInv' /\ CopyInv'
    BY FieldTypes, <1>1 DEF CaptureInv, ComplInv, RequestInv, CopyInv, CleanupInv, SetupInv, Setup,
                            At, ToldInv
  <1>4. CleanupInv' /\ SetupInv' /\ ToldInv'
    BY FieldTypes, <1>1 DEF CaptureInv, ComplInv, RequestInv, CopyInv, CleanupInv, SetupInv, Setup,
                            At, ToldInv
  <1>5. QED
    BY <1>2, <1>3, <1>4 DEF CaptureInv

LEMMA CompleteOpNext ==
    ASSUME CaptureInv, async_complete_op
    PROVE  CaptureInv'
  <1>1. /\ pc.cb = "finish"
        /\ pc'.cb \in {"handler", "none"} /\ pc'.driver = pc.driver /\ pc'.client = pc.client
        /\ res' \in {"ok", "err"}
        /\ UNCHANGED <<ovlp, op, req, lock, hlock, armed, outBuf, dll, compl, cbStat, ops, fault>>
    BY FieldTypes DEF CaptureInv, ShapeInv, MemoryShape, ThreadShape, Places, async_complete_op,
                      Goto, memory, locks, async, rest
  <1>2. ShapeInv'
    BY FieldTypes, <1>1 DEF CaptureInv, ShapeInv, MemoryShape, ThreadShape, ValueShape, Places,
                            CbPcs, async_complete_op, Goto, memory, locks, async, rest
  <1>3. ComplInv' /\ RequestInv' /\ CopyInv'
    BY FieldTypes, <1>1 DEF CaptureInv, ComplInv, RequestInv, CopyInv, CleanupInv, SetupInv, Setup,
                            At, ToldInv
  <1>4. CleanupInv' /\ SetupInv' /\ ToldInv'
    BY FieldTypes, <1>1 DEF CaptureInv, ComplInv, RequestInv, CopyInv, CleanupInv, SetupInv, Setup,
                            At, ToldInv
  <1>5. QED
    BY <1>2, <1>3, <1>4 DEF CaptureInv

LEMMA EndsNext ==
    ASSUME CaptureInv, HandlerCallbackEnds
    PROVE  CaptureInv'
  <1>1. /\ pc.cb = "return"
        /\ pc'.cb = "none" /\ pc'.client = pc.client /\ pc'.driver = pc.driver
        /\ res' = None /\ armed' = FALSE /\ hlock' = None
        /\ UNCHANGED <<ovlp, op, req, lock, outBuf, dll, compl, cbStat, ops, fault>>
    BY FieldTypes DEF CaptureInv, ShapeInv, MemoryShape, ThreadShape, Places, HandlerCallbackEnds,
                      Goto, memory, locks, async, rest
  <1>2. ShapeInv'
    BY FieldTypes, <1>1 DEF CaptureInv, ShapeInv, MemoryShape, ThreadShape, ValueShape, Places,
                            CbPcs, HandlerCallbackEnds, Goto, memory, locks, async, rest
  <1>3. ComplInv' /\ RequestInv' /\ CopyInv'
    BY FieldTypes, <1>1 DEF CaptureInv, ComplInv, RequestInv, CopyInv, CleanupInv, SetupInv, Setup,
                            At, ToldInv
  <1>4. CleanupInv' /\ SetupInv' /\ ToldInv'
    BY FieldTypes, <1>1 DEF CaptureInv, ComplInv, RequestInv, CopyInv, CleanupInv, SetupInv, Setup,
                            At, ToldInv
  <1>5. QED
    BY <1>2, <1>3, <1>4 DEF CaptureInv

LEMMA CopyNext ==
    ASSUME CaptureInv, devctrl_cb
    PROVE  CaptureInv'
  <1>1. /\ compl.at = "next" /\ compl.left = OnlyCopy
        /\ outBuf' = (compl.status = "success")
        /\ compl'.by = compl.by /\ compl'.status = compl.status /\ compl'.then = compl.then
        /\ compl'.at = compl.at /\ compl'.left = <<>>
        /\ UNCHANGED <<ovlp, op, req, lock, hlock, armed, res, dll, cbStat, ops, fault, pc>>
    BY ListFacts, FieldTypes DEF CaptureInv, ShapeInv, MemoryShape, ThreadShape, Completions,
                                 devctrl_cb, NextCallback, memory, locks, async, rest
  <1>2. ShapeInv'
    BY ListFacts, FieldTypes, <1>1 DEF CaptureInv, ShapeInv, MemoryShape, ThreadShape, ValueShape,
                                       Completions, devctrl_cb, NextCallback, memory, locks, async,
                                       rest
  <1>3. ComplInv' /\ RequestInv' /\ CopyInv'
    BY ListFacts, FieldTypes, <1>1 DEF CaptureInv, ComplInv, RequestInv, CopyInv, CleanupInv,
                                       SetupInv, Setup, At, ToldInv
  <1>4. CleanupInv' /\ SetupInv' /\ ToldInv'
    BY ListFacts, FieldTypes, <1>1 DEF CaptureInv, ComplInv, RequestInv, CopyInv, CleanupInv,
                                       SetupInv, Setup, At, ToldInv
  <1>5. QED
    BY <1>2, <1>3, <1>4 DEF CaptureInv

LEMMA EventNext ==
    ASSUME CaptureInv, win_set_event
    PROVE  CaptureInv'
  <1>1. /\ compl.at = "event"
        /\ ovlp'.Internal = ovlp.Internal /\ ovlp'.Pointer = ovlp.Pointer /\ ovlp'.event = TRUE
        /\ compl'.by = compl.by /\ compl'.status = compl.status /\ compl'.then = compl.then
        /\ compl'.left = compl.left /\ compl'.at = "status"
        /\ UNCHANGED <<op, req, lock, hlock, armed, res, outBuf, dll, cbStat, ops, fault, pc>>
    BY FieldTypes DEF CaptureInv, ShapeInv, MemoryShape, ThreadShape, Overlapped, Completions,
                      win_set_event, memory, locks, async, rest
  <1>2. ShapeInv'
    BY FieldTypes, <1>1 DEF CaptureInv, ShapeInv, MemoryShape, ThreadShape, ValueShape, Overlapped,
                            Completions, win_set_event, memory, locks, async, rest
  <1>3. ComplInv' /\ RequestInv' /\ CopyInv'
    BY FieldTypes, <1>1 DEF CaptureInv, ComplInv, RequestInv, CopyInv, CleanupInv, SetupInv, Setup,
                            At, ToldInv
  <1>4. CleanupInv' /\ SetupInv' /\ ToldInv'
    BY FieldTypes, <1>1 DEF CaptureInv, ComplInv, RequestInv, CopyInv, CleanupInv, SetupInv, Setup,
                            At, ToldInv
  <1>5. QED
    BY <1>2, <1>3, <1>4 DEF CaptureInv

LEMMA StatusNext ==
    ASSUME CaptureInv, StoreStatus
    PROVE  CaptureInv'
  <1>0. op.alive /\ compl.by # None /\ compl.status \in Outcomes
    BY FieldTypes DEF CaptureInv, ComplInv, RequestInv, StoreStatus
  <1>1. /\ compl.at = "status"
        /\ op'.alive = op.alive /\ op'.cbFnc = op.cbFnc /\ op'.cbStatus = compl.status
        /\ compl'.by = compl.by /\ compl'.status = compl.status /\ compl'.then = compl.then
        /\ compl'.left = compl.left /\ compl'.at = "callback"
        /\ UNCHANGED <<ovlp, req, lock, hlock, armed, res, outBuf, dll, cbStat, ops, fault, pc>>
    BY <1>0, FieldTypes DEF CaptureInv, ShapeInv, MemoryShape, ThreadShape, Operations, Completions,
                            StoreStatus, memory, locks, async, rest
  <1>2. ShapeInv'
    <2>1. MemoryShape'
      BY <1>0, FieldTypes, <1>1 DEF CaptureInv, ShapeInv, MemoryShape, Operations, Completions,
                                    ComplInv, RequestInv, StoreStatus, memory, locks, async, rest
    <2>2. ThreadShape'
      BY <1>0, FieldTypes, <1>1 DEF CaptureInv, ShapeInv, ThreadShape, Operations, Completions,
                                    ComplInv, RequestInv, StoreStatus, memory, locks, async, rest
    <2>3. ValueShape'
      BY <1>0, FieldTypes, <1>1 DEF CaptureInv, ShapeInv, ValueShape, Operations, Completions,
                                    ComplInv, RequestInv, StoreStatus, memory, locks, async, rest
    <2>4. QED
      BY <2>1, <2>2, <2>3 DEF ShapeInv
  <1>3. ComplInv' /\ RequestInv' /\ CopyInv'
    BY FieldTypes, <1>1 DEF CaptureInv, ComplInv, RequestInv, CopyInv, CleanupInv, SetupInv, Setup,
                            At, ToldInv
  <1>4. CleanupInv' /\ SetupInv' /\ ToldInv'
    BY FieldTypes, <1>1 DEF CaptureInv, ComplInv, RequestInv, CopyInv, CleanupInv, SetupInv, Setup,
                            At, ToldInv
  <1>5. QED
    BY <1>2, <1>3, <1>4 DEF CaptureInv

LEMMA TakeNext ==
    ASSUME CaptureInv, TakeCallback
    PROVE  CaptureInv'
  <1>0. op.alive /\ compl.by # None /\ compl.status \in Outcomes
    BY FieldTypes DEF CaptureInv, ComplInv, RequestInv, TakeCallback
  <1>1. /\ compl.at = "callback"
        /\ op'.alive = op.alive /\ op'.cbStatus = op.cbStatus /\ op'.cbFnc = FALSE
        /\ compl'.by = compl.by /\ compl'.status = compl.status /\ compl'.then = compl.then
        /\ compl'.left = compl.left /\ compl'.at = "next"
        /\ pc'.cb = (IF op.cbFnc THEN "run" ELSE pc.cb) /\ pc'.client = pc.client
        /\ pc'.driver = pc.driver
        /\ cbStat' = (IF op.cbFnc THEN compl.status ELSE cbStat) /\ cbStat' \in Outcomes \cup {None}
        /\ UNCHANGED <<ovlp, req, lock, hlock, armed, res, outBuf, dll, ops, fault>>
    BY <1>0, FieldTypes DEF CaptureInv, ShapeInv, MemoryShape, ThreadShape, Operations, Completions,
                            Places, TakeCallback, Goto, memory, locks, async, rest
  <1>2. ShapeInv'
    <2>1. MemoryShape'
      BY <1>0, FieldTypes, <1>1 DEF CaptureInv, ShapeInv, MemoryShape, Operations, Completions,
                                    Places, CbPcs, ComplInv, RequestInv, TakeCallback, Goto, memory,
                                    locks, async, rest
    <2>2. ThreadShape'
      BY <1>0, FieldTypes, <1>1 DEF CaptureInv, ShapeInv, ThreadShape, Operations, Completions,
                                    Places, CbPcs, ComplInv, RequestInv, TakeCallback, Goto, memory,
                                    locks, async, rest
    <2>3. ValueShape'
      BY <1>0, FieldTypes, <1>1 DEF CaptureInv, ShapeInv, ValueShape, Operations, Completions,
                                    Places, CbPcs, ComplInv, RequestInv, TakeCallback, Goto, memory,
                                    locks, async, rest
    <2>4. QED
      BY <2>1, <2>2, <2>3 DEF ShapeInv
  <1>3. ComplInv' /\ RequestInv' /\ CopyInv'
    BY FieldTypes, <1>1 DEF CaptureInv, ComplInv, RequestInv, CopyInv, CleanupInv, SetupInv, Setup,
                            At, ToldInv
  <1>4. CleanupInv' /\ SetupInv' /\ ToldInv'
    BY FieldTypes, <1>1 DEF CaptureInv, ComplInv, RequestInv, CopyInv, CleanupInv, SetupInv, Setup,
                            At, ToldInv
  <1>5. QED
    BY <1>2, <1>3, <1>4 DEF CaptureInv

LEMMA UnlockNext ==
    ASSUME CaptureInv, UnlockRequest
    PROVE  CaptureInv'
  <1>1. /\ compl.at = "next" /\ compl.left = <<>> /\ compl.by # None
        /\ lock' = None /\ compl' = NoCompletion
        /\ compl'.by = None /\ compl'.at = None /\ compl'.left = <<>>
        /\ pc'.cb = pc.cb /\ pc'.client = (IF compl.by = "client" THEN compl.then ELSE pc.client)
        /\ pc'.driver = (IF compl.by = "driver" THEN "idle" ELSE pc.driver)
        /\ UNCHANGED <<ovlp, op, req, hlock, armed, res, outBuf, dll, cbStat, ops, fault>>
    BY ListFacts, FieldTypes DEF CaptureInv, ShapeInv, MemoryShape, ThreadShape, Completions,
                                 Places, UnlockRequest, NoCompletion, Goto, ComplInv, memory, locks,
                                 async, rest
  <1>2. ShapeInv'
    BY ListFacts, FieldTypes, <1>1 DEF CaptureInv, ShapeInv, MemoryShape, ThreadShape, ValueShape,
                                       Completions, Places, ClientPcs, UnlockRequest, NoCompletion,
                                       Goto, ComplInv, memory, locks, async, rest
  <1>3. ComplInv' /\ RequestInv' /\ CopyInv'
    BY ListFacts, FieldTypes, <1>1 DEF CaptureInv, ComplInv, RequestInv, CopyInv, CleanupInv,
                                       SetupInv, Setup, At, ToldInv
  <1>4. CleanupInv' /\ SetupInv' /\ ToldInv'
    BY ListFacts, FieldTypes, <1>1 DEF CaptureInv, ComplInv, RequestInv, CopyInv, CleanupInv,
                                       SetupInv, Setup, At, ToldInv
  <1>5. QED
    BY <1>2, <1>3, <1>4 DEF CaptureInv

LEMMA AddNext ==
    ASSUME CaptureInv, winwdf_add_request_callback
    PROVE  CaptureInv'
  <1>1. /\ pc.client = "add_cb" /\ compl.by = None /\ lock = None
        /\ req'.alive = req.alive /\ req'.started = req.started /\ req'.done = req.done
        /\ req'.status = req.status
        /\ req.done => /\ compl' = [by |-> "client", at |-> "next", status |-> req.status,
                                     left |-> OnlyNotify, then |-> "store_cb"]
                    /\ lock' = "client" /\ req' = req /\ pc' = pc
        /\ ~req.done => /\ req'.cbs = Both /\ compl' = compl /\ lock' = lock
                        /\ pc'.client = "store_cb" /\ pc'.driver = pc.driver /\ pc'.cb = pc.cb
        /\ UNCHANGED <<ovlp, op, hlock, armed, res, outBuf, dll, cbStat, ops, fault>>
    BY ListFacts, FieldTypes DEF CaptureInv, ShapeInv, MemoryShape, ThreadShape, Requests, Places,
                                 winwdf_add_request_callback, At, Goto, SetupInv, Setup, OnlyNotify,
                                 memory, locks, async, rest
  <1>2. ShapeInv'
    <2>1. MemoryShape'
      BY ListFacts, FieldTypes, <1>1 DEF CaptureInv, ShapeInv, MemoryShape, Requests, Places,
                                         ClientPcs, RequestInv, Completions, Threads, OnlyCopy,
                                         Both, winwdf_add_request_callback, At, Goto, SetupInv,
                                         Setup, OnlyNotify, memory, locks, async, rest
    <2>2. ThreadShape'
      BY ListFacts, FieldTypes, <1>1 DEF CaptureInv, ShapeInv, ThreadShape, Requests, Places,
                                         ClientPcs, RequestInv, Completions, Threads, OnlyCopy,
                                         Both, winwdf_add_request_callback, At, Goto, SetupInv,
                                         Setup, OnlyNotify, memory, locks, async, rest
    <2>3. ValueShape'
      BY ListFacts, FieldTypes, <1>1 DEF CaptureInv, ShapeInv, ValueShape, Requests, Places,
                                         ClientPcs, RequestInv, Completions, Threads, OnlyCopy,
                                         Both, winwdf_add_request_callback, At, Goto, SetupInv,
                                         Setup, OnlyNotify, memory, locks, async, rest
    <2>4. QED
      BY <2>1, <2>2, <2>3 DEF ShapeInv
  <1>3. ComplInv' /\ RequestInv' /\ CopyInv'
    BY ListFacts, FieldTypes, <1>1 DEF CaptureInv, ComplInv, RequestInv, CopyInv, CleanupInv,
                                       SetupInv, Setup, At, ToldInv
  <1>4. CleanupInv' /\ SetupInv' /\ ToldInv'
    BY ListFacts, FieldTypes, <1>1 DEF CaptureInv, ComplInv, RequestInv, CopyInv, CleanupInv,
                                       SetupInv, Setup, At, ToldInv
  <1>5. QED
    BY <1>2, <1>3, <1>4 DEF CaptureInv

LEMMA StartNext ==
    ASSUME CaptureInv, DeviceIoControl
    PROVE  CaptureInv'
  <1>1. /\ pc.client = "idle"
        /\ ovlp' = [Internal |-> Pending, Pointer |-> TRUE, event |-> FALSE]
        /\ op' = [alive |-> TRUE, ctx |-> FALSE, cbStatus |-> Pending, cbFnc |-> FALSE]
        /\ req' = [alive |-> TRUE, started |-> TRUE, done |-> FALSE, status |-> None,
                   drvCancel |-> FALSE, cbs |-> OnlyCopy]
        /\ hlock' = "client" /\ outBuf' = FALSE /\ armed' = FALSE /\ res' = Pending
        /\ cbStat' = None
        /\ pc'.client = "handler" /\ pc'.driver = pc.driver /\ pc'.cb = pc.cb
        /\ compl' = compl /\ lock' = lock /\ fault' = fault
    BY FieldTypes DEF CaptureInv, ShapeInv, MemoryShape, ThreadShape, Overlapped, Operations,
                      Requests, Places, DeviceIoControl, init_overlapped, tudor_devctrl,
                      winwdf_devctrl_file, wdf_start_request, wdf_configure_request,
                      wdf_create_request, async_new_res, OnlyCopy, Goto, memory, locks, async, rest
  <1>2. ShapeInv'
    <2>1. MemoryShape'
      <3>1. ovlp' \in Overlapped
        BY <1>1, FieldTypes DEF Overlapped
      <3>2. op' \in Operations
        BY <1>1, FieldTypes DEF Operations
      <3>3. req' \in Requests
        BY <1>1, FieldTypes DEF Requests, OnlyCopy
      <3>4. QED
        BY <3>1, <3>2, <3>3 DEF MemoryShape
    <2>2. ThreadShape'
      BY FieldTypes, <1>1 DEF CaptureInv, ShapeInv, ThreadShape, Overlapped, Operations, Requests,
                              Places, ClientPcs, Threads, DeviceIoControl, init_overlapped,
                              tudor_devctrl, winwdf_devctrl_file, wdf_start_request,
                              wdf_configure_request, wdf_create_request, async_new_res, OnlyCopy,
                              Goto, memory, locks, async, rest
    <2>3. ValueShape'
      <3>1. ops' \in 0..MaxOps
        BY CaptureAssumption DEF DeviceIoControl, CaptureInv, ShapeInv, ValueShape
      <3>2. fault \in Faults /\ fault # "complete" /\ lock \in Threads \cup {None}
        BY DEF CaptureInv, ShapeInv, ValueShape
      <3>3. QED
        BY <1>1, <3>1, <3>2, FieldTypes DEF ValueShape, Threads
    <2>4. QED
      BY <2>1, <2>2, <2>3 DEF ShapeInv
  <1>3. ComplInv' /\ RequestInv' /\ CopyInv'
    BY FieldTypes, <1>1 DEF CaptureInv, ComplInv, RequestInv, CopyInv, CleanupInv, SetupInv, Setup,
                            At, ToldInv
  <1>4. CleanupInv' /\ SetupInv' /\ ToldInv'
    BY FieldTypes, <1>1 DEF CaptureInv, ComplInv, RequestInv, CopyInv, CleanupInv, SetupInv, Setup,
                            At, ToldInv
  <1>5. QED
    BY <1>2, <1>3, <1>4 DEF CaptureInv

(* The waiting thread looks at the status. *)
LEMMA ChecksNext ==
    ASSUME CaptureInv, NEW t \in {"client", "cb"},
           ChecksPending(t)
    PROVE  CaptureInv'
  <1>1. /\ pc[t] = "wait"
        /\ t = "client" => /\ pc'.client = (IF ovlp.Internal = Pending THEN "blocked" ELSE "cleanup")
                           /\ pc'.cb = pc.cb
        /\ t = "cb" => /\ pc'.cb = (IF ovlp.Internal = Pending THEN "blocked" ELSE "cleanup")
                       /\ pc'.client = pc.client
        /\ pc'.driver = pc.driver
        /\ UNCHANGED <<ovlp, op, req, lock, hlock, armed, res, outBuf, dll, compl, cbStat, ops, fault>>
    BY FieldTypes DEF CaptureInv, ShapeInv, MemoryShape, ThreadShape, Places, ChecksPending, Goto,
                      memory, locks, async, rest
  <1>2. ShapeInv'
    <2>1. MemoryShape'
      BY FieldTypes, <1>1 DEF CaptureInv, ShapeInv, MemoryShape, Places, ClientPcs, CbPcs,
                              ChecksPending, Goto, memory, locks, async, rest
    <2>2. ThreadShape'
      BY FieldTypes, <1>1 DEF CaptureInv, ShapeInv, ThreadShape, Places, ClientPcs, CbPcs,
                              ChecksPending, Goto, memory, locks, async, rest
    <2>3. ValueShape'
      BY FieldTypes, <1>1 DEF CaptureInv, ShapeInv, ValueShape, Places, ClientPcs, CbPcs,
                              ChecksPending, Goto, memory, locks, async, rest
    <2>4. QED
      BY <2>1, <2>2, <2>3 DEF ShapeInv
  <1>3. ComplInv' /\ RequestInv' /\ CopyInv'
    BY FieldTypes, <1>1 DEF CaptureInv, ComplInv, RequestInv, CopyInv, CleanupInv, SetupInv, Setup,
                            At, ToldInv
  <1>4. CleanupInv' /\ SetupInv' /\ ToldInv'
    BY FieldTypes, <1>1 DEF CaptureInv, ComplInv, RequestInv, CopyInv, CleanupInv, SetupInv, Setup,
                            At, ToldInv
  <1>5. QED
    BY <1>2, <1>3, <1>4 DEF CaptureInv

(* The waiting thread takes the event. *)
LEMMA WaitNext ==
    ASSUME CaptureInv, NEW t \in {"client", "cb"},
           evt_wait(t)
    PROVE  CaptureInv'
  <1>1. /\ pc[t] = "blocked" /\ ovlp.event
        /\ t = "client" => pc'.client = "cleanup" /\ pc'.cb = pc.cb
        /\ t = "cb" => pc'.cb = "cleanup" /\ pc'.client = pc.client
        /\ pc'.driver = pc.driver
        /\ ovlp'.Internal = ovlp.Internal /\ ovlp'.Pointer = ovlp.Pointer /\ ovlp'.event = FALSE
        /\ UNCHANGED <<op, req, lock, hlock, armed, res, outBuf, dll, compl, cbStat, ops, fault>>
    BY FieldTypes DEF CaptureInv, ShapeInv, MemoryShape, ThreadShape, Places, Overlapped, evt_wait,
                      Goto, memory, locks, async, rest
  <1>2. ShapeInv'
    <2>1. MemoryShape'
      BY FieldTypes, <1>1 DEF CaptureInv, ShapeInv, MemoryShape, Places, Overlapped, ClientPcs,
                              CbPcs, evt_wait, Goto, memory, locks, async, rest
    <2>2. ThreadShape'
      BY FieldTypes, <1>1 DEF CaptureInv, ShapeInv, ThreadShape, Places, Overlapped, ClientPcs,
                              CbPcs, evt_wait, Goto, memory, locks, async, rest
    <2>3. ValueShape'
      BY FieldTypes, <1>1 DEF CaptureInv, ShapeInv, ValueShape, Places, Overlapped, ClientPcs,
                              CbPcs, evt_wait, Goto, memory, locks, async, rest
    <2>4. QED
      BY <2>1, <2>2, <2>3 DEF ShapeInv
  <1>3. ComplInv' /\ RequestInv' /\ CopyInv'
    BY FieldTypes, <1>1 DEF CaptureInv, ComplInv, RequestInv, CopyInv, CleanupInv, SetupInv, Setup,
                            At, ToldInv
  <1>4. CleanupInv' /\ SetupInv' /\ ToldInv'
    BY FieldTypes, <1>1 DEF CaptureInv, ComplInv, RequestInv, CopyInv, CleanupInv, SetupInv, Setup,
                            At, ToldInv
  <1>5. QED
    BY <1>2, <1>3, <1>4 DEF CaptureInv

(* A cleanup reads Pointer; if it is clear somebody else cleans up, or has. *)
LEMMA ReadsNext ==
    ASSUME CaptureInv, NEW t, NEW here, NEW clear, NEW skip,
           \/ t = "client" /\ here = "cleanup" /\ clear = "clear" /\ skip = "return"
           \/ t = "cb" /\ here = "cleanup" /\ clear = "clear" /\ skip = "read"
           \/ t = "cb" /\ here = "cleanup_async" /\ clear = "clear_async" /\ skip = "return",
           ReadsPointer(t, here, clear, skip)
    PROVE  CaptureInv'
  <1>1. /\ pc[t] = here
        /\ t = "client" => pc'.client = (IF ovlp.Pointer THEN clear ELSE skip) /\ pc'.cb = pc.cb
        /\ t = "cb" => pc'.cb = (IF ovlp.Pointer THEN clear ELSE skip) /\ pc'.client = pc.client
        /\ pc'.driver = pc.driver
        /\ UNCHANGED <<ovlp, op, req, lock, hlock, armed, res, outBuf, dll, compl, cbStat, ops, fault>>
    BY FieldTypes DEF CaptureInv, ShapeInv, MemoryShape, ThreadShape, Places, ReadsPointer, Goto,
                      memory, locks, async, rest
  <1>2. ShapeInv'
    <2>1. MemoryShape'
      BY FieldTypes, <1>1 DEF CaptureInv, ShapeInv, MemoryShape, Places, ClientPcs, CbPcs,
                              ReadsPointer, Goto, memory, locks, async, rest
    <2>2. ThreadShape'
      BY FieldTypes, <1>1 DEF CaptureInv, ShapeInv, ThreadShape, Places, ClientPcs, CbPcs,
                              ReadsPointer, Goto, memory, locks, async, rest
    <2>3. ValueShape'
      BY FieldTypes, <1>1 DEF CaptureInv, ShapeInv, ValueShape, Places, ClientPcs, CbPcs,
                              ReadsPointer, Goto, memory, locks, async, rest
    <2>4. QED
      BY <2>1, <2>2, <2>3 DEF ShapeInv
  <1>3. ComplInv' /\ RequestInv' /\ CopyInv'
    BY FieldTypes, <1>1 DEF CaptureInv, ComplInv, RequestInv, CopyInv, CleanupInv, SetupInv, Setup,
                            At, ToldInv
  <1>4. CleanupInv' /\ SetupInv' /\ ToldInv'
    BY FieldTypes, <1>1 DEF CaptureInv, ComplInv, RequestInv, CopyInv, CleanupInv, SetupInv, Setup,
                            At, ToldInv
  <1>5. QED
    BY <1>2, <1>3, <1>4 DEF CaptureInv

(* A cleanup clears Pointer: it is the one that frees. *)
LEMMA ClearsNext ==
    ASSUME CaptureInv, NEW t, NEW here, NEW destroy,
           \/ t = "client" /\ here = "clear" /\ destroy = "destroy"
           \/ t = "cb" /\ here = "clear" /\ destroy = "destroy"
           \/ t = "cb" /\ here = "clear_async" /\ destroy = "destroy_async",
           ClearsPointer(t, here, destroy)
    PROVE  CaptureInv'
  <1>1. /\ pc[t] = here
        /\ t = "client" => pc'.client = destroy /\ pc'.cb = pc.cb
        /\ t = "cb" => pc'.cb = destroy /\ pc'.client = pc.client
        /\ pc'.driver = pc.driver
        /\ ovlp'.Internal = ovlp.Internal /\ ovlp'.Pointer = FALSE /\ ovlp'.event = ovlp.event
        /\ UNCHANGED <<op, req, lock, hlock, armed, res, outBuf, dll, compl, cbStat, ops, fault>>
    BY FieldTypes DEF CaptureInv, ShapeInv, MemoryShape, ThreadShape, Places, Overlapped,
                      ClearsPointer, Goto, memory, locks, async, rest
  <1>2. ShapeInv'
    <2>1. MemoryShape'
      BY FieldTypes, <1>1 DEF CaptureInv, ShapeInv, MemoryShape, Places, Overlapped, ClientPcs,
                              CbPcs, ClearsPointer, Goto, memory, locks, async, rest
    <2>2. ThreadShape'
      BY FieldTypes, <1>1 DEF CaptureInv, ShapeInv, ThreadShape, Places, Overlapped, ClientPcs,
                              CbPcs, ClearsPointer, Goto, memory, locks, async, rest
    <2>3. ValueShape'
      BY FieldTypes, <1>1 DEF CaptureInv, ShapeInv, ValueShape, Places, Overlapped, ClientPcs,
                              CbPcs, ClearsPointer, Goto, memory, locks, async, rest
    <2>4. QED
      BY <2>1, <2>2, <2>3 DEF ShapeInv
  <1>3. ComplInv' /\ RequestInv' /\ CopyInv'
    BY FieldTypes, <1>1 DEF CaptureInv, ComplInv, RequestInv, CopyInv, CleanupInv, SetupInv, Setup,
                            At, ToldInv
  <1>4. CleanupInv' /\ SetupInv' /\ ToldInv'
    BY FieldTypes, <1>1 DEF CaptureInv, ComplInv, RequestInv, CopyInv, CleanupInv, SetupInv, Setup,
                            At, ToldInv
  <1>5. QED
    BY <1>2, <1>3, <1>4 DEF CaptureInv

(* A cleanup frees the request and the operation. *)
LEMMA DestroysNext ==
    ASSUME CaptureInv, NEW t, NEW here, NEW then,
           \/ t = "client" /\ here = "destroy" /\ then = "return"
           \/ t = "cb" /\ here = "destroy" /\ then = "read"
           \/ t = "cb" /\ here = "destroy_async" /\ then = "return",
           Destroys(t, here, then)
    PROVE  CaptureInv'
  <1>0. SUFFICES ASSUME op.alive /\ req.alive PROVE CaptureInv'
    BY BrokenKeeps DEF Destroys, Faults
  <1>1. /\ pc[t] = here /\ lock = None /\ compl.by = None
        /\ t = "client" => pc'.client = then /\ pc'.cb = pc.cb
        /\ t = "cb" => pc'.cb = then /\ pc'.client = pc.client
        /\ pc'.driver = pc.driver
        /\ op'.alive = FALSE /\ op'.cbStatus = op.cbStatus /\ op'.cbFnc = op.cbFnc
        /\ req'.alive = FALSE /\ req'.started = FALSE /\ req'.done = FALSE /\ req'.status = None
        /\ req'.cbs = req.cbs
        /\ UNCHANGED <<ovlp, lock, hlock, armed, res, outBuf, dll, compl, cbStat, ops, fault>>
    <2>1. /\ pc[t] = here /\ lock = None /\ pc' = [pc EXCEPT ![t] = then]
          /\ op' = [op EXCEPT !.alive = FALSE]
          /\ req' = [wdf_reset_request(req) EXCEPT !.alive = FALSE]
          /\ UNCHANGED <<ovlp, lock, hlock, armed, res, outBuf, dll, compl, cbStat, ops, fault>>
      BY <1>0, FieldTypes DEF Destroys, Goto, locks, async, rest
    <2>2. compl.by = None
      BY <2>1, FieldTypes
    <2>3. /\ t = "client" => pc'.client = then /\ pc'.cb = pc.cb
          /\ t = "cb" => pc'.cb = then /\ pc'.client = pc.client
          /\ pc'.driver = pc.driver
      BY <2>1 DEF CaptureInv, ShapeInv, ThreadShape, Places
    <2>4. op'.alive = FALSE /\ op'.cbStatus = op.cbStatus /\ op'.cbFnc = op.cbFnc
      BY <2>1 DEF CaptureInv, ShapeInv, MemoryShape, Operations
    <2>5. /\ req'.alive = FALSE /\ req'.started = FALSE /\ req'.done = FALSE /\ req'.status = None
          /\ req'.cbs = req.cbs
      BY <2>1 DEF CaptureInv, ShapeInv, MemoryShape, Requests, wdf_reset_request
    <2>6. QED
      BY <2>1, <2>2, <2>3, <2>4, <2>5
  <1>2. ShapeInv'
    <2>1. MemoryShape'
      BY <1>0, FieldTypes, <1>1 DEF CaptureInv, ShapeInv, MemoryShape, Places, Operations, Requests,
                                    ClientPcs, CbPcs, Destroys, wdf_reset_request, Goto, memory,
                                    locks, async, rest
    <2>2. ThreadShape'
      BY <1>0, FieldTypes, <1>1 DEF CaptureInv, ShapeInv, ThreadShape, Places, Operations, Requests,
                                    ClientPcs, CbPcs, Destroys, wdf_reset_request, Goto, memory,
                                    locks, async, rest
    <2>3. ValueShape'
      BY <1>0, FieldTypes, <1>1 DEF CaptureInv, ShapeInv, ValueShape, Places, Operations, Requests,
                                    ClientPcs, CbPcs, Destroys, wdf_reset_request, Goto, memory,
                                    locks, async, rest
    <2>4. QED
      BY <2>1, <2>2, <2>3 DEF ShapeInv
  <1>3. ComplInv' /\ RequestInv' /\ CopyInv'
    <2>1. ovlp.Internal \in Outcomes
      BY <1>1, FieldTypes DEF CaptureInv, CleanupInv, ToldInv
    <2>2. req.done /\ ovlp.Internal = req.status /\ outBuf = (ovlp.Internal = "success")
      BY <1>0, <1>1, <2>1, FieldTypes DEF CaptureInv, RequestInv, CopyInv
    <2>3. QED
      BY <1>1, <2>1, <2>2, FieldTypes DEF CaptureInv, ComplInv, RequestInv, CopyInv
  <1>4. CleanupInv' /\ SetupInv' /\ ToldInv'
    BY FieldTypes, <1>1 DEF CaptureInv, ComplInv, RequestInv, CopyInv, CleanupInv, SetupInv, Setup,
                            At, ToldInv
  <1>5. QED
    BY <1>2, <1>3, <1>4 DEF CaptureInv

(* A request is completed: with its list of callbacks if it is pending, else nothing happens. *)
LEMMA CompleteNext ==
    ASSUME CaptureInv, NEW t, NEW s \in Outcomes, NEW then, compl.by # t,
           \/ t = "client" /\ pc.client = "handler" /\ then = "publish"
           \/ t = "client" /\ pc.client = "drv_cancel" /\ then = "relock"
           \/ t = "driver" /\ pc.driver = "unmarked" /\ then = "idle",
           wdf_complete_request(t, s, then)
    PROVE  CaptureInv'
  <1>1. /\ lock = None /\ compl.by = None
        /\ req'.alive = req.alive /\ req'.started = req.started /\ req'.cbs = req.cbs
        /\ req.started /\ ~req.done => /\ req'.done = TRUE /\ req'.status = s /\ lock' = t
                                       /\ pc' = pc
                                      /\ compl' = [by |-> t, at |-> "next", status |-> s,
                                                    left |-> req.cbs, then |-> then]
        /\ ~(req.started /\ ~req.done) => /\ req' = req /\ lock' = lock /\ compl' = compl
                                          /\ pc'.cb = pc.cb
                                         /\ pc'.client = (IF t = "client" THEN then ELSE pc.client)
                                         /\ pc'.driver = (IF t = "driver" THEN then ELSE pc.driver)
        /\ UNCHANGED <<ovlp, op, hlock, armed, res, outBuf, cbStat, ops, fault>>
    BY FieldTypes DEF CaptureInv, ShapeInv, MemoryShape, ThreadShape, Places, Requests,
                      wdf_complete_request, Goto, memory, locks, async, rest
  <1>2. ShapeInv'
    <2>1. MemoryShape'
      BY FieldTypes, <1>1 DEF CaptureInv, ShapeInv, MemoryShape, Places, Requests, ClientPcs,
                              Completions, Threads, RequestInv, wdf_complete_request, Goto, memory,
                              locks, async, rest
    <2>2. ThreadShape'
      <3>1. dll' \in [owes : BOOLEAN, told : BOOLEAN]
        BY DEF CaptureInv, ShapeInv, ThreadShape, wdf_complete_request
      <3>2. pc' \in Places
        BY DEF CaptureInv, ShapeInv, ThreadShape, wdf_complete_request, Goto, Places, ClientPcs
      <3>3. compl' \in Completions
        BY <1>1, FieldTypes DEF CaptureInv, ShapeInv, ThreadShape, RequestInv, Completions
      <3>4. QED
        BY <3>1, <3>2, <3>3 DEF ThreadShape
    <2>3. ValueShape'
      BY FieldTypes, <1>1 DEF CaptureInv, ShapeInv, ValueShape, Places, Requests, ClientPcs,
                              Completions, Threads, RequestInv, wdf_complete_request, Goto, memory,
                              locks, async, rest
    <2>4. QED
      BY <2>1, <2>2, <2>3 DEF ShapeInv
  <1>3. ComplInv' /\ RequestInv' /\ CopyInv'
    BY FieldTypes, <1>1 DEF CaptureInv, ComplInv, RequestInv, CopyInv, CleanupInv, SetupInv, Setup,
                            At, ToldInv
  <1>4. CleanupInv' /\ SetupInv' /\ ToldInv'
    BY FieldTypes, <1>1 DEF CaptureInv, ComplInv, RequestInv, CopyInv, CleanupInv, SetupInv, Setup,
                            At, ToldInv
  <1>5. QED
    BY <1>2, <1>3, <1>4 DEF CaptureInv

(* The driver half keeps the request, and may have made it cancelable. *)
LEMMA KeepNext ==
    ASSUME CaptureInv, pc.client = "handler", compl.by # "client", NEW marked \in BOOLEAN,
           req' = [req EXCEPT !.drvCancel = marked],
           Goto("client", "publish"), UNCHANGED <<ovlp, op, locks, async, rest, compl>>
    PROVE  CaptureInv'
  <1>1. /\ pc.client = "handler"
        /\ req'.alive = req.alive /\ req'.started = req.started /\ req'.done = req.done
        /\ req'.status = req.status /\ req'.cbs = req.cbs
        /\ pc'.client = "publish" /\ pc'.driver = pc.driver /\ pc'.cb = pc.cb
        /\ UNCHANGED <<ovlp, op, lock, hlock, armed, res, outBuf, dll, compl, cbStat, ops, fault>>
    BY FieldTypes DEF CaptureInv, ShapeInv, MemoryShape, ThreadShape, Places, Requests, Goto,
                      memory, locks, async, rest
  <1>2. ShapeInv'
    <2>1. MemoryShape'
      BY FieldTypes, <1>1 DEF CaptureInv, ShapeInv, MemoryShape, Places, Requests, ClientPcs, Goto,
                              memory, locks, async, rest
    <2>2. ThreadShape'
      BY FieldTypes, <1>1 DEF CaptureInv, ShapeInv, ThreadShape, Places, Requests, ClientPcs, Goto,
                              memory, locks, async, rest
    <2>3. ValueShape'
      BY FieldTypes, <1>1 DEF CaptureInv, ShapeInv, ValueShape, Places, Requests, ClientPcs, Goto,
                              memory, locks, async, rest
    <2>4. QED
      BY <2>1, <2>2, <2>3 DEF ShapeInv
  <1>3. ComplInv' /\ RequestInv' /\ CopyInv'
    BY FieldTypes, <1>1 DEF CaptureInv, ComplInv, RequestInv, CopyInv, CleanupInv, SetupInv, Setup,
                            At, ToldInv
  <1>4. CleanupInv' /\ SetupInv' /\ ToldInv'
    BY FieldTypes, <1>1 DEF CaptureInv, ComplInv, RequestInv, CopyInv, CleanupInv, SetupInv, Setup,
                            At, ToldInv
  <1>5. QED
    BY <1>2, <1>3, <1>4 DEF CaptureInv

(* The handler's callback takes the handler's lock. *)
LEMMA LockNext ==
    ASSUME CaptureInv, pc.cb = "handler", hlock = None, hlock' = "cb",
           Goto("cb", "cleanup_async"), UNCHANGED <<memory, lock, async, rest, compl>>
    PROVE  CaptureInv'
  <1>1. /\ pc.cb = "handler" /\ hlock = None
        /\ pc'.cb = "cleanup_async" /\ pc'.client = pc.client /\ pc'.driver = pc.driver
        /\ hlock' = "cb"
        /\ UNCHANGED <<ovlp, op, req, lock, armed, res, outBuf, dll, compl, cbStat, ops, fault>>
    BY FieldTypes DEF CaptureInv, ShapeInv, MemoryShape, ThreadShape, Places, Goto, memory, locks,
                      async, rest
  <1>2. ShapeInv'
    BY FieldTypes, <1>1 DEF CaptureInv, ShapeInv, MemoryShape, ThreadShape, ValueShape, Places,
                            CbPcs, Threads, Goto, memory, locks, async, rest
  <1>3. ComplInv' /\ RequestInv' /\ CopyInv'
    BY FieldTypes, <1>1 DEF CaptureInv, ComplInv, RequestInv, CopyInv, CleanupInv, SetupInv, Setup,
                            At, ToldInv
  <1>4. CleanupInv' /\ SetupInv' /\ ToldInv'
    BY FieldTypes, <1>1 DEF CaptureInv, ComplInv, RequestInv, CopyInv, CleanupInv, SetupInv, Setup,
                            At, ToldInv
  <1>5. QED
    BY <1>2, <1>3, <1>4 DEF CaptureInv

(* The driver's cancel routine leaves the request to the driver's thread. *)
LEMMA ToldNext ==
    ASSUME CaptureInv, pc.client = "drv_cancel", compl.by # "client", dll' = [dll EXCEPT !.told = TRUE],
           Goto("client", "relock"), UNCHANGED <<memory, locks, async, outBuf, cbStat, ops, fault, compl>>
    PROVE  CaptureInv'
  <1>1. /\ pc.client = "drv_cancel" /\ compl.by # "client"
        /\ pc'.client = "relock" /\ pc'.driver = pc.driver /\ pc'.cb = pc.cb
        /\ UNCHANGED <<ovlp, op, req, lock, hlock, armed, res, outBuf, compl, cbStat, ops, fault>>
    BY FieldTypes DEF CaptureInv, ShapeInv, MemoryShape, ThreadShape, Places, Goto, memory, locks,
                      async, rest
  <1>2. ShapeInv'
    BY FieldTypes, <1>1 DEF CaptureInv, ShapeInv, MemoryShape, ThreadShape, ValueShape, Places,
                            ClientPcs, Goto, memory, locks, async, rest
  <1>3. ComplInv' /\ RequestInv' /\ CopyInv'
    BY FieldTypes, <1>1 DEF CaptureInv, ComplInv, RequestInv, CopyInv, CleanupInv, SetupInv, Setup,
                            At, ToldInv
  <1>4. CleanupInv' /\ SetupInv' /\ ToldInv'
    BY FieldTypes, <1>1 DEF CaptureInv, ComplInv, RequestInv, CopyInv, CleanupInv, SetupInv, Setup,
                            At, ToldInv
  <1>5. QED
    BY <1>2, <1>3, <1>4 DEF CaptureInv

-----------------------------------------------------------------------------
LEMMA CaptureInit == Init => CaptureInv
  <1> SUFFICES ASSUME Init PROVE CaptureInv
    OBVIOUS
  <1>1. MemoryShape
    BY DEF Init, MemoryShape, Overlapped, Operations, Requests
  <1>2. ThreadShape
    BY DEF Init, ThreadShape, Completions, NoCompletion, Places, ClientPcs, CbPcs
  <1>3. ValueShape
    <2>1. 0 \in 0..MaxOps
      BY CaptureAssumption
    <2>2. None # "complete"
      BY DEF None
    <2>3. QED
      BY <2>1, <2>2 DEF Init, ValueShape, Faults
  <1>4. ComplInv /\ RequestInv /\ CopyInv
    BY DEF Init, ComplInv, RequestInv, CopyInv, NoCompletion, None, Pending, Outcomes
  <1>5. CleanupInv /\ SetupInv /\ ToldInv
    BY DEF Init, CleanupInv, SetupInv, Setup, At, ToldInv, None, Pending, Outcomes
  <1>6. QED
    BY <1>1, <1>2, <1>3, <1>4, <1>5 DEF CaptureInv, ShapeInv

(* One of the three threads steps outside wdf_complete_request. *)
LEMMA CollectsNext ==
    ASSUME CaptureInv, Collects("client", "return") \/ Collects("cb", "read")
    PROVE  CaptureInv'
  <1>1. ASSUME NEW t \in {"client", "cb"}, ChecksPending(t) \/ evt_wait(t)
        PROVE  CaptureInv'
    BY <1>1, ChecksNext, WaitNext
  <1>2. CASE \/ ReadsPointer("client", "cleanup", "clear", "return")
             \/ ReadsPointer("cb", "cleanup", "clear", "read")
    BY <1>2, ReadsNext
  <1>3. CASE ClearsPointer("client", "clear", "destroy") \/ ClearsPointer("cb", "clear", "destroy")
    BY <1>3, ClearsNext
  <1>4. CASE Destroys("client", "destroy", "return") \/ Destroys("cb", "destroy", "read")
    BY <1>4, DestroysNext
  <1>5. QED
    BY <1>1, <1>2, <1>3, <1>4 DEF Collects

LEMMA ClientNext ==
    ASSUME CaptureInv, ClientStep
    PROVE  CaptureInv'
  <1>1. CASE EvtIoDeviceControl
    <2>1. ASSUME NEW s \in {"success", "failed"}, wdf_complete_request("client", s, "publish")
          PROVE  CaptureInv'
      BY <1>1, <2>1, CompleteNext DEF EvtIoDeviceControl, At, Outcomes
    <2>2. QED
      BY <1>1, <2>1, KeepNext DEF EvtIoDeviceControl, At
  <1>2. CASE drv_cancel
    <2>1. CASE ~req.alive
      BY <1>2, <2>1, BrokenKeeps DEF drv_cancel, Faults
    <2>2. CASE wdf_complete_request("client", "cancelled", "relock")
      BY <1>2, <2>2, CompleteNext DEF drv_cancel, At, Outcomes
    <2>3. CASE /\ dll' = [dll EXCEPT !.told = TRUE]
               /\ Goto("client", "relock")
               /\ UNCHANGED <<memory, locks, async, outBuf, cbStat, ops, fault, compl>>
      BY <1>2, <2>3, ToldNext DEF drv_cancel, At
    <2>4. QED
      BY <1>2, <2>1, <2>2, <2>3 DEF drv_cancel
  <1>3. QED
    BY <1>1, <1>2, CollectsNext, PublishNext, AddNext, StoreNext, LoadNext, ExchangeNext,
       SetAsyncNext, ActionOverNext, CancelRequestNext, RelockNext, CancelReturnsNext
       DEF ClientStep

LEMMA DriverNext ==
    ASSUME CaptureInv, DriverStep
    PROVE  CaptureInv'
  <1>1. CASE WdfRequestComplete
    <2>1. CASE ~req.alive
      BY <1>1, <2>1, BrokenKeeps DEF WdfRequestComplete, Faults
    <2>2. CASE req.alive
      <3>1. PICK s \in Outcomes : wdf_complete_request("driver", s, "idle")
        BY <1>1, <2>2 DEF WdfRequestComplete, Outcomes
      <3>2. QED
        BY <1>1, <3>1, CompleteNext DEF WdfRequestComplete, At
    <2>3. QED
      BY <2>1, <2>2
  <1>2. QED
    BY <1>1, MarkNext, UnmarkNext DEF DriverStep

LEMMA CallbackNext ==
    ASSUME CaptureInv, CallbackStep
    PROVE  CaptureInv'
  <1>1. CASE cleanup_action
    BY <1>1, LockNext, ReadsNext, ClearsNext, DestroysNext DEF cleanup_action
  <1>2. QED
    BY <1>1, CaptureCbNext, CollectsNext, FinishNext, CompleteOpNext, EndsNext DEF CallbackStep

LEMMA CaptureNext == CaptureInv /\ [Next]_vars => CaptureInv'
  <1> SUFFICES ASSUME CaptureInv, [Next]_vars PROVE CaptureInv'
    OBVIOUS
  <1>1. CASE UNCHANGED vars
    <2>1. ShapeInv'
      BY <1>1 DEF CaptureInv, ShapeInv, MemoryShape, ThreadShape, ValueShape, vars, memory, locks,
                  async, rest
    <2>2. ComplInv' /\ RequestInv' /\ CopyInv'
      BY <1>1 DEF CaptureInv, ComplInv, RequestInv, CopyInv, vars, memory, locks, async, rest
    <2>3. CleanupInv' /\ SetupInv' /\ ToldInv'
      BY <1>1 DEF CaptureInv, CleanupInv, SetupInv, Setup, At, ToldInv, vars, memory, locks, async,
                  rest
    <2>4. QED
      BY <2>1, <2>2, <2>3 DEF CaptureInv
  <1>2. CASE CompletionStep
    BY <1>2, CopyNext, NotifyNext, EventNext, StatusNext, TakeNext, UnlockNext DEF CompletionStep
  <1>3. QED
    BY <1>1, <1>2, StartNext, CancelNext, ClientNext, DriverNext, CallbackNext DEF Next

LEMMA CaptureInvariant == Spec => []CaptureInv
  BY CaptureInit, CaptureNext, PTL DEF Spec

(* However the message thread, the driver's thread and the callback's       *)
(* thread interleave: the completing thread never touches the operation     *)
(* after its free, and what FinishCapture has collected is in its buffer    *)
(* (io.c:59-129, request.c:184-216).                                        *)
THEOREM CaptureIsSound == Spec => []CaptureSound
  <1> SUFFICES CaptureInv => CaptureSound
    BY CaptureInvariant, PTL
  <1> SUFFICES ASSUME CaptureInv PROVE CaptureSound
    OBVIOUS
  <1>1. TypeOK
    <2>1. compl.by \in Threads \cup {None}
      BY FieldTypes DEF Threads
    <2>2. QED
      BY <2>1, FieldTypes DEF CaptureInv, ShapeInv, MemoryShape, ThreadShape, ValueShape, TypeOK,
                              Overlapped, Operations
  <1>2. CompleterSafe
    BY DEF CaptureInv, ShapeInv, ValueShape, CompleterSafe
  <1>3. CollectedIsComplete
    BY FieldTypes DEF CaptureInv, CopyInv, CleanupInv, ToldInv, CollectedIsComplete
  <1>4. QED
    BY <1>1, <1>2, <1>3 DEF CaptureSound

(* What a step does to the status and to the callback. *)
Quiet    == ovlp'.Internal = ovlp.Internal /\ cbStat' = cbStat /\ (pc'.cb = "run" => pc.cb = "run")
Tells    == /\ ovlp.Internal \in Outcomes /\ cbStat = None
            /\ cbStat' = ovlp.Internal /\ ovlp'.Internal = ovlp.Internal
Settles  == /\ ovlp.Internal = Pending /\ ovlp'.Internal \in Outcomes
            /\ cbStat' = cbStat /\ pc' = pc

LEMMA CompletionTells ==
    ASSUME CaptureInv, CompletionStep
    PROVE  Quiet \/ Tells \/ Settles
  <1> ovlp \in Overlapped /\ pc \in Places
    BY DEF CaptureInv, ShapeInv, MemoryShape, ThreadShape
  <1>1. CASE devctrl_cb \/ win_set_event
    BY <1>1 DEF Quiet, devctrl_cb, win_set_event, Overlapped, memory, rest
  <1>2. CASE req_cb
    <2>1. /\ compl.at = "next" /\ compl.left \in {OnlyNotify, Both}
          /\ ovlp' = [ovlp EXCEPT !.Internal = compl.status]
      BY <1>2, FieldTypes, ListFacts DEF req_cb, NextCallback
    <2>2. ovlp.Internal = Pending /\ compl.status \in Outcomes
      BY <2>1, FieldTypes DEF CaptureInv, ComplInv, RequestInv
    <2>3. QED
      BY <1>2, <2>1, <2>2 DEF Settles, req_cb, Overlapped, rest
  <1>3. CASE StoreStatus
    BY <1>3 DEF Quiet, StoreStatus, Broken, memory, rest
  <1>4. CASE TakeCallback
    <2>1. /\ op.cbFnc => cbStat = None
          /\ op.alive /\ compl.status = ovlp.Internal /\ compl.status \in Outcomes
      BY <1>4, FieldTypes DEF CaptureInv, ComplInv, RequestInv, ToldInv, TakeCallback
    <2>2. QED
      BY <1>4, <2>1 DEF Quiet, Tells, TakeCallback
  <1>5. CASE UnlockRequest
    <2>1. compl.by \in {"client", "driver"}
      BY <1>5, FieldTypes DEF UnlockRequest
    <2>2. QED
      BY <1>5, <2>1 DEF Quiet, UnlockRequest, Goto, Places, memory, rest
  <1>6. QED
    BY <1>1, <1>2, <1>3, <1>4, <1>5 DEF CompletionStep

LEMMA ClientTells ==
    ASSUME CaptureInv, ClientStep \/ winio_cancel_overlapped
    PROVE  Quiet \/ Tells
  <1> ovlp \in Overlapped /\ pc \in Places
    BY DEF CaptureInv, ShapeInv, MemoryShape, ThreadShape
  <1>1. CASE ExchangeCallback
    <2>1. op.cbStatus \in Outcomes /\ op.cbStatus = ovlp.Internal /\ (op.cbFnc => cbStat = None)
      BY <1>1, FieldTypes DEF CaptureInv, RequestInv, SetupInv, ToldInv, ExchangeCallback
    <2>2. QED
      BY <1>1, <2>1 DEF Quiet, Tells, ExchangeCallback, Goto, Places, Broken, memory
  <1>2. CASE StoreCallback
    BY <1>2 DEF CaptureInv, SetupInv, Quiet, StoreCallback, Goto, Places
  <1>3. CASE EvtIoDeviceControl \/ drv_cancel
    BY <1>3 DEF Quiet, EvtIoDeviceControl, drv_cancel, wdf_complete_request, Goto, Places, Broken,
                memory, rest
  <1>4. CASE \/ PublishRequest \/ winwdf_add_request_callback \/ LoadStatus
             \/ tudor_set_async_callback \/ ActionOver
    BY <1>4 DEF Quiet, PublishRequest, winwdf_add_request_callback, LoadStatus,
                tudor_set_async_callback, ActionOver, Goto, Places, Broken, memory, rest
  <1>5. CASE winio_cancel_overlapped \/ winwdf_cancel_request \/ CancelRelocks \/ CancelReturns
    BY <1>5 DEF Quiet, winio_cancel_overlapped, winwdf_cancel_request, CancelRelocks, CancelReturns,
                Goto, Places, Broken, memory, rest
  <1>6. CASE Collects("client", "return")
    BY <1>6 DEF Quiet, Collects, ChecksPending, evt_wait, ReadsPointer, ClearsPointer, Destroys,
                Goto, Places, Overlapped, Broken, memory, rest
  <1>7. QED
    BY <1>1, <1>2, <1>3, <1>4, <1>5, <1>6 DEF ClientStep

LEMMA OthersTellNothing ==
    ASSUME CaptureInv, DriverStep \/ CallbackStep
    PROVE  Quiet
  <1> ovlp \in Overlapped /\ pc \in Places
    BY DEF CaptureInv, ShapeInv, MemoryShape, ThreadShape
  <1>1. CASE DriverStep
    BY <1>1 DEF Quiet, DriverStep, WdfRequestMarkCancelable, WdfRequestUnmarkCancelable,
                WdfRequestComplete, wdf_complete_request, Goto, Places, Broken, memory, rest
  <1>2. CASE Collects("cb", "read")
    BY <1>2 DEF Quiet, Collects, ChecksPending, evt_wait, ReadsPointer, ClearsPointer, Destroys,
                Goto, Places, Overlapped, Broken, memory, rest
  <1>3. CASE cleanup_action
    BY <1>3 DEF Quiet, cleanup_action, ReadsPointer, ClearsPointer, Destroys, Goto, Places,
                Overlapped, Broken, memory, rest
  <1>4. CASE capture_cb \/ FinishCapture \/ async_complete_op \/ HandlerCallbackEnds
    BY <1>4 DEF Quiet, capture_cb, FinishCapture, async_complete_op, HandlerCallbackEnds, Goto,
                Places, memory, rest
  <1>5. QED
    BY <1>1, <1>2, <1>3, <1>4 DEF CallbackStep

LEMMA StepTells ==
    ASSUME CaptureInv, [Next]_vars, ~DeviceIoControl
    PROVE  Quiet \/ Tells \/ Settles
  <1>1. CASE UNCHANGED vars
    BY <1>1 DEF Quiet, vars, memory, rest
  <1>2. QED
    BY <1>1, CompletionTells, ClientTells, OthersTellNothing DEF Next

(* The callback of a capture is started at most once, whether the           *)
(* completion or winio_set_overlapped_callback finds it set first           *)
(* (io.c:82-98, io.c:114-129).                                              *)
THEOREM CaptureCallbackOnce == Spec => CallbackOnce
  <1>1. CaptureInv /\ [Next]_vars => [pc'.cb = "run" /\ pc.cb # "run" => cbStat = None]_vars
    <2> SUFFICES ASSUME CaptureInv, [Next]_vars, pc'.cb = "run", pc.cb # "run"
                 PROVE  cbStat = None
      OBVIOUS
    <2>1. ~DeviceIoControl
      BY DEF CaptureInv, ShapeInv, ThreadShape, Places, DeviceIoControl, Goto
    <2>2. QED
      BY <2>1, StepTells DEF Quiet, Tells, Settles
  <1>2. QED
    BY <1>1, CaptureInvariant, PTL DEF Spec, CallbackOnce

(* The whole machinery of OVERLAPPED, request, event and callback is a      *)
(* one-shot result: a capture completes with one status, its callback is    *)
(* told that status once, and the next capture starts only after it was     *)
(* (io.c:59-129, request.c:184-216).                                        *)
THEOREM CaptureImplementsResult == Spec => ImplementsAsyncResult
  <1> USE DEF Result!Init, Result!Next, Result!Start, Result!Complete, Result!Tell, Result!vars
  <1>1. Init => Result!Init
    <2>1. Init => ovlp.Internal = None /\ cbStat = None
      BY DEF Init
    <2>2. None \notin Outcomes /\ None # Pending
      BY DEF None, Pending, Outcomes
    <2>3. QED
      BY <2>1, <2>2
  <1>2. CaptureInv /\ [Next]_vars => [Result!Next]_(Result!vars)
    <2> SUFFICES ASSUME CaptureInv, [Next]_vars
                 PROVE  [Result!Next]_(Result!vars)
      OBVIOUS
    <2>1. CASE DeviceIoControl
      <3>1. ovlp'.Internal = Pending /\ cbStat' = None
        BY <2>1 DEF DeviceIoControl, init_overlapped
      <3>2. ovlp.Internal = None \/ (ovlp.Internal \in Outcomes /\ cbStat = ovlp.Internal)
        BY <2>1, FieldTypes DEF CaptureInv, ToldInv, DeviceIoControl
      <3>3. cbStat = None \/ cbStat = ovlp.Internal
        BY DEF CaptureInv, ToldInv
      <3>4. QED
        BY <3>1, <3>2, <3>3, FieldTypes
    <2>2. CASE Quiet
      BY <2>2 DEF Quiet
    <2>3. CASE Tells
      BY <2>3, FieldTypes DEF Tells
    <2>4. CASE Settles
      BY <2>4, FieldTypes DEF Settles
    <2>5. QED
      BY <2>1, <2>2, <2>3, <2>4, StepTells
  <1>3. QED
    BY <1>1, <1>2, CaptureInvariant, PTL DEF Spec, ImplementsAsyncResult, Result!Spec
=============================================================================
