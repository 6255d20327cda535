----------------------------- MODULE WdfObjects -----------------------------
(***************************************************************************)
(* The WDF object tree and its event queue (wdf/object.c, evtqueue.c), and *)
(* the life of a driver, its device, queues and file (wdf/driver.c,        *)
(* device.c, queue.c, file.c) as tudor_init, tudor_open, tudor_close and   *)
(* tudor_shutdown drive it (tudor/device.c, tudor/driver.c).               *)
(*                                                                         *)
(* Two threads: "main", and the driver half's own thread "dll" (external), *)
(* which creates requests, memory and strings below the driver and deletes *)
(* them.  Destroying an object calls many destructors; `todo` is what the  *)
(* main thread has left of them, innermost first.                          *)
(***************************************************************************)
EXTENDS Naturals, Sequences, SequencesExt

CONSTANTS Queues,    \* the I/O queues the driver half creates
          Extras,    \* the objects its thread creates
          MaxActs,   \* bound: actions in the event queue
          MaxOpens   \* bound: how often the device is opened

ASSUME ObjectsAssumption ==
    /\ MaxActs \in Nat /\ MaxOpens \in Nat
    /\ Queues \cap Extras = {}
    /\ (Queues \cup Extras) \cap {"none", "driver", "device", "file", "create"} = {}

None    == "none"
Objects == {"driver", "device", "file", "create"} \cup Queues \cup Extras
Cells   == 1..MaxActs

VARIABLES alive,     \* objects that are allocated
          parent,    \* obj->parent_list, None once it is NULL
          kids,      \* child_list, head first
          dead,      \* objects whose child_list is dead
          queues,    \* dev->queues_head
          cell,      \* the event queue's allocated actions
          evtq,      \* queue_head, first to be taken first
          acts,      \* obj->evtqueue_acts_head
          flushing,  \* does the main thread hold queue_mutex and flush?
          linking,   \* the action the DLL's thread has still to link to its object
          hw,        \* did the attachment callbacks run?
          todo,      \* destructor frames of the main thread
          at,        \* where the main thread is
          opens,
          fault

tree   == <<alive, parent, kids, dead, queues>>
events == <<cell, evtq, acts, flushing, linking>>
life   == <<hw, at, opens>>
vars   == <<tree, events, life, todo, fault>>

Free    == [obj |-> None, fn |-> None]
Frames  == {"destroy", "queues", "removal", "children", "unlink", "contexts"}
Places  == {"init", "entry", "query", "closed", "adding", "flush_open", "create", "pipeline",
            "open", "file_gone", "device_gone", "flush_close", "unload", "gone", "exit", "failed"}
Race    == "evtqueue_race"
Faults  == {None, Race, "freed", "dead_parent", "abort", "reopen", "queue_node"}

TypeOK ==
    /\ alive \subseteq Objects /\ dead \subseteq Objects
    /\ parent \in [Objects -> Objects \cup {None}]
    /\ \A o \in Objects : kids[o] \in Seq(Objects) /\ acts[o] \in Seq(Cells)
    /\ queues \in Seq(Queues)
    /\ cell \in [Cells -> [obj : Objects \cup {None}, fn : {None, "call_cbs", "destroy"}]]
    /\ evtq \in Seq(Cells)
    /\ flushing \in BOOLEAN /\ linking \in Cells \cup {0}
    /\ hw \in BOOLEAN /\ at \in Places /\ opens \in 0..MaxOpens
    /\ \A i \in 1..Len(todo) : todo[i] \in [f : Frames, o : Objects]
    /\ fault \in Faults

Init ==
    /\ alive = {} /\ dead = {}
    /\ parent = [o \in Objects |-> None]
    /\ kids = [o \in Objects |-> <<>>]
    /\ queues = <<>>
    /\ cell = [c \in Cells |-> Free] /\ evtq = <<>>
    /\ acts = [o \in Objects |-> <<>>]
    /\ flushing = FALSE /\ linking = 0
    /\ hw = FALSE /\ todo = <<>> /\ at = "init" /\ opens = 0
    /\ fault = None

(* Freed memory is used, or the process aborts: the model stops. *)
Broken(what) == fault' = what /\ UNCHANGED <<tree, events, life, todo>>

Frame(f, o) == [f |-> f, o |-> o]
Running(f)  == todo # <<>> /\ Head(todo).f = f
Idle(p)     == todo = <<>> /\ at = p

-----------------------------------------------------------------------------
(* wdf_create_obj: a new head of the parent's child list. *)
wdf_create_obj(o, p) ==
    /\ alive' = alive \cup {o}
    /\ parent' = [parent EXCEPT ![o] = p]
    /\ kids' = [x \in Objects |-> CASE x = o -> <<>>
                                    [] x = p -> <<o>> \o kids[p]
                                    [] OTHER -> kids[x]]
    /\ dead' = dead \ {o}

(* wdf_evtqueue_enqueue, first half: the action is published in the queue.  *)
Publish(c, o, fn) ==
    /\ cell' = [cell EXCEPT ![c] = [obj |-> o, fn |-> fn]]
    /\ evtq' = <<c>> \o evtq

FreeCells == {c \in Cells : cell[c] = Free}
Cell      == CHOOSE c \in FreeCells : \A d \in FreeCells : c <= d

(* Both halves, by the main thread, which alone sets up the device. *)
EnqueueByMain(o, fn) ==
    /\ FreeCells # {}
    /\ Publish(Cell, o, fn)
    /\ acts' = [acts EXCEPT ![o] = <<Cell>> \o @]

-----------------------------------------------------------------------------
(* tudor_init loads the two DLLs and calls their DllMain; if one fails, the *)
(* process exits.                                                           *)
tudor_init ==
    /\ Idle("init")
    /\ at' \in {"entry", "exit"}
    /\ UNCHANGED <<tree, events, hw, opens, todo, fault>>

(* Then FxDriverEntryUm of the driver half (external), which creates the    *)
(* driver, or fails before or after it did ...                              *)
WdfDriverCreate ==
    /\ Idle("entry")
    /\ \/ wdf_create_obj("driver", None) /\ at' \in {"query", "exit"}
       \/ at' = "exit" /\ UNCHANGED <<alive, parent, kids, dead>>
    /\ UNCHANGED <<queues, events, hw, opens, todo, fault>>

(* ... and the adapters' interfaces are queried; the process goes on        *)
(* without the storage adapter, not without the other two.                  *)
QueryInterfaces ==
    /\ Idle("query")
    /\ at' \in {"closed", "exit"}
    /\ UNCHANGED <<tree, events, hw, opens, todo, fault>>

(* tudor_open: winwdf_add_device calls EvtDriverDeviceAdd (external), which *)
(* creates the device and its queues, or fails.                             *)
WdfDeviceCreate ==
    /\ Idle("closed") /\ opens < MaxOpens
    /\ wdf_create_obj("device", "driver")
    /\ queues' = <<>>
    /\ EnqueueByMain("device", "call_cbs")
    /\ at' = "adding"
    /\ opens' = opens + 1
    /\ UNCHANGED <<flushing, linking, hw, todo, fault>>

wdf_add_device_queue(q)    == queues' = <<q>> \o queues
wdf_remove_device_queue(q) == queues' = RemoveFirst(queues, q)

(* A queue is a child of the driver, and in its device's list of queues. *)
WdfIoQueueCreate(q) ==
    /\ Idle("adding") /\ q \notin alive
    /\ wdf_create_obj(q, "driver")
    /\ wdf_add_device_queue(q)
    /\ UNCHANGED <<events, life, todo, fault>>

(* tudor_open failed before it had a pipeline: the process exits, unless it *)
(* was tudor_reopen of the command line tool, which goes on.                *)
OpenFailed == IF opens = 1 THEN "exit" ELSE "failed"

EvtDriverDeviceAdd ==
    /\ Idle("adding")
    /\ at' \in {"flush_open", OpenFailed}
    /\ UNCHANGED <<tree, events, hw, opens, todo, fault>>

(* winwdf_event_queue_flush holds the queue's mutex until the queue is      *)
(* empty; it takes each action off the queue and off its object's list.     *)
FlushBegins ==
    /\ at \in {"flush_open", "flush_close"} /\ todo = <<>> /\ ~flushing
    /\ flushing' = TRUE
    /\ UNCHANGED <<tree, cell, evtq, acts, linking, life, todo, fault>>

(* act->obj_next: what follows c on its object's list. *)
After(chain, c) == SubSeq(chain, 1 + CHOOSE i \in 1..Len(chain) : chain[i] = c, Len(chain))

(* The attachment callbacks of the driver half (external); an error aborts. *)
device_call_cbs == \/ hw' = TRUE /\ fault' = fault
                   \/ hw' = hw /\ fault' = "abort"

(* Mutant: an orphaned action is skipped and left at the head. *)
mut_FlushTakes ==
    /\ flushing /\ todo = <<>> /\ evtq # <<>>
    /\ LET c == Head(evtq)
           o == cell[c].obj
       IN IF o # None /\ linking = c THEN Broken(Race)
          ELSE /\ o # None
               /\ evtq' = Tail(evtq)
               /\ cell' = [cell EXCEPT ![c] = Free]
               /\ acts' = [acts EXCEPT ![o] = After(@, c)]
               /\ todo' = IF cell[c].fn = "destroy" THEN <<Frame("destroy", o)>> ELSE <<>>
               /\ hw' = (hw \/ cell[c].fn = "call_cbs")
               /\ UNCHANGED <<tree, flushing, linking, at, opens, fault>>

FlushTakes ==
    /\ flushing /\ todo = <<>> /\ evtq # <<>>
    /\ LET c == Head(evtq)
           o == cell[c].obj
       IN IF o # None /\ linking = c THEN Broken(Race)
          ELSE IF o # None /\ o \notin alive THEN Broken("freed")
          ELSE /\ evtq' = Tail(evtq)
               /\ cell' = [cell EXCEPT ![c] = Free]
               /\ acts' = IF o = None THEN acts ELSE [acts EXCEPT ![o] = After(@, c)]
               /\ todo' = IF cell[c].fn = "destroy" /\ o # None THEN <<Frame("destroy", o)>> ELSE <<>>
               /\ IF o # None /\ cell[c].fn = "call_cbs" THEN device_call_cbs ELSE UNCHANGED <<hw, fault>>
               /\ UNCHANGED <<tree, flushing, linking, at, opens>>

FlushEnds ==
    /\ flushing /\ todo = <<>> /\ evtq = <<>>
    /\ flushing' = FALSE
    /\ at' = IF at = "flush_open" THEN "create" ELSE "closed"
    /\ UNCHANGED <<tree, cell, evtq, acts, linking, hw, opens, todo, fault>>

(* winwdf_open_device: the file, and its create request, which the driver   *)
(* half answers.  The request is destroyed here, the file stays.            *)
winwdf_open_device ==
    /\ Idle("create")
    /\ IF "file" \notin alive
         THEN /\ wdf_create_obj("file", "device")
              /\ UNCHANGED <<at, todo>>
         ELSE /\ wdf_create_obj("create", "file")
              /\ at' \in {"pipeline", OpenFailed}
              /\ todo' = <<Frame("destroy", "create")>>
    /\ UNCHANGED <<queues, events, hw, opens, fault>>

(* The rest of tudor_open: the adapters' Attach ... QueryStatus.  A reopened*)
(* device is closed later whether they failed or not.                       *)
OpenPipeline ==
    /\ Idle("pipeline")
    /\ \/ at' = "open"
       \/ opens = 1 /\ at' = "exit"
    /\ UNCHANGED <<tree, events, hw, opens, todo, fault>>

(* tudor_close.  If an adapter fails the WDF objects are left as they are;  *)
(* the callers go on to tudor_shutdown.                                     *)
winwdf_close_file ==
    /\ Idle("open")
    /\ \/ at' = "file_gone" /\ todo' = <<Frame("destroy", "file")>>
       \/ at' = "unload" /\ todo' = <<Frame("destroy", "driver")>>
    /\ UNCHANGED <<tree, events, hw, opens, fault>>

winwdf_remove_device ==
    /\ Idle("file_gone")
    /\ at' = "device_gone" /\ todo' = <<Frame("destroy", "device")>>
    /\ UNCHANGED <<tree, events, hw, opens, fault>>

DeviceRemoved ==
    /\ Idle("device_gone")
    /\ at' = "flush_close"
    /\ UNCHANGED <<tree, events, hw, opens, todo, fault>>

winwdf_unload_driver ==
    /\ Idle("closed")
    /\ at' = "unload" /\ todo' = <<Frame("destroy", "driver")>>
    /\ UNCHANGED <<tree, events, hw, opens, fault>>

DriverUnloaded ==
    /\ Idle("unload")
    /\ at' = "gone"
    /\ UNCHANGED <<tree, events, hw, opens, todo, fault>>

(* tudor_close after a reopen that failed early uses the pipeline that the  *)
(* first tudor_close freed (cli.c:110, tudor/device.c:189).                 *)
CloseFailedReopen == Idle("failed") /\ Broken("reopen")

-----------------------------------------------------------------------------
(* winwdf_destroy_object, and the first part of each destructor: what the   *)
(* object's own type does before wdf_cleanup_obj.                           *)
Cleanup(o) == <<Frame("children", o), Frame("unlink", o), Frame("contexts", o)>>

(* Mutant: the driver half leaves D0 before its queues are stopped. *)
mut_Destructor(o) ==
    IF o = "device" THEN <<Frame("removal", o), Frame("queues", o)>> \o Cleanup(o) ELSE Cleanup(o)

Destructor(o) ==
    IF o = "device" THEN <<Frame("queues", o), Frame("removal", o)>> \o Cleanup(o) ELSE Cleanup(o)

(* The device that a queue or a file points to. *)
UsesDevice(o) == o \in Queues \cup {"file"}

(* wdf_remove_device_queue frees the node of the queue and then goes on with *)
(* the `next` of that node (device.c:233-241).  What it reads there is not   *)
(* defined: it may be what was there, or not.                                *)

winwdf_destroy_object ==
    /\ Running("destroy")
    /\ LET o == Head(todo).o
       IN /\ o = "driver" => linking = 0
          /\ IF o \notin alive \/ (UsesDevice(o) /\ "device" \notin alive) THEN Broken("freed")
             ELSE \/ Contains(queues, o) /\ Broken("queue_node")
                  \/ /\ wdf_remove_device_queue(o)
                     /\ todo' = Destructor(o) \o Tail(todo)
                     /\ UNCHANGED <<alive, parent, kids, dead, events, life, fault>>

(* device_destr destroys the device's queues ... *)
DestroyQueues ==
    /\ Running("queues")
    /\ IF queues = <<>> THEN todo' = Tail(todo) /\ UNCHANGED queues
       ELSE /\ queues' = Tail(queues)
            /\ todo' = <<Frame("destroy", Head(queues))>> \o todo
    /\ UNCHANGED <<alive, parent, kids, dead, events, life, fault>>

(* ... and tells the driver half (external), whose error aborts.  The one   *)
(* callback before the queues go (device.c:147) is left out: it leaves the  *)
(* device in D0, and its error aborts as well.                              *)
RemovalCallbacks ==
    /\ Running("removal")
    /\ hw' = FALSE
    /\ fault' \in {None, "abort"}
    /\ todo' = Tail(todo)
    /\ UNCHANGED <<tree, events, at, opens>>

(* wdf_destroy_obj_list: each child is taken off the dead list first. *)
DestroyChildren ==
    /\ Running("children")
    /\ LET o == Head(todo).o
       IN /\ dead' = dead \cup {o}
          /\ IF kids[o] = <<>> THEN todo' = Tail(todo) /\ UNCHANGED <<parent, kids>>
             ELSE /\ kids' = [kids EXCEPT ![o] = Tail(@)]
                  /\ parent' = [parent EXCEPT ![Head(kids[o])] = None]
                  /\ todo' = <<Frame("destroy", Head(kids[o]))>> \o todo
    /\ UNCHANGED <<alive, queues, events, life, fault>>

(* The object's queued actions are orphaned. *)
wdf_evtqueue_clear_obj(o) ==
    /\ cell' = [c \in Cells |-> IF Contains(acts[o], c) THEN [cell[c] EXCEPT !.obj = None] ELSE cell[c]]
    /\ acts' = [acts EXCEPT ![o] = <<>>]

(* Mutant: the object stays on its parent's list. *)
mut_Unlink ==
    /\ Running("unlink")
    /\ LET o == Head(todo).o
       IN /\ parent' = [parent EXCEPT ![o] = None]
          /\ wdf_evtqueue_clear_obj(o)
          /\ todo' = Tail(todo)
          /\ UNCHANGED <<alive, kids, dead, queues, evtq, flushing, linking, life, fault>>

(* wdf_cleanup_obj takes the object off its parent's list. *)
Unlink ==
    /\ Running("unlink")
    /\ LET o == Head(todo).o
           p == parent[o]
       IN IF p # None /\ p \notin alive THEN Broken("freed")
          ELSE /\ kids' = IF p # None /\ p \notin dead
                           THEN [kids EXCEPT ![p] = RemoveFirst(@, o)] ELSE kids
               /\ parent' = [parent EXCEPT ![o] = None]
               /\ wdf_evtqueue_clear_obj(o)
               /\ todo' = Tail(todo)
               /\ UNCHANGED <<alive, dead, queues, evtq, flushing, linking, life, fault>>

NotDeleted(x) == x \in alive /\ \A c \in Cells : cell[c].obj # x

(* EvtCleanupCallback (external) of the device may delete another object of *)
(* the driver half; then the object is freed.                               *)
FreeObject ==
    /\ Running("contexts")
    /\ LET o == Head(todo).o
       IN /\ \/ UNCHANGED <<cell, evtq, acts>>
             \/ /\ o = "device"
                /\ \E x \in Extras : NotDeleted(x) /\ EnqueueByMain(x, "destroy")
          /\ alive' = alive \ {o}
    /\ todo' = Tail(todo)
    /\ UNCHANGED <<parent, kids, dead, queues, flushing, linking, life, fault>>

-----------------------------------------------------------------------------
(* The driver half's thread, until EvtDriverUnload stops it.                *)
DllRuns == at \notin {"init", "entry", "unload", "gone", "exit"} /\ linking = 0

(* WdfRequestCreate, WdfMemoryCreate, WdfStringCreate, WdfRegistryOpenKey:  *)
(* the parent is always the driver.                                         *)
CreateObject(x) ==
    /\ DllRuns /\ x \notin alive
    /\ IF "driver" \in dead THEN Broken("dead_parent")
       ELSE /\ wdf_create_obj(x, "driver")
            /\ UNCHANGED <<queues, events, life, todo, fault>>

(* WdfObjectDelete enqueues the destruction, a second time too if it is     *)
(* called twice.  The queue's mutex is released before the action is linked *)
(* to its object.                                                           *)
WdfObjectDelete(x) ==
    /\ DllRuns /\ x \in alive /\ ~flushing /\ FreeCells # {}
    /\ Publish(Cell, x, "destroy")
    /\ linking' = Cell
    /\ UNCHANGED <<tree, acts, flushing, life, todo, fault>>

LinkAction ==
    /\ linking # 0
    /\ LET o == cell[linking].obj
       IN IF o \notin alive THEN Broken(Race)
          ELSE /\ acts' = [acts EXCEPT ![o] = <<linking>> \o @]
               /\ linking' = 0
               /\ UNCHANGED <<tree, cell, evtq, flushing, life, todo, fault>>

-----------------------------------------------------------------------------
Destroying ==
    winwdf_destroy_object \/ DestroyQueues \/ RemovalCallbacks \/ DestroyChildren \/ Unlink \/ FreeObject

Flushing == FlushBegins \/ FlushTakes \/ FlushEnds

Closing == winwdf_remove_device \/ DeviceRemoved \/ DriverUnloaded

Next ==
    /\ fault = None
    /\ \/ tudor_init \/ WdfDriverCreate \/ QueryInterfaces
       \/ WdfDeviceCreate \/ EvtDriverDeviceAdd
       \/ \E q \in Queues : WdfIoQueueCreate(q)
       \/ winwdf_open_device \/ OpenPipeline \/ winwdf_close_file
       \/ winwdf_unload_driver \/ CloseFailedReopen
       \/ Closing \/ Flushing \/ Destroying
       \/ \E x \in Extras : CreateObject(x) \/ WdfObjectDelete(x)
       \/ LinkAction

(* The main thread goes on with what it has begun; the DLL's thread leaves  *)
(* wdf_evtqueue_enqueue.                                                    *)
Fairness ==
    /\ WF_vars(fault = None /\ (Closing \/ Flushing \/ Destroying))
    /\ WF_vars(fault = None /\ LinkAction)

Spec == Init /\ [][Next]_vars /\ Fairness

-----------------------------------------------------------------------------
(* The code uses freed memory in three situations, which end the behaviour: *)
(* a queue's node, when the driver is unloaded while its device still       *)
(* stands, never in an orderly close (device.c:233-241); the pipeline, in   *)
(* the close after a failed reopen (cli.c:110); an object whose action the  *)
(* DLL's thread has queued and is still linking to it (evtqueue.c:63).      *)
KnownUses ==
    /\ fault = "queue_node" => at = "unload"
    /\ fault = "reopen" => at = "failed"
    /\ fault = Race => linking # 0

(* In no other situation does a destructor, action or list meet an object   *)
(* that is freed, in whatever order file, device, queues and driver go      *)
(* (object.c:88-120, device.c:140-180), and nothing is created below a dead *)
(* parent.                                                                  *)
NoUseAfterFree == fault \notin {"freed", "dead_parent"} /\ KnownUses

(* An object that has a parent list is on it exactly once, and its parent   *)
(* is allocated; a list has only allocated objects (object.c:45-56, 69-76). *)
TreeSound ==
    \A o \in Objects :
        /\ \A i, j \in 1..Len(kids[o]) : kids[o][i] = kids[o][j] => i = j
        /\ o \in alive => \A i \in 1..Len(kids[o]) : kids[o][i] \in alive /\ parent[kids[o][i]] = o
        /\ (o \in alive /\ parent[o] # None) => parent[o] \in alive /\ Contains(kids[parent[o]], o)

(* A queued action is orphaned before its object is freed, so the next      *)
(* flush never calls it on freed memory (evtqueue.c:27, 69-76): each action *)
(* of the queue is on the list of a live object, or is being linked to it.  *)
ActionsSound ==
    \A i \in 1..Len(evtq) :
        LET o == cell[evtq[i]].obj
        IN o # None => o \in alive /\ (Contains(acts[o], evtq[i]) \/ linking = evtq[i])

(* After the driver is unloaded nothing of it is left (driver.c:48-57).     *)
NothingLeft == at = "gone" => alive = {}

(* The tree, the event queue and the objects agree in every state, in the   *)
(* middle of any destructor; nothing freed is used outside KnownUses, and   *)
(* nothing is left.                                                         *)
ObjectsSound == TypeOK /\ NoUseAfterFree /\ TreeSound /\ ActionsSound /\ NothingLeft

(* The device leaves D0 only when its queues are gone (device.c:150-166),   *)
(* in its own destructor and in that of the driver.                         *)
QueuesStopFirst == [][hw /\ ~hw' => queues = <<>> /\ alive \cap Queues = {}]_vars

(* Closing the device and unloading the driver end, also with objects whose *)
(* deletion is still queued.                                                *)
TeardownEnds == at \in {"file_gone", "unload"} ~> (at \in {"closed", "gone"} \/ fault # None)
=============================================================================
