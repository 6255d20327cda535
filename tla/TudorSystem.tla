---------------------------- MODULE TudorSystem ----------------------------
(***************************************************************************)
(* fprintd with the libfprint module, one tudor host process on the other  *)
(* end of the socket pair, and the launcher that starts, watches and kills *)
(* the host.                                                               *)
(***************************************************************************)
EXTENDS TudorHost, TudorPlugin

vars == <<ipcVars, hostVars, pluginVars>>

Init == HostInit /\ PluginInit /\ toHost = <<>> /\ toPlugin = <<>> /\ proc = "none"

(* The launcher's child watch, taken by its promise. *)
LauncherNotices ==
    /\ proc = "dead"
    /\ Launcher!Die("hidraw")
    /\ UNCHANGED <<ipcVars, hostVars, heard, libVars, actionVars, devVars, closeVars, sleepVars,
                   guids, cancels, sleeps, abort>>

Next == \/ PluginNext /\ UNCHANGED hostVars
        \/ (HostBoot \/ HostSteps) /\ UNCHANGED pluginVars
        \/ "crash" \in Events /\ HostCrash /\ UNCHANGED pluginVars
        \/ LauncherNotices

Spec == Init /\ [][Next]_vars

FairSpec == Spec /\ HostFairness /\ PluginFairness /\ WF_vars(LauncherNotices)
-----------------------------------------------------------------------------
Slot == slot["hidraw"]

TypeOK == HostTypeOK /\ PluginTypeOK

(* The module and the launcher agree on the one host of the sensor: the      *)
(* module has a host id exactly while the launcher has that host in its      *)
(* table, alive or dead.                                                     *)
HoldsItsHost == /\ hasId <=> Slot.st # "free"
                /\ hasId => Slot.id = hostId

(* A host is stranded in the launcher, where nobody reaches or kills it any  *)
(* more, in two ways only: fprintd goes down over an assertion, or an open   *)
(* that started the host cannot take its descriptor from the reply           *)
(* (ipc.c:274-276).  No other failed open, no death, timeout, close, exit or *)
(* suspend strands one (open.c:11).                                          *)
StrandsNoHost ==
    [][HoldsItsHost => \/ HoldsItsHost'
                       \/ abort # "none"
                       \/ issued' # issued /\ ~hasId' /\ "no_fd" \in Events]_vars

(* The module never takes a host for its own that the launcher does not hold *)
(* for it.                                                                   *)
KnowsItsHost == hasId => Slot.st # "free" /\ Slot.id = hostId

(* While a host may be used, the machine does not suspend under it: there is *)
(* an inhibitor, or a suspend that is under way will close the device        *)
(* (suspend.c:97-99, open.c:275).                                            *)
InhibitsSleep == HostUsable => inhib \/ sus.waiting \/ closeTask # "none"

(* Between two actions the connection is quiet: no message waits on either   *)
(* side and the host is not capturing, so the first message the next action  *)
(* receives is the answer to its own request (ipc.c:198, verify.c:34).       *)
QuietBetweenActions ==
    action = "none" /\ HostUsable /\ closeTask = "none" /\ proc = "running"
        => toHost = <<>> /\ toPlugin = <<>> /\ ~InAction /\ hpc = "loop"

(* A print is reported as enrolled only when its own template is on the      *)
(* sensor: a RESP_ENROLL is never credited to an enrollment it does not      *)
(* answer (enroll.c:94-101, handler.c:90-167).                               *)
EnrolledIsStored == [][prints' \ prints \subseteq sensor]_vars

(* The host never aborts over a message it did not expect (handler.c:42-47,  *)
(* 454-457; main.c:26-30), but for the SHUTDOWN of an fprintd that exits in  *)
(* the middle of an action.                                                  *)
ProtocolKept ==
    proc = "dead" /\ fault \in {"type", "unexpected", "in_action", "enrolling"} => exiting

(* When the host dies, the action that waits for it ends (open.c:65-69),     *)
(* whatever it was doing: opening, adding records, waiting for a finger.     *)
(* A deletion does not: its error path completes the clearing of the storage *)
(* instead, which is not under way (data.c:242).                             *)
DeathEndsAction ==
    proc = "dead" /\ hasId /\ action \notin {"none", "delete"} ~> action = "none"

(* A cancel that was sent to the host ends the action.                       *)
SentCancelEnds == cancelHandler /\ hasCanceled ~> ~cancelHandler

(* The exit of fprintd ends, by the host's death or by the timeout, if no    *)
(* open is being initialised when the device is closed: whoever disposes of  *)
(* the device returns the task the exit waits for (device.c:43,              *)
(* open.c:72-75, 330-334).  An open that fails while it is being initialised *)
(* drops that task (open.c:38, 184-188), and the exit waits for ever.        *)
CloseEnds ==
    exiting /\ (cbCalled \/ closeTask = "exit") /\ recv.on # "init"
        ~> ~exiting \/ abort # "none"
=============================================================================
