--------------------------- MODULE HostAnyClient ---------------------------
(***************************************************************************)
(* A tudor host process and a client that sends it any messages in any     *)
(* order: what TudorHost guarantees without relying on the libfprint       *)
(* module to follow the protocol.                                          *)
(***************************************************************************)
EXTENDS TudorHost

vars == <<ipcVars, hostVars>>

Init ==
    /\ HostInit
    /\ toHost = <<>> /\ toPlugin = <<>>
    /\ proc = "spawned"

ClientSends(m) ==
    /\ proc = "running"
    /\ PluginSends(m)
    /\ UNCHANGED <<toPlugin, proc, hostVars>>

ClientReads ==
    /\ toPlugin # <<>>
    /\ toPlugin' = Tail(toPlugin)
    /\ UNCHANGED <<toHost, proc, hostVars>>

(* The launcher starts another host for the same sensor. *)
Relaunch ==
    /\ proc = "dead"
    /\ proc' = "spawned"
    /\ toHost' = <<>> /\ toPlugin' = <<>>
    /\ UNCHANGED hostVars

Next == HostNext \/ ClientReads \/ Relaunch \/ \E m \in Requests : ClientSends(m)

Spec == Init /\ [][Next]_vars
FairSpec == Spec /\ HostFairness /\ WF_vars(ClientReads)
-----------------------------------------------------------------------------
Running == proc = "running"

(* The driver is enrolling exactly while an enroll capture is under way:     *)
(* through every order of captures, cancels, retries, duplicates and commits *)
(* no enrollment is left open behind and none is closed under a capture      *)
(* (device.c:304, 374, 412, 465, 615 refuse to work otherwise).              *)
EnrollingInAction ==
    Running => (enrolling <=> (InAction /\ actionKind = "enroll"))

(* Even when the DLL fails to discard an enrollment or a capture ends before *)
(* its callback is set, an enroll capture never runs without an open         *)
(* enrollment (device.c:374 asserts it).                                     *)
CapturesWhileEnrolling ==
    Running /\ InAction /\ actionKind = "enroll" => enrolling

(* A shutdown is orderly: the handler loop is left only with no capture and  *)
(* no enrollment in progress, so tudor_close tears down an idle pipeline.    *)
ClosesIdle == Running /\ hpc = "close" => ~InAction /\ ~enrolling

(* The client is told that a print is enrolled only while its template is on *)
(* the sensor: between the commit (handler.c:93) and its answer (handler.c:  *)
(* 166) no request of the client, whatever it sends, deletes the template or *)
(* begins another enrollment.  The converse does not hold: the host may fail *)
(* between the two (handler.c:133-142) and leave a template nobody knows of. *)
DoneIsStored ==
    [][ toPlugin' = Append(toPlugin, Msg("RESP_ENROLL", "done")) => enrollRec \in sensor ]_vars

(* A cancel that reaches the host during an action ends the action, even one *)
(* that restarts its captures for ever (handler.c:311-314, 60-63).           *)
CancelEndsAction ==
    Running /\ InAction /\ cancelled ~> ~(Running /\ InAction)
=============================================================================
