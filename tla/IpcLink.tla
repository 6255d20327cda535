------------------------------ MODULE IpcLink ------------------------------
(***************************************************************************)
(* What a tudor host process and the libfprint module share: the process   *)
(* itself and the SOCK_DGRAM socket pair the launcher created between them *)
(* (tudor-host-launcher/src/launch.c:150).  The kernel neither loses nor   *)
(* reorders messages of the pair; a sender waits while QueueLen messages   *)
(* are unread, and nobody is told when the other side closes its end.      *)
(***************************************************************************)
EXTENDS Naturals, Sequences

CONSTANTS Records,   \* enrolled prints: a GUID and a finger each
          QueueLen   \* messages the kernel queues per direction

ASSUME LinkAssumption == QueueLen \in Nat \ {0}

VARIABLES toHost,    \* messages the host has not read
          toPlugin,  \* messages the libfprint module has not read
          proc       \* the host process: "none", "spawned" (before main), "running" or "dead"

ipcVars == <<toHost, toPlugin, proc>>

(* A message: its type (enum ipc_msg_type without the IPC_MSG_ prefix) and *)
(* the part of its contents that decides what the receiver does.           *)
Msg(type, arg) == [type |-> type, arg |-> arg]
Plain(type)    == Msg(type, "none")
ACK            == Plain("ACK")

PlainRequests  == {"INIT", "PROBE", "SHUTDOWN", "CANCEL", "CLEAR_RECORDS", "IDENTIFY",
                   "RESP_LOAD_PDATA", "ACK"}
RecordRequests == {"ADD_RECORD", "DEL_RECORD", "ENROLL", "VERIFY"}
Requests == {Plain(t) : t \in PlainRequests} \cup {Msg(t, r) : t \in RecordRequests, r \in Records}

PlainAnswers == {"READY", "RESP_PROBE", "ACK", "LOAD_PDATA", "STORE_PDATA"}
Answers == {Plain(t) : t \in PlainAnswers}
           \cup {Msg("RESP_ENROLL", a) : a \in {"retry", "more", "done", "duplicate"}}
           \cup {Msg("RESP_VERIFY", a) : a \in {"retry", "match", "no_match"}}
           \cup {Msg("RESP_IDENTIFY", a) : a \in {"retry", "unknown", "no_match"} \cup Records}

(* sendmsg on the host's end of the pair. *)
HostSends(m) == Len(toPlugin) < QueueLen /\ toPlugin' = Append(toPlugin, m)

(* sendmsg on the module's end. *)
PluginSends(m) == Len(toHost) < QueueLen /\ toHost' = Append(toHost, m)

LinkTypeOK ==
    /\ toHost \in Seq(Requests)
    /\ toPlugin \in Seq(Answers)
    /\ proc \in {"none", "spawned", "running", "dead"}
=============================================================================
