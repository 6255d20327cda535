---------------------------- MODULE HostLauncher ----------------------------
(***************************************************************************)
(* The host launcher service (tudor-host-launcher/src/launch.c).           *)
(*                                                                         *)
(* The launcher is a root D-Bus service with a single GLib main loop: each *)
(* method call and each child watch callback runs to completion, so it is  *)
(* one action here.  Around it live the host processes it has spawned and  *)
(* the kernel's process table, which hands out pids, turns a dead child    *)
(* into a zombie and recycles its pid once the child has been reaped.      *)
(*                                                                         *)
(* Not modelled: argument format errors (they reply and change nothing),   *)
(* the 64 byte truncation of hidraw_path (a /dev/hidrawN path is shorter). *)
(***************************************************************************)
EXTENDS Naturals, Sequences

CONSTANTS Paths,     \* the hidraw device paths clients ask for
          Pids,      \* the process ids the kernel hands out
          MaxId,     \* bound on next_host_id: how many hosts are ever launched
          PidReuse   \* may a new host get a pid that launch.c still remembers?

ASSUME LauncherAssumption == /\ MaxId \in Nat \ {0}
                             /\ PidReuse \in BOOLEAN

VARIABLES hosts,       \* hosts_array: the sequence of host_entry records
          nextHostId,  \* next_host_id
          owner,       \* process table: host id whose process (running or zombie) has the pid, 0 if free
          running,     \* pids of the host processes that run
          reaped,      \* children already waited for, whose host_watch_cb is still to be dispatched
          signals,     \* ids of the HostDied signals emitted, in order
          reply,       \* the last D-Bus reply: result and host id (0 where there is none)
          aborted      \* a g_assert failed and took the launcher down

vars == <<hosts, nextHostId, owner, running, reaped, signals, reply, aborted>>

Ids == 1..MaxId

(* struct host_entry; pipe_fd is owned by the entry and has no life of its own. *)
host_entry == [alive : BOOLEAN, orphan : BOOLEAN, id : Ids, pid : Pids, path : Paths]

Results == {"none", "ok", "failed", "in_use", "unknown", "already_orphan"}

Reply(res, id) == reply' = [res |-> res, id |-> id]

(* g_array_remove_index_fast: the last element takes the place of the removed one. *)
RemoveFast(s, i) == [j \in 1..(Len(s) - 1) |-> IF j = i THEN s[Len(s)] ELSE s[j]]

(* mutant: the host is forgotten without being killed *)
mut_free_host(e) == {}

(* free_host: the process group killpg(SIGKILL) is sent to, if any. *)
free_host(e) == IF e.alive THEN {e.pid} ELSE {}

HasId(i, id)     == hosts[i].id = id
KnownId(id)      == \E i \in DOMAIN hosts : HasId(i, id)
HasPath(i, path) == hosts[i].path = path

(* The entry the scan of launch_host_call stops at: the first with this path. *)
FirstWithPath(i, path) ==
    /\ i \in DOMAIN hosts
    /\ HasPath(i, path)
    /\ \A j \in 1..(i - 1) : ~HasPath(j, path)

(* Whether the kernel may give pid to a new child.  Without PidReuse the   *)
(* pid space is taken to be so large that a pid the launcher still         *)
(* remembers does not come round again.                                    *)
PidAvailable(pid) ==
    /\ owner[pid] = 0
    /\ PidReuse \/ /\ \A i \in DOMAIN hosts : hosts[i].pid # pid
                   /\ \A w \in reaped : w.pid # pid

Init ==
    /\ hosts = <<>>
    /\ nextHostId = 1
    /\ owner = [pid \in Pids |-> 0]
    /\ running = {}
    /\ reaped = {}
    /\ signals = <<>>
    /\ reply = [res |-> "none", id |-> 0]
    /\ aborted = FALSE

-----------------------------------------------------------------------------
(* LaunchHost.  hs and run are the table and the running processes left by *)
(* the conflict scan.                                                      *)

(* socketpair or g_spawn_async_with_fds fails; what the scan removed stays removed. *)
SpawnFails(hs, run) ==
    /\ hosts' = hs
    /\ running' = run
    /\ Reply("failed", 0)
    /\ UNCHANGED <<nextHostId, owner>>

(* mutant: the id is incremented before it is used *)
mut_Spawn(path, hs, run) ==
    /\ nextHostId <= MaxId
    /\ \E pid \in Pids :
          /\ PidAvailable(pid)
          /\ hosts' = Append(hs, [alive |-> TRUE, orphan |-> FALSE, id |-> nextHostId + 1,
                                  pid |-> pid, path |-> path])
          /\ owner' = [owner EXCEPT ![pid] = nextHostId + 1]
          /\ running' = run \cup {pid}
    /\ nextHostId' = nextHostId + 1
    /\ Reply("ok", nextHostId + 1)

Spawn(path, hs, run) ==
    /\ nextHostId <= MaxId
    /\ \E pid \in Pids :
          /\ PidAvailable(pid)
          /\ hosts' = Append(hs, [alive |-> TRUE, orphan |-> FALSE, id |-> nextHostId,
                                  pid |-> pid, path |-> path])
          /\ owner' = [owner EXCEPT ![pid] = nextHostId]
          /\ running' = run \cup {pid}
    /\ nextHostId' = nextHostId + 1
    /\ Reply("ok", nextHostId)

LaunchRefused(path, i) ==
    /\ FirstWithPath(i, path)
    /\ ~hosts[i].orphan
    /\ Reply("in_use", 0)
    /\ UNCHANGED <<hosts, nextHostId, owner, running>>

LaunchOverOrphan(path, i) ==
    /\ FirstWithPath(i, path)
    /\ hosts[i].orphan
    /\ LET hs  == RemoveFast(hosts, i)
           run == running \ free_host(hosts[i])
       IN  SpawnFails(hs, run) \/ Spawn(path, hs, run)

LaunchNew(path) ==
    /\ \A i \in DOMAIN hosts : ~HasPath(i, path)
    /\ SpawnFails(hosts, running) \/ Spawn(path, hosts, running)

(* mutant: the path is not compared with the table *)
mut_launch_host_call(path) ==
    /\ SpawnFails(hosts, running) \/ Spawn(path, hosts, running)
    /\ UNCHANGED <<reaped, signals, aborted>>

launch_host_call(path) ==
    /\ \/ \E i \in DOMAIN hosts : LaunchRefused(path, i) \/ LaunchOverOrphan(path, i)
       \/ LaunchNew(path)
    /\ UNCHANGED <<reaped, signals, aborted>>

-----------------------------------------------------------------------------
(* KillHost *)

(* mutant: the pid is read after the last entry was moved into the slot *)
mut_kill_host_call(id) ==
    /\ \/ \E i \in DOMAIN hosts :
             /\ HasId(i, id)
             /\ running' = running \ free_host(hosts[Len(hosts)])
             /\ hosts' = RemoveFast(hosts, i)
             /\ Reply("ok", id)
       \/ ~KnownId(id) /\ Reply("unknown", id) /\ UNCHANGED <<hosts, running>>
    /\ UNCHANGED <<nextHostId, owner, reaped, signals, aborted>>

kill_host_call(id) ==
    /\ \/ \E i \in DOMAIN hosts :
             /\ HasId(i, id)
             /\ running' = running \ free_host(hosts[i])
             /\ hosts' = RemoveFast(hosts, i)
             /\ Reply("ok", id)
       \/ ~KnownId(id) /\ Reply("unknown", id) /\ UNCHANGED <<hosts, running>>
    /\ UNCHANGED <<nextHostId, owner, reaped, signals, aborted>>

-----------------------------------------------------------------------------
(* mutant: the adopted host is handed out and stays an orphan *)
mut_AdoptAt(i, path) ==
    /\ hosts[i].orphan /\ HasPath(i, path)
    /\ Reply("ok", hosts[i].id)
    /\ UNCHANGED <<hosts, aborted>>

(* AdoptHost.  The scan stops at the first orphan with the path and asserts *)
(* that it is alive; the reply 0 means there is nothing to adopt.  After a  *)
(* failed assertion the launcher takes no further step, so what the action  *)
(* writes besides aborted no longer matters.                                *)
AdoptAt(i, path) ==
    /\ hosts[i].orphan /\ HasPath(i, path)
    /\ \A j \in 1..(i - 1) : ~(hosts[j].orphan /\ HasPath(j, path))
    /\ aborted' = ~hosts[i].alive
    /\ hosts' = [hosts EXCEPT ![i].orphan = FALSE]
    /\ Reply("ok", hosts[i].id)

AdoptNothing(path) ==
    /\ \A i \in DOMAIN hosts : ~(hosts[i].orphan /\ HasPath(i, path))
    /\ Reply("ok", 0)
    /\ UNCHANGED <<hosts, aborted>>

adopt_host_call(path) ==
    /\ (\E i \in DOMAIN hosts : AdoptAt(i, path)) \/ AdoptNothing(path)
    /\ UNCHANGED <<nextHostId, owner, running, reaped, signals>>

-----------------------------------------------------------------------------
(* OrphanHost *)
OrphanRefused(i, id) ==
    /\ hosts[i].orphan
    /\ aborted' = ~hosts[i].alive
    /\ Reply("already_orphan", id)
    /\ UNCHANGED <<hosts, running>>

(* mutant: a dead host is orphaned like a live one *)
mut_OrphanDead(i, id) ==
    /\ ~hosts[i].orphan /\ ~hosts[i].alive
    /\ hosts' = [hosts EXCEPT ![i].orphan = TRUE]
    /\ Reply("ok", id)
    /\ UNCHANGED <<running, aborted>>

OrphanDead(i, id) ==
    /\ ~hosts[i].orphan /\ ~hosts[i].alive
    /\ running' = running \ free_host(hosts[i])
    /\ hosts' = RemoveFast(hosts, i)
    /\ Reply("ok", id)
    /\ UNCHANGED aborted

OrphanLive(i, id) ==
    /\ ~hosts[i].orphan /\ hosts[i].alive
    /\ hosts' = [hosts EXCEPT ![i].orphan = TRUE]
    /\ Reply("ok", id)
    /\ UNCHANGED <<running, aborted>>

OrphanUnknown(id) ==
    /\ ~KnownId(id)
    /\ Reply("unknown", id)
    /\ UNCHANGED <<hosts, running, aborted>>

orphan_host_call(id) ==
    /\ \/ \E i \in DOMAIN hosts :
             /\ HasId(i, id)
             /\ OrphanRefused(i, id) \/ OrphanDead(i, id) \/ OrphanLive(i, id)
       \/ OrphanUnknown(id)
    /\ UNCHANGED <<nextHostId, owner, reaped, signals>>

-----------------------------------------------------------------------------
(* The host processes and the kernel. *)

(* A host process exits or crashes: it is a zombie until it is reaped. *)
HostDies(pid) ==
    /\ pid \in running
    /\ running' = running \ {pid}
    /\ UNCHANGED <<hosts, nextHostId, owner, reaped, signals, reply, aborted>>

(* GLib waits for the child: the kernel may recycle the pid from here on, *)
(* while host_watch_cb is dispatched later by the main loop.              *)
Reap(pid) ==
    /\ ~aborted
    /\ owner[pid] # 0 /\ pid \notin running
    /\ owner' = [owner EXCEPT ![pid] = 0]
    /\ reaped' = reaped \cup {[id |-> owner[pid], pid |-> pid]}
    /\ UNCHANGED <<hosts, nextHostId, running, signals, reply, aborted>>

(* host_watch_cb walks the table up to the entry with the id and asserts   *)
(* that an entry has the pid exactly if it has the id.                     *)
WatchAssertFails(w) ==
    \E i \in DOMAIN hosts :
       /\ \A j \in 1..(i - 1) : ~HasId(j, w.id)
       /\ HasId(i, w.id) # (hosts[i].pid = w.pid)

WatchOrphan(i) ==
    /\ hosts[i].orphan /\ hosts[i].alive
    /\ running' = running \ free_host(hosts[i])
    /\ hosts' = RemoveFast(hosts, i)
    /\ UNCHANGED <<signals, aborted>>

(* mutant: the death is signalled and the entry is left alive *)
mut_WatchHeld(i) ==
    /\ ~hosts[i].orphan /\ hosts[i].alive
    /\ signals' = Append(signals, hosts[i].id)
    /\ UNCHANGED <<hosts, running, aborted>>

(* mutant: the entry is marked dead and nobody is told *)
mut_WatchSilent(i) ==
    /\ ~hosts[i].orphan /\ hosts[i].alive
    /\ hosts' = [hosts EXCEPT ![i].alive = FALSE]
    /\ UNCHANGED <<signals, running, aborted>>

WatchHeld(i) ==
    /\ ~(hosts[i].orphan /\ hosts[i].alive)
    /\ signals' = IF hosts[i].alive THEN Append(signals, hosts[i].id) ELSE signals
    /\ aborted' = (hosts[i].orphan /\ ~hosts[i].alive)
    /\ hosts' = [hosts EXCEPT ![i].alive = FALSE]
    /\ UNCHANGED running

host_watch_cb(w) ==
    /\ w \in reaped
    /\ reaped' = reaped \ {w}
    /\ \/ WatchAssertFails(w) /\ aborted' = TRUE /\ UNCHANGED <<hosts, running, signals>>
       \/ /\ ~WatchAssertFails(w)
          /\ \/ \E i \in DOMAIN hosts :
                   HasId(i, w.id) /\ (WatchOrphan(i) \/ WatchHeld(i))
             \/ ~KnownId(w.id) /\ UNCHANGED <<hosts, running, signals, aborted>>
    /\ UNCHANGED <<nextHostId, owner, reply>>

-----------------------------------------------------------------------------
(* One iteration of the launcher's main loop: launch_method_call dispatches a *)
(* D-Bus call of some client, or a child watch fires.                         *)
launch_method_call ==
    \/ \E path \in Paths : launch_host_call(path) \/ adopt_host_call(path)
    \/ \E id \in Ids : kill_host_call(id) \/ orphan_host_call(id)

MainLoop == ~aborted /\ (launch_method_call \/ \E w \in reaped : host_watch_cb(w))

Next == \/ MainLoop
        \/ \E pid \in Pids : HostDies(pid) \/ Reap(pid)

(* SIGCHLD is delivered and the main loop dispatches its sources. *)
Fairness == /\ \A pid \in Pids : WF_vars(Reap(pid))
            /\ WF_vars(~aborted /\ \E w \in reaped : host_watch_cb(w))

Spec == Init /\ [][Next]_vars
FairSpec == Spec /\ Fairness
-----------------------------------------------------------------------------
TypeOK ==
    /\ hosts \in Seq(host_entry)
    /\ nextHostId \in 1..(MaxId + 1)
    /\ owner \in [Pids -> 0..MaxId]
    /\ running \subseteq Pids
    /\ reaped \subseteq [id : Ids, pid : Pids]
    /\ signals \in Seq(Ids)
    /\ reply \in [res : Results, id : 0..MaxId]
    /\ aborted \in BOOLEAN

(* At most one host process is ever registered for a hidraw device, whatever *)
(* order of LaunchHost, OrphanHost, AdoptHost and deaths led here: two hosts *)
(* would drive the same sensor (launch.c:132).                               *)
UniquePath ==
    \A i, j \in DOMAIN hosts : hosts[i].path = hosts[j].path => i = j

(* An orphan is always a live host: what AdoptHost, OrphanHost and the child *)
(* watch assert (launch.c:93, 264, 306).  It takes the death of a host       *)
(* before or after its client orphans it to break this.                      *)
OrphansAlive ==
    \A i \in DOMAIN hosts : hosts[i].orphan => hosts[i].alive

(* No host process escapes the launcher: each one that runs still has an     *)
(* entry, marked alive and carrying its pid, so KillHost can end it.         *)
NoLeakedHost ==
    \A pid \in running :
       \E i \in DOMAIN hosts : /\ hosts[i].alive
                               /\ hosts[i].pid = pid
                               /\ hosts[i].id = owner[pid]

(* HostDied is emitted exactly for the hosts that died while a client held   *)
(* them: a dead entry has been announced, and only once, and no announced    *)
(* host is listed as alive (launch.c:79-95).                                 *)
Announced == {signals[k] : k \in DOMAIN signals}
DeathAnnounced ==
    /\ \A i \in DOMAIN hosts : hosts[i].alive <=> hosts[i].id \notin Announced
    /\ \A k, l \in DOMAIN signals : signals[k] = signals[l] => k = l

(* None of the assertions of launch.c fails (lines 77, 93, 97, 264, 306). *)
AssertionsHold == ~aborted

(* A step of the launcher ends a host process only by taking that host's own *)
(* entry out of the table: killpg never hits the process group of another    *)
(* host.                                                                     *)
KillsOnlyItsHost ==
    [][ \A pid \in running \ running' :
           HostDies(pid) \/ \A i \in DOMAIN hosts' : hosts'[i].id # owner[pid] ]_vars

(* Every host death is noticed: an entry whose process is gone does not stay *)
(* marked alive, so the path of a dead orphan becomes free and a holder gets *)
(* its HostDied (launch.c:59, g_child_watch_add at 196).                     *)
ListedAlive(id) == \E i \in DOMAIN hosts : HasId(i, id) /\ hosts[i].alive
Running(id)     == \E pid \in running : owner[pid] = id
DeathNoticed ==
    \A id \in Ids : ListedAlive(id) /\ ~Running(id) ~> ~ListedAlive(id)

-----------------------------------------------------------------------------
(* What clients may rely on: one slot per device (module HostSlots). *)
SlotOf(path) ==
    LET here == {i \in DOMAIN hosts : hosts[i].path = path}
    IN  IF here = {} THEN [id |-> 0, st |-> "free"]
        ELSE LET e == hosts[CHOOSE i \in here : TRUE]
             IN  [id |-> e.id, st |-> IF e.orphan THEN "orphan"
                                      ELSE IF e.alive THEN "held" ELSE "dead"]

Slots == INSTANCE HostSlots WITH slot   <- [path \in Paths |-> SlotOf(path)],
                                 issued <- 1..(nextHostId - 1)

(* The table, its scans and its swap-removal behave like one slot per device *)
(* and a reply that agrees with it, for as long as the launcher runs.        *)
ImplementsSlots == Slots!Spec
=============================================================================
