------------------------- MODULE HostLauncherProofs -------------------------
(***************************************************************************)
(* Proofs about HostLauncher, for every set of devices, every pid space    *)
(* and every bound on ids. The table's invariant holds with and without    *)
(* pid reuse; that no assertion fails and that a kill hits its own host    *)
(* only are proved for PidReuse = FALSE, without which they do not hold.   *)
(***************************************************************************)
EXTENDS HostLauncher, TLAPS

(* Host ids are handed out once: nothing mentions an id that is still to   *)
(* come, entries have distinct ids, a process belongs to one host, and a   *)
(* child that was waited for has left the process table.                   *)
IdsFresh ==
    /\ \A i \in DOMAIN hosts : hosts[i].id < nextHostId
    /\ \A k \in DOMAIN signals : signals[k] < nextHostId
    /\ \A pid \in Pids : owner[pid] < nextHostId
    /\ \A w \in reaped : w.id < nextHostId

IdsUnique ==
    /\ \A i, j \in DOMAIN hosts : hosts[i].id = hosts[j].id => i = j
    /\ \A p, q \in Pids : owner[p] = owner[q] /\ owner[p] # 0 => p = q
    /\ \A w \in reaped, pid \in Pids : owner[pid] # w.id
    /\ \A pid \in running : owner[pid] # 0

IInv == TypeOK /\ IdsFresh /\ IdsUnique
        /\ UniquePath /\ OrphansAlive /\ NoLeakedHost /\ DeathAnnounced

-----------------------------------------------------------------------------
(* What g_array_remove_index_fast leaves: every entry but the removed one, *)
(* each once.                                                              *)
LEMMA RemoveFastEntries ==
    ASSUME NEW S, NEW s \in Seq(S), NEW i \in DOMAIN s
    PROVE  /\ RemoveFast(s, i) \in Seq(S)
           /\ DOMAIN RemoveFast(s, i) = 1..(Len(s) - 1)
           /\ \A j \in DOMAIN RemoveFast(s, i) :
                 RemoveFast(s, i)[j] = s[IF j = i THEN Len(s) ELSE j]
           /\ \A k \in DOMAIN s : k # i =>
                 \E j \in DOMAIN RemoveFast(s, i) : RemoveFast(s, i)[j] = s[k]
  <1> DEFINE r == RemoveFast(s, i)
  <1>1. Len(s) \in Nat /\ DOMAIN s = 1..Len(s) /\ Len(s) >= 1 /\ i \in 1..Len(s)
    OBVIOUS
  <1>2. DOMAIN r = 1..(Len(s) - 1)
    BY DEF RemoveFast
  <1>3. \A j \in DOMAIN r : r[j] = s[IF j = i THEN Len(s) ELSE j]
    BY <1>1 DEF RemoveFast
  <1>4. \A j \in DOMAIN r : r[j] \in S
    BY <1>1, <1>2, <1>3
  <1>5. r \in Seq(S)
    <2>1. Len(s) - 1 \in Nat
      BY <1>1
    <2>2. r = [j \in 1..(Len(s) - 1) |-> r[j]]
      BY DEF RemoveFast
    <2>3. QED
      BY <1>2, <1>4, <2>1, <2>2
  <1>6. ASSUME NEW k \in DOMAIN s, k # i
        PROVE  \E j \in DOMAIN r : r[j] = s[k]
    <2>1. CASE k = Len(s)
      BY <1>1, <1>2, <1>3, <1>6, <2>1
    <2>2. CASE k # Len(s)
      BY <1>1, <1>2, <1>3, <1>6, <2>2
    <2>3. QED
      BY <2>1, <2>2
  <1>7. QED
    BY <1>2, <1>3, <1>5, <1>6

(* The facts about sequences the action proofs use. *)
LEMMA AppendEntries ==
    ASSUME NEW S, NEW s \in Seq(S), NEW e \in S
    PROVE  /\ Append(s, e) \in Seq(S)
           /\ DOMAIN Append(s, e) = 1..(Len(s) + 1)
           /\ DOMAIN s = 1..Len(s)
           /\ Len(s) \in Nat
           /\ \A j \in 1..Len(s) : Append(s, e)[j] = s[j]
           /\ Append(s, e)[Len(s) + 1] = e
  OBVIOUS

-----------------------------------------------------------------------------
(* Taking an entry out of the table together with its process keeps the    *)
(* invariant: what KillHost, LaunchHost over an orphan, OrphanHost of a    *)
(* dead host and the child watch of an orphan have in common.              *)
TableInv(hs, run) ==
    /\ hs \in Seq(host_entry)
    /\ run \subseteq Pids
    /\ \A i \in DOMAIN hs : hs[i].id < nextHostId
    /\ \A i, j \in DOMAIN hs : hs[i].id = hs[j].id => i = j
    /\ \A i, j \in DOMAIN hs : hs[i].path = hs[j].path => i = j
    /\ \A i \in DOMAIN hs : hs[i].orphan => hs[i].alive
    /\ \A pid \in run : /\ owner[pid] # 0
                        /\ \E i \in DOMAIN hs : /\ hs[i].alive
                                                /\ hs[i].pid = pid
                                                /\ hs[i].id = owner[pid]
    /\ \A i \in DOMAIN hs : hs[i].alive <=> hs[i].id \notin Announced

LEMMA IInvTable == IInv => TableInv(hosts, running)
  BY DEF IInv, TypeOK, IdsFresh, IdsUnique, UniquePath, OrphansAlive, NoLeakedHost,
         DeathAnnounced, TableInv

LEMMA RemoveEntry ==
    ASSUME IInv, NEW i \in DOMAIN hosts
    PROVE  TableInv(RemoveFast(hosts, i), running \ free_host(hosts[i]))
  <1> DEFINE hs  == RemoveFast(hosts, i)
             run == running \ free_host(hosts[i])
             At(j) == IF j = i THEN Len(hosts) ELSE j
  <1>1. TableInv(hosts, running)
    BY IInvTable
  <1>2. hosts \in Seq(host_entry) /\ DOMAIN hosts = 1..Len(hosts) /\ Len(hosts) \in Nat
    BY <1>1 DEF TableInv
  <1>3. /\ hs \in Seq(host_entry)
        /\ DOMAIN hs = 1..(Len(hosts) - 1)
        /\ \A j \in DOMAIN hs : hs[j] = hosts[At(j)]
        /\ \A k \in DOMAIN hosts : k # i => \E j \in DOMAIN hs : hs[j] = hosts[k]
    BY <1>2, RemoveFastEntries
  <1>4. \A j \in DOMAIN hs : At(j) \in DOMAIN hosts /\ At(j) # i
    BY <1>2, <1>3
  <1>5. \A j, k \in DOMAIN hs : At(j) = At(k) => j = k
    BY <1>2, <1>3
  <1> HIDE DEF hs, At
  <1>6. \A j \in DOMAIN hs : hs[j].id < nextHostId
    BY <1>1, <1>3, <1>4 DEF TableInv
  <1>7. ASSUME NEW j \in DOMAIN hs, NEW k \in DOMAIN hs, hs[j].id = hs[k].id
        PROVE  j = k
    <2>1. hs[j] = hosts[At(j)] /\ hs[k] = hosts[At(k)]
      BY <1>3
    <2>2. At(j) \in DOMAIN hosts /\ At(k) \in DOMAIN hosts
      BY <1>4
    <2>3. At(j) = At(k)
      BY <1>1, <1>7, <2>1, <2>2 DEF TableInv
    <2>4. QED
      BY <1>5, <2>3
  <1>8. ASSUME NEW j \in DOMAIN hs, NEW k \in DOMAIN hs, hs[j].path = hs[k].path
        PROVE  j = k
    <2>1. hs[j] = hosts[At(j)] /\ hs[k] = hosts[At(k)]
      BY <1>3
    <2>2. At(j) \in DOMAIN hosts /\ At(k) \in DOMAIN hosts
      BY <1>4
    <2>3. At(j) = At(k)
      BY <1>1, <1>8, <2>1, <2>2 DEF TableInv
    <2>4. QED
      BY <1>5, <2>3
  <1>9. \A j \in DOMAIN hs : hs[j].orphan => hs[j].alive
    BY <1>1, <1>3, <1>4 DEF TableInv
  <1>10. ASSUME NEW j \in DOMAIN hs
         PROVE  hs[j].alive <=> hs[j].id \notin Announced
    <2>1. hs[j] = hosts[At(j)] /\ At(j) \in DOMAIN hosts
      BY <1>3, <1>4
    <2>2. hosts[At(j)].alive <=> hosts[At(j)].id \notin Announced
      BY <1>1, <2>1 DEF TableInv
    <2>3. QED
      BY <2>1, <2>2
  <1>11. ASSUME NEW pid \in run
         PROVE  /\ owner[pid] # 0
                /\ \E j \in DOMAIN hs : /\ hs[j].alive
                                        /\ hs[j].pid = pid
                                        /\ hs[j].id = owner[pid]
    <2>1. PICK k \in DOMAIN hosts : hosts[k].alive /\ hosts[k].pid = pid /\ hosts[k].id = owner[pid]
      BY <1>1 DEF TableInv
    <2>2. k # i
      BY <2>1 DEF free_host
    <2>3. QED
      BY <1>1, <1>3, <2>1, <2>2 DEF TableInv
  <1>12. run \subseteq Pids
    BY <1>1 DEF TableInv
  <1>13. QED
    BY <1>3, <1>6, <1>7, <1>8, <1>9, <1>10, <1>11, <1>12 DEF TableInv, hs

(* The conjuncts of IInv that do not mention the table or the running processes. *)
RestInv ==
    /\ nextHostId \in 1..(MaxId + 1)
    /\ owner \in [Pids -> 0..MaxId]
    /\ reaped \subseteq [id : Ids, pid : Pids]
    /\ signals \in Seq(Ids)
    /\ reply \in [res : Results, id : 0..MaxId]
    /\ aborted \in BOOLEAN
    /\ \A k \in DOMAIN signals : signals[k] < nextHostId
    /\ \A pid \in Pids : owner[pid] < nextHostId
    /\ \A w \in reaped : w.id < nextHostId
    /\ \A p, q \in Pids : owner[p] = owner[q] /\ owner[p] # 0 => p = q
    /\ \A w \in reaped, pid \in Pids : owner[pid] # w.id
    /\ \A k, l \in DOMAIN signals : signals[k] = signals[l] => k = l

LEMMA IInvSplit == IInv <=> TableInv(hosts, running) /\ RestInv
  BY DEF IInv, TypeOK, IdsFresh, IdsUnique, UniquePath, OrphansAlive, NoLeakedHost,
         DeathAnnounced, TableInv, RestInv

(* A step that leaves ids, processes' owners, signals and watches alone *)
(* only has to re-establish the table.                                   *)
LEMMA TableStep ==
    ASSUME IInv, TableInv(hosts', running'),
           reply' \in [res : Results, id : 0..MaxId], aborted' \in BOOLEAN,
           UNCHANGED <<nextHostId, owner, reaped, signals>>
    PROVE  IInv'
  <1>1. RestInv
    BY IInvSplit
  <1>2. RestInv'
    BY <1>1 DEF RestInv
  <1>3. TableInv(hosts, running)'
    BY DEF TableInv, Announced
  <1>4. IInv' <=> TableInv(hosts, running)' /\ RestInv'
    BY DEF IInv, TypeOK, IdsFresh, IdsUnique, UniquePath, OrphansAlive, NoLeakedHost,
           DeathAnnounced, TableInv, RestInv
  <1>5. QED
    BY <1>2, <1>3, <1>4

(* Setting or clearing the orphan flag of a live entry. *)
LEMMA SetOrphan ==
    ASSUME IInv, NEW i \in DOMAIN hosts, NEW b \in BOOLEAN, b => hosts[i].alive
    PROVE  TableInv([hosts EXCEPT ![i].orphan = b], running)
  <1> DEFINE hs == [hosts EXCEPT ![i].orphan = b]
  <1>1. TableInv(hosts, running)
    BY IInvTable
  <1>2. hosts \in Seq(host_entry)
    BY <1>1 DEF TableInv
  <1>3. hs \in Seq(host_entry) /\ DOMAIN hs = DOMAIN hosts
    <2>1. hosts[i] \in host_entry
      BY <1>2
    <2>2. [hosts[i] EXCEPT !.orphan = b] \in host_entry
      BY <2>1 DEF host_entry
    <2>3. QED
      BY <1>2, <2>2
  <1>4. \A j \in DOMAIN hosts : /\ hs[j].id = hosts[j].id /\ hs[j].pid = hosts[j].pid
                                /\ hs[j].path = hosts[j].path /\ hs[j].alive = hosts[j].alive
                                /\ hs[j].orphan = IF j = i THEN b ELSE hosts[j].orphan
    BY <1>2 DEF host_entry
  <1> HIDE DEF hs
  <1>5. \A j \in DOMAIN hs : hs[j].alive <=> hs[j].id \notin Announced
    BY <1>1, <1>3, <1>4 DEF TableInv
  <1>6. \A pid \in running : /\ owner[pid] # 0
                             /\ \E j \in DOMAIN hs : /\ hs[j].alive
                                                     /\ hs[j].pid = pid
                                                     /\ hs[j].id = owner[pid]
    BY <1>1, <1>3, <1>4 DEF TableInv
  <1>7. \A j \in DOMAIN hs : hs[j].orphan => hs[j].alive
    BY <1>1, <1>3, <1>4 DEF TableInv
  <1>8. /\ \A j, k \in DOMAIN hs : hs[j].id = hs[k].id => j = k
        /\ \A j, k \in DOMAIN hs : hs[j].path = hs[k].path => j = k
        /\ \A j \in DOMAIN hs : hs[j].id < nextHostId
        /\ running \subseteq Pids
    BY <1>1, <1>3, <1>4 DEF TableInv
  <1>9. QED
    BY <1>3, <1>5, <1>6, <1>7, <1>8 DEF TableInv, hs

(* A spawned host gets an entry: its id and its path are new to the table. *)
LEMMA SpawnEntry ==
    ASSUME RestInv, NEW path \in Paths, NEW hs, NEW run,
           TableInv(hs, run), \A j \in DOMAIN hs : hs[j].path # path,
           Spawn(path, hs, run), UNCHANGED <<reaped, signals, aborted>>
    PROVE  IInv'
  <1> USE LauncherAssumption
  <1>1. PICK pid \in Pids :
          /\ PidAvailable(pid)
          /\ hosts' = Append(hs, [alive |-> TRUE, orphan |-> FALSE, id |-> nextHostId,
                                  pid |-> pid, path |-> path])
          /\ owner' = [owner EXCEPT ![pid] = nextHostId]
          /\ running' = run \cup {pid}
    BY DEF Spawn
  <1> DEFINE e == [alive |-> TRUE, orphan |-> FALSE, id |-> nextHostId, pid |-> pid, path |-> path]
  <1>2. /\ nextHostId \in Ids /\ nextHostId' = nextHostId + 1
        /\ reply' = [res |-> "ok", id |-> nextHostId]
    BY DEF Spawn, Reply, RestInv, Ids
  <1>3. e \in host_entry
    BY <1>2 DEF host_entry
  <1>4. hs \in Seq(host_entry)
    BY DEF TableInv
  <1>5. /\ hosts' \in Seq(host_entry)
        /\ DOMAIN hosts' = 1..(Len(hs) + 1)
        /\ DOMAIN hs = 1..Len(hs)
        /\ Len(hs) \in Nat
        /\ \A j \in 1..Len(hs) : hosts'[j] = hs[j]
        /\ hosts'[Len(hs) + 1] = e
    BY <1>1, <1>3, <1>4, AppendEntries
  <1>6. /\ e.alive = TRUE /\ e.orphan = FALSE /\ e.id = nextHostId /\ e.pid = pid /\ e.path = path
    OBVIOUS
  <1>7. \A j \in DOMAIN hs : hs[j] \in host_entry /\ hs[j].id \in Nat /\ hs[j].id < nextHostId
    <2>1. \A j \in DOMAIN hs : hs[j] \in host_entry
      BY <1>4
    <2>2. \A x \in host_entry : x.id \in Nat
      BY DEF host_entry, Ids
    <2>3. QED
      BY <2>1, <2>2 DEF TableInv
  <1>8. owner[pid] = 0 /\ owner' \in [Pids -> 0..MaxId]
    BY <1>1, <1>2 DEF PidAvailable, RestInv, Ids
  <1>9. pid \notin run
    BY <1>8 DEF TableInv
  <1> HIDE DEF e
  <1>10. \A j \in DOMAIN hosts' : hosts'[j].id < nextHostId'
    BY <1>2, <1>5, <1>6, <1>7 DEF Ids
  <1>11. \A j, k \in DOMAIN hosts' : hosts'[j].id = hosts'[k].id => j = k
    BY <1>2, <1>5, <1>6, <1>7 DEF TableInv
  <1>12. \A j, k \in DOMAIN hosts' : hosts'[j].path = hosts'[k].path => j = k
    BY <1>5, <1>6 DEF TableInv
  <1>13. \A j \in DOMAIN hosts' : hosts'[j].orphan => hosts'[j].alive
    BY <1>5, <1>6 DEF TableInv
  <1>14. \A q \in running' : /\ owner'[q] # 0
                             /\ \E j \in DOMAIN hosts' : /\ hosts'[j].alive
                                                         /\ hosts'[j].pid = q
                                                         /\ hosts'[j].id = owner'[q]
    <2>1. TAKE q \in running'
    <2>2. CASE q = pid
      <3>1. owner'[q] = nextHostId
        BY <1>1, <2>2, <1>8 DEF RestInv
      <3>2. Len(hs) + 1 \in DOMAIN hosts'
        BY <1>5
      <3>3. QED
        BY <1>2, <1>5, <1>6, <2>2, <3>1, <3>2 DEF Ids
    <2>3. CASE q # pid
      <3>1. q \in run /\ owner'[q] = owner[q]
        BY <1>1, <2>3 DEF RestInv, TableInv
      <3>2. PICK j \in DOMAIN hs : hs[j].alive /\ hs[j].pid = q /\ hs[j].id = owner[q]
        BY <3>1 DEF TableInv
      <3>3. j \in DOMAIN hosts' /\ hosts'[j] = hs[j]
        BY <1>5
      <3>4. QED
        BY <3>1, <3>2, <3>3 DEF TableInv
    <2>4. QED
      BY <2>2, <2>3
  <1>15. \A j \in DOMAIN hosts' : hosts'[j].alive <=> hosts'[j].id \notin Announced
    <2>1. ASSUME NEW j \in DOMAIN hs
          PROVE  hosts'[j].alive <=> hosts'[j].id \notin Announced
      BY <1>5 DEF TableInv
    <2>2. nextHostId \notin Announced
      BY <1>2 DEF RestInv, Ids, Announced
    <2>3. QED
      BY <1>5, <1>6, <2>1, <2>2
  <1>16. running' \subseteq Pids
    BY <1>1 DEF TableInv
  <1>17. TableInv(hosts, running)'
    BY <1>5, <1>10, <1>11, <1>12, <1>13, <1>14, <1>15, <1>16
    DEF TableInv, Announced
  <1>18. RestInv'
    <2>1. reply' \in [res : Results, id : 0..MaxId] /\ nextHostId' \in 1..(MaxId + 1)
      BY <1>2 DEF Results, Ids
    <2>2. \A p, q \in Pids : owner'[p] = owner'[q] /\ owner'[p] # 0 => p = q
      BY <1>1, <1>2, <1>8 DEF RestInv, Ids
    <2>3. \A w \in reaped, q \in Pids : owner'[q] # w.id
      BY <1>1, <1>2, <1>8 DEF RestInv, Ids
    <2>4. \A q \in Pids : owner'[q] < nextHostId'
      BY <1>1, <1>2, <1>8 DEF RestInv, Ids
    <2>5. /\ \A w \in reaped : w.id < nextHostId'
          /\ \A k \in DOMAIN signals : signals[k] < nextHostId'
      BY <1>2 DEF RestInv, Ids
    <2>6. QED
      BY <1>8, <2>1, <2>2, <2>3, <2>4, <2>5 DEF RestInv
  <1>19. IInv' <=> TableInv(hosts, running)' /\ RestInv'
    BY DEF IInv, TypeOK, IdsFresh, IdsUnique, UniquePath, OrphansAlive, NoLeakedHost,
           DeathAnnounced, TableInv, RestInv
  <1>20. QED
    BY <1>17, <1>18, <1>19

-----------------------------------------------------------------------------
(* One lemma per action. *)

LEMMA LaunchStep ==
    ASSUME IInv, NEW path \in Paths, launch_host_call(path)
    PROVE  IInv'
  <1> USE LauncherAssumption
  <1>1. TableInv(hosts, running) /\ RestInv
    BY IInvSplit
  <1>2. UNCHANGED <<reaped, signals, aborted>> /\ aborted' \in BOOLEAN
    BY <1>1 DEF launch_host_call, RestInv
  <1>3. ASSUME NEW hs, NEW run, TableInv(hs, run), SpawnFails(hs, run)
        PROVE  IInv'
    <2>1. reply' \in [res : Results, id : 0..MaxId]
      BY <1>3 DEF SpawnFails, Reply, Results
    <2>2. TableInv(hosts', running') /\ UNCHANGED <<nextHostId, owner>>
      BY <1>3 DEF SpawnFails
    <2>3. QED
      BY <1>2, <2>1, <2>2, TableStep
  <1>4. ASSUME NEW i \in DOMAIN hosts, LaunchRefused(path, i)
        PROVE  IInv'
    <2>1. reply' \in [res : Results, id : 0..MaxId]
      BY <1>4 DEF LaunchRefused, Reply, Results
    <2>2. TableInv(hosts', running') /\ UNCHANGED <<nextHostId, owner>>
      BY <1>1, <1>4 DEF LaunchRefused
    <2>3. QED
      BY <1>2, <2>1, <2>2, TableStep
  <1>5. ASSUME NEW i \in DOMAIN hosts, LaunchOverOrphan(path, i)
        PROVE  IInv'
    <2> DEFINE hs  == RemoveFast(hosts, i)
               run == running \ free_host(hosts[i])
    <2>1. TableInv(hs, run)
      BY RemoveEntry
    <2>2. \A j \in DOMAIN hs : hs[j].path # path
      <3>1. hosts \in Seq(host_entry) /\ Len(hosts) \in Nat /\ DOMAIN hosts = 1..Len(hosts)
        BY <1>1 DEF TableInv
      <3>2. hosts[i].path = path
        BY <1>5 DEF LaunchOverOrphan, FirstWithPath, HasPath
      <3>3. \A k \in DOMAIN hosts : hosts[k].path = path => k = i
        BY <1>1, <3>2 DEF TableInv
      <3>4. /\ DOMAIN hs = 1..(Len(hosts) - 1)
            /\ \A j \in DOMAIN hs : hs[j] = hosts[IF j = i THEN Len(hosts) ELSE j]
        BY <3>1, RemoveFastEntries
      <3>5. QED
        BY <3>1, <3>3, <3>4
    <2>3. SpawnFails(hs, run) \/ Spawn(path, hs, run)
      BY <1>5 DEF LaunchOverOrphan
    <2> HIDE DEF hs, run
    <2>4. QED
      BY <1>1, <1>2, <1>3, <2>1, <2>2, <2>3, SpawnEntry
  <1>6. ASSUME LaunchNew(path)
        PROVE  IInv'
    <2>1. \A j \in DOMAIN hosts : hosts[j].path # path
      BY <1>6 DEF LaunchNew, HasPath
    <2>2. SpawnFails(hosts, running) \/ Spawn(path, hosts, running)
      BY <1>6 DEF LaunchNew
    <2>3. QED
      BY <1>1, <1>2, <1>3, <2>1, <2>2, SpawnEntry
  <1>7. QED
    BY <1>4, <1>5, <1>6 DEF launch_host_call

LEMMA KillStep ==
    ASSUME IInv, NEW id \in Ids, kill_host_call(id)
    PROVE  IInv'
  <1> USE LauncherAssumption
  <1>1. TableInv(hosts, running) /\ RestInv
    BY IInvSplit
  <1>2. /\ UNCHANGED <<nextHostId, owner, reaped, signals>>
        /\ aborted' \in BOOLEAN
        /\ reply' \in [res : Results, id : 0..MaxId]
    BY <1>1 DEF kill_host_call, Reply, Results, RestInv, Ids
  <1>3. TableInv(hosts', running')
    BY <1>1, RemoveEntry DEF kill_host_call
  <1>4. QED
    BY <1>2, <1>3, TableStep

LEMMA AdoptStep ==
    ASSUME IInv, NEW path \in Paths, adopt_host_call(path)
    PROVE  IInv'
  <1> USE LauncherAssumption
  <1>1. TableInv(hosts, running) /\ RestInv
    BY IInvSplit
  <1>2. UNCHANGED <<nextHostId, owner, running, reaped, signals>>
    BY DEF adopt_host_call
  <1>3. ASSUME NEW i \in DOMAIN hosts, AdoptAt(i, path)
        PROVE  IInv'
    <2>1. hosts[i] \in host_entry
      BY <1>1 DEF TableInv
    <2>2. hosts[i].id \in Ids /\ hosts[i].alive \in BOOLEAN
      BY <2>1 DEF host_entry
    <2>3. reply' \in [res : Results, id : 0..MaxId] /\ aborted' \in BOOLEAN
      BY <1>3, <2>2 DEF AdoptAt, Reply, Results, Ids
    <2>4. TableInv(hosts', running')
      BY <1>2, <1>3, SetOrphan DEF AdoptAt
    <2>5. QED
      BY <1>2, <2>3, <2>4, TableStep
  <1>4. ASSUME AdoptNothing(path)
        PROVE  IInv'
    <2>1. reply' \in [res : Results, id : 0..MaxId] /\ aborted' \in BOOLEAN
      BY <1>1, <1>4 DEF AdoptNothing, Reply, Results, RestInv
    <2>2. TableInv(hosts', running')
      BY <1>1, <1>2, <1>4 DEF AdoptNothing
    <2>3. QED
      BY <1>2, <2>1, <2>2, TableStep
  <1>5. QED
    BY <1>3, <1>4 DEF adopt_host_call

LEMMA OrphanStep ==
    ASSUME IInv, NEW id \in Ids, orphan_host_call(id)
    PROVE  IInv'
  <1> USE LauncherAssumption
  <1>1. TableInv(hosts, running) /\ RestInv
    BY IInvSplit
  <1>2. UNCHANGED <<nextHostId, owner, reaped, signals>>
    BY DEF orphan_host_call
  <1>3. ASSUME NEW i \in DOMAIN hosts, OrphanRefused(i, id) \/ OrphanDead(i, id) \/ OrphanLive(i, id)
        PROVE  IInv'
    <2>1. hosts[i] \in host_entry
      BY <1>1 DEF TableInv
    <2>2. hosts[i].alive \in BOOLEAN
      BY <2>1 DEF host_entry
    <2>3. reply' \in [res : Results, id : 0..MaxId] /\ aborted' \in BOOLEAN
      <3>1. reply' \in [res : Results, id : 0..MaxId]
        BY <1>3 DEF OrphanRefused, OrphanDead, OrphanLive, Reply, Results, Ids
      <3>2. aborted' = (~hosts[i].alive) \/ aborted' = aborted
        BY <1>3 DEF OrphanRefused, OrphanDead, OrphanLive
      <3>3. aborted' \in BOOLEAN
        BY <1>1, <2>2, <3>2 DEF RestInv
      <3>4. QED
        BY <3>1, <3>3
    <2>4. CASE OrphanRefused(i, id)
      BY <1>1, <1>2, <2>3, <2>4, TableStep DEF OrphanRefused
    <2>5. CASE OrphanDead(i, id)
      BY <1>2, <2>3, <2>5, RemoveEntry, TableStep DEF OrphanDead
    <2>6. CASE OrphanLive(i, id)
      <3>1. TableInv([hosts EXCEPT ![i].orphan = TRUE], running)
        BY <2>6, SetOrphan DEF OrphanLive
      <3>2. TableInv(hosts', running')
        BY <2>6, <3>1 DEF OrphanLive
      <3>3. QED
        BY <1>2, <2>3, <3>2, TableStep
    <2>7. QED
      BY <1>3, <2>4, <2>5, <2>6
  <1>4. ASSUME OrphanUnknown(id)
        PROVE  IInv'
    <2>1. reply' \in [res : Results, id : 0..MaxId] /\ aborted' \in BOOLEAN
      BY <1>1, <1>4 DEF OrphanUnknown, Reply, Results, RestInv, Ids
    <2>2. TableInv(hosts', running')
      BY <1>1, <1>4 DEF OrphanUnknown
    <2>3. QED
      BY <1>2, <2>1, <2>2, TableStep
  <1>5. QED
    BY <1>3, <1>4 DEF orphan_host_call

LEMMA HostDiesStep ==
    ASSUME IInv, NEW pid \in Pids, HostDies(pid)
    PROVE  IInv'
  <1>1. TableInv(hosts, running) /\ RestInv
    BY IInvSplit
  <1>2. TableInv(hosts', running')
    BY <1>1 DEF HostDies, TableInv
  <1>3. reply' \in [res : Results, id : 0..MaxId] /\ aborted' \in BOOLEAN
    BY <1>1 DEF HostDies, RestInv
  <1>4. QED
    BY <1>2, <1>3, TableStep DEF HostDies

LEMMA ReapStep ==
    ASSUME IInv, NEW pid \in Pids, Reap(pid)
    PROVE  IInv'
  <1> USE LauncherAssumption
  <1>1. TableInv(hosts, running) /\ RestInv
    BY IInvSplit
  <1>2. /\ owner[pid] # 0 /\ pid \notin running
        /\ owner' = [owner EXCEPT ![pid] = 0]
        /\ reaped' = reaped \cup {[id |-> owner[pid], pid |-> pid]}
        /\ UNCHANGED <<hosts, nextHostId, running, signals, reply, aborted>>
    BY DEF Reap
  <1>3. owner[pid] \in Ids /\ owner[pid] < nextHostId /\ owner' \in [Pids -> 0..MaxId]
    BY <1>1, <1>2 DEF RestInv, Ids
  <1>4. \A q \in Pids : owner'[q] = IF q = pid THEN 0 ELSE owner[q]
    BY <1>1, <1>2 DEF RestInv
  <1>5. TableInv(hosts, running)'
    BY <1>1, <1>2, <1>4 DEF TableInv, Announced
  <1>6. \A w \in reaped' : w = [id |-> owner[pid], pid |-> pid] \/ w \in reaped
    BY <1>2
  <1>7. reaped' \subseteq [id : Ids, pid : Pids] /\ \A w \in reaped' : w.id < nextHostId
    BY <1>1, <1>3, <1>6 DEF RestInv
  <1>8. ASSUME NEW w \in reaped', NEW q \in Pids
        PROVE  owner'[q] # w.id
    <2>1. w.id \in Ids
      BY <1>7
    <2>2. CASE q = pid
      BY <1>4, <2>1, <2>2 DEF Ids
    <2>3. CASE q # pid
      BY <1>1, <1>2, <1>4, <1>6, <2>3 DEF RestInv
    <2>4. QED
      BY <2>2, <2>3
  <1>9. \A p, q \in Pids : owner'[p] = owner'[q] /\ owner'[p] # 0 => p = q
    BY <1>1, <1>4 DEF RestInv
  <1>10. \A q \in Pids : owner'[q] < nextHostId
    BY <1>1, <1>4 DEF RestInv
  <1>11. RestInv'
    BY <1>1, <1>2, <1>3, <1>7, <1>8, <1>9, <1>10 DEF RestInv
  <1>12. IInv' <=> TableInv(hosts, running)' /\ RestInv'
    BY DEF IInv, TypeOK, IdsFresh, IdsUnique, UniquePath, OrphansAlive, NoLeakedHost,
           DeathAnnounced, TableInv, RestInv
  <1>13. QED
    BY <1>5, <1>11, <1>12

(* Dispatching a watch that changes nothing but the table. *)
LEMMA WatchTableStep ==
    ASSUME IInv, NEW w \in reaped, reaped' = reaped \ {w},
           TableInv(hosts', running'), aborted' \in BOOLEAN,
           UNCHANGED <<nextHostId, owner, reply, signals>>
    PROVE  IInv'
  <1>1. RestInv
    BY IInvSplit
  <1>2. RestInv'
    BY <1>1 DEF RestInv
  <1>3. TableInv(hosts, running)'
    BY DEF TableInv, Announced
  <1>4. IInv' <=> TableInv(hosts, running)' /\ RestInv'
    BY DEF IInv, TypeOK, IdsFresh, IdsUnique, UniquePath, OrphansAlive, NoLeakedHost,
           DeathAnnounced, TableInv, RestInv
  <1>5. QED
    BY <1>2, <1>3, <1>4

(* A held host is announced and marked dead; its process has left the *)
(* process table, so no running host loses its entry.                  *)
LEMMA AnnounceStep ==
    ASSUME IInv, NEW w \in reaped, reaped' = reaped \ {w},
           NEW i \in DOMAIN hosts, hosts[i].id = w.id, hosts[i].alive, ~hosts[i].orphan,
           signals' = Append(signals, hosts[i].id),
           hosts' = [hosts EXCEPT ![i].alive = FALSE],
           aborted' \in BOOLEAN,
           UNCHANGED <<nextHostId, owner, running, reply>>
    PROVE  IInv'
  <1>1. TableInv(hosts, running) /\ RestInv
    BY IInvSplit
  <1>2. hosts \in Seq(host_entry) /\ hosts[i] \in host_entry
    BY <1>1 DEF TableInv
  <1>3. hosts' \in Seq(host_entry) /\ DOMAIN hosts' = DOMAIN hosts
    <2>1. [hosts[i] EXCEPT !.alive = FALSE] \in host_entry
      BY <1>2 DEF host_entry
    <2>2. QED
      BY <1>2, <2>1
  <1>4. \A j \in DOMAIN hosts : /\ hosts'[j].id = hosts[j].id /\ hosts'[j].pid = hosts[j].pid
                                /\ hosts'[j].path = hosts[j].path
                                /\ hosts'[j].orphan = hosts[j].orphan
                                /\ j # i => hosts'[j].alive = hosts[j].alive
    BY <1>2 DEF host_entry
  <1>5. hosts'[i].alive = FALSE
    BY <1>2 DEF host_entry
  <1>6. hosts[i].id \in Ids /\ signals \in Seq(Ids)
    BY <1>1, <1>2 DEF host_entry, RestInv
  <1>7. /\ signals' \in Seq(Ids) /\ Len(signals) \in Nat
        /\ DOMAIN signals' = 1..(Len(signals) + 1) /\ DOMAIN signals = 1..Len(signals)
        /\ \A k \in 1..Len(signals) : signals'[k] = signals[k]
        /\ signals'[Len(signals) + 1] = hosts[i].id
    BY <1>6, AppendEntries
  <1>8. Announced' = Announced \cup {hosts[i].id}
    BY <1>7 DEF Announced
  <1>9. hosts[i].id \notin Announced
    BY <1>1 DEF TableInv
  <1>10. ASSUME NEW j \in DOMAIN hosts'
         PROVE  hosts'[j].alive <=> hosts'[j].id \notin Announced'
    <2>1. CASE j = i
      <3>1. hosts'[j].id \in Announced'
        <4>1. hosts'[i].id = hosts[i].id
          BY <1>4
        <4>2. hosts[i].id \in Announced'
          BY <1>8
        <4>3. QED
          BY <2>1, <4>1, <4>2
      <3>2. ~hosts'[j].alive
        BY <1>5, <2>1
      <3>3. QED
        BY <3>1, <3>2
    <2>2. CASE j # i
      <3>1. hosts[j].id # hosts[i].id
        BY <1>1, <1>3, <2>2 DEF TableInv
      <3>2. QED
        BY <1>1, <1>3, <1>4, <1>8, <2>2, <3>1 DEF TableInv
    <2>3. QED
      BY <2>1, <2>2
  <1>11. ASSUME NEW pid \in running'
         PROVE  /\ owner'[pid] # 0
                /\ \E j \in DOMAIN hosts' : /\ hosts'[j].alive
                                            /\ hosts'[j].pid = pid
                                            /\ hosts'[j].id = owner'[pid]
    <2>1. PICK j \in DOMAIN hosts : hosts[j].alive /\ hosts[j].pid = pid /\ hosts[j].id = owner[pid]
      BY <1>1 DEF TableInv
    <2>2. pid \in Pids /\ owner[pid] # w.id
      BY <1>1 DEF TableInv, RestInv
    <2>3. j # i
      BY <2>1, <2>2
    <2>4. QED
      BY <1>1, <1>3, <1>4, <2>1, <2>3 DEF TableInv
  <1>12. /\ \A j, k \in DOMAIN hosts' : hosts'[j].id = hosts'[k].id => j = k
         /\ \A j, k \in DOMAIN hosts' : hosts'[j].path = hosts'[k].path => j = k
         /\ \A j \in DOMAIN hosts' : hosts'[j].id < nextHostId'
         /\ running' \subseteq Pids
    BY <1>1, <1>3, <1>4 DEF TableInv
  <1>13. \A j \in DOMAIN hosts' : hosts'[j].orphan => hosts'[j].alive
    BY <1>1, <1>3, <1>4 DEF TableInv
  <1>14. TableInv(hosts, running)'
    BY <1>3, <1>10, <1>11, <1>12, <1>13 DEF TableInv
  <1>15. /\ \A k \in DOMAIN signals' : signals'[k] < nextHostId
         /\ \A k, l \in DOMAIN signals' : signals'[k] = signals'[l] => k = l
    <2>1. \A k \in DOMAIN signals : signals[k] # hosts[i].id
      BY <1>9 DEF Announced
    <2>2. hosts[i].id < nextHostId
      BY <1>1 DEF TableInv
    <2>3. \A k \in DOMAIN signals' : k = Len(signals) + 1 \/ k \in DOMAIN signals
      BY <1>7
    <2>4. \A k \in DOMAIN signals' : signals'[k] < nextHostId
      BY <1>1, <1>7, <2>2, <2>3 DEF RestInv
    <2>5. ASSUME NEW k \in DOMAIN signals', NEW l \in DOMAIN signals', signals'[k] = signals'[l]
          PROVE  k = l
      BY <1>1, <1>7, <2>1, <2>3, <2>5 DEF RestInv
    <2>6. QED
      BY <2>4, <2>5
  <1>16. RestInv'
    BY <1>1, <1>7, <1>15 DEF RestInv
  <1>17. IInv' <=> TableInv(hosts, running)' /\ RestInv'
    BY DEF IInv, TypeOK, IdsFresh, IdsUnique, UniquePath, OrphansAlive, NoLeakedHost,
           DeathAnnounced, TableInv, RestInv
  <1>18. QED
    BY <1>14, <1>16, <1>17

LEMMA WatchStep ==
    ASSUME IInv, NEW w \in reaped, host_watch_cb(w)
    PROVE  IInv'
  <1>1. TableInv(hosts, running) /\ RestInv
    BY IInvSplit
  <1>2. reaped' = reaped \ {w} /\ UNCHANGED <<nextHostId, owner, reply>>
    BY DEF host_watch_cb
  <1>3. CASE aborted' = TRUE /\ UNCHANGED <<hosts, running, signals>>
    BY <1>1, <1>2, <1>3, WatchTableStep
  <1>4. CASE UNCHANGED <<hosts, running, signals, aborted>>
    <2>1. aborted' \in BOOLEAN /\ TableInv(hosts', running')
      BY <1>1, <1>4 DEF RestInv
    <2>2. QED
      BY <1>2, <1>4, <2>1, WatchTableStep
  <1>5. ASSUME NEW i \in DOMAIN hosts, HasId(i, w.id), WatchOrphan(i)
        PROVE  IInv'
    <2>1. TableInv(hosts', running')
      BY <1>5, RemoveEntry DEF WatchOrphan
    <2>2. aborted' \in BOOLEAN /\ UNCHANGED signals
      BY <1>1, <1>5 DEF WatchOrphan, RestInv
    <2>3. QED
      BY <1>2, <2>1, <2>2, WatchTableStep
  <1>6. ASSUME NEW i \in DOMAIN hosts, HasId(i, w.id), WatchHeld(i)
        PROVE  IInv'
    <2>1. hosts \in Seq(host_entry) /\ hosts[i] \in host_entry
      BY <1>1 DEF TableInv
    <2>2. hosts[i].alive \in BOOLEAN /\ hosts[i].orphan \in BOOLEAN
      BY <2>1 DEF host_entry
    <2>3. aborted' \in BOOLEAN
      BY <1>6, <2>2 DEF WatchHeld
    <2>4. CASE hosts[i].alive
      <3>1. ~hosts[i].orphan /\ signals' = Append(signals, hosts[i].id)
        BY <1>6, <2>4 DEF WatchHeld
      <3>2. hosts' = [hosts EXCEPT ![i].alive = FALSE] /\ UNCHANGED running /\ hosts[i].id = w.id
        BY <1>6 DEF WatchHeld, HasId
      <3>3. QED
        BY <1>2, <2>3, <2>4, <3>1, <3>2, AnnounceStep
    <2>5. CASE ~hosts[i].alive
      <3>1. hosts[i].alive = FALSE
        BY <2>2, <2>5
      <3>2. [hosts[i] EXCEPT !.alive = FALSE] = hosts[i]
        BY <2>1, <3>1 DEF host_entry
      <3>3. [hosts EXCEPT ![i].alive = FALSE] = hosts
        BY <2>1, <3>2
      <3>4. UNCHANGED <<hosts, running, signals>>
        BY <1>6, <2>5, <3>3 DEF WatchHeld
      <3>5. TableInv(hosts', running')
        BY <1>1, <3>4
      <3>6. QED
        BY <1>2, <2>3, <3>4, <3>5, WatchTableStep
    <2>6. QED
      BY <2>4, <2>5
  <1>7. QED
    BY <1>3, <1>4, <1>5, <1>6 DEF host_watch_cb

-----------------------------------------------------------------------------
LEMMA InitIInv == Init => IInv
  <1> SUFFICES ASSUME Init PROVE IInv
    OBVIOUS
  <1> USE LauncherAssumption DEF Init
  <1>1. /\ hosts \in Seq(host_entry) /\ signals \in Seq(Ids) /\ DOMAIN hosts = {}
        /\ DOMAIN signals = {}
    OBVIOUS
  <1>2. TypeOK
    <2>1. reply \in [res : Results, id : 0..MaxId]
      BY DEF Results
    <2>2. owner \in [Pids -> 0..MaxId] /\ nextHostId \in 1..(MaxId + 1)
      OBVIOUS
    <2>3. running \subseteq Pids /\ reaped \subseteq [id : Ids, pid : Pids] /\ aborted \in BOOLEAN
      OBVIOUS
    <2>4. QED
      BY <1>1, <2>1, <2>2, <2>3 DEF TypeOK
  <1>3. IdsFresh /\ IdsUnique
    BY <1>1 DEF IdsFresh, IdsUnique
  <1>4. UniquePath /\ OrphansAlive /\ NoLeakedHost /\ DeathAnnounced
    BY <1>1 DEF UniquePath, OrphansAlive, NoLeakedHost, DeathAnnounced
  <1>5. QED
    BY <1>2, <1>3, <1>4 DEF IInv

LEMMA NextIInv == IInv /\ [Next]_vars => IInv'
  <1> SUFFICES ASSUME IInv, [Next]_vars PROVE IInv'
    OBVIOUS
  <1>1. CASE MainLoop
    BY <1>1, LaunchStep, AdoptStep, KillStep, OrphanStep, WatchStep DEF MainLoop, launch_method_call
  <1>2. ASSUME NEW pid \in Pids, HostDies(pid) \/ Reap(pid)
        PROVE  IInv'
    BY <1>2, HostDiesStep, ReapStep
  <1>3. CASE UNCHANGED vars
    BY <1>3 DEF vars, IInv, TypeOK, IdsFresh, IdsUnique, UniquePath, OrphansAlive, NoLeakedHost,
                DeathAnnounced, Announced
  <1>4. QED
    BY <1>1, <1>2, <1>3 DEF Next

(* The strengthened invariant holds in every reachable state. *)
THEOREM LauncherInvariant == Spec => []IInv
  <1>1. QED
    BY InitIInv, NextIInv, PTL DEF Spec

(* The launcher's state keeps its types, whatever clients call and         *)
(* whenever hosts die.                                                     *)
THEOREM LauncherTypeOK == Spec => []TypeOK
  <1>1. IInv => TypeOK
    BY DEF IInv
  <1>2. QED
    BY <1>1, LauncherInvariant, PTL

(* No two hosts are ever registered for one device (launch.c:132-146),     *)
(* with or without pid reuse.                                              *)
THEOREM LauncherUniquePath == Spec => []UniquePath
  <1>1. IInv => UniquePath
    BY DEF IInv
  <1>2. QED
    BY <1>1, LauncherInvariant, PTL

(* The orphan assertions of launch.c (93, 264, 306) can never fail. *)
THEOREM LauncherOrphansAlive == Spec => []OrphansAlive
  <1>1. IInv => OrphansAlive
    BY DEF IInv
  <1>2. QED
    BY <1>1, LauncherInvariant, PTL

(* Every running host process has a live entry with its id and pid. *)
THEOREM LauncherNoLeakedHost == Spec => []NoLeakedHost
  <1>1. IInv => NoLeakedHost
    BY DEF IInv
  <1>2. QED
    BY <1>1, LauncherInvariant, PTL

(* HostDied is emitted once per host that dies held, and an entry is dead  *)
(* exactly if it was announced (launch.c:74-97).                           *)
THEOREM LauncherDeathAnnounced == Spec => []DeathAnnounced
  <1>1. IInv => DeathAnnounced
    BY DEF IInv
  <1>2. QED
    BY <1>1, LauncherInvariant, PTL

-----------------------------------------------------------------------------
(* Without pid reuse.  A pid names one host only, across the table, the    *)
(* process table and the watches that are still to be dispatched: this is  *)
(* what host_watch_cb asserts of the part of the table it walks, and what  *)
(* makes killpg of a recorded pid hit the recorded host.                   *)
PidsAgree(hs) ==
    \A i \in DOMAIN hs :
       /\ \A pid \in Pids : owner[pid] # 0 => (owner[pid] = hs[i].id <=> pid = hs[i].pid)
       /\ \A w \in reaped : w.id = hs[i].id <=> w.pid = hs[i].pid

NoReuseInv == IInv /\ PidsAgree(hosts) /\ AssertionsHold

(* A table made of entries of the old one, whatever their flags, keeps it. *)
LEMMA SubTablePids ==
    ASSUME PidsAgree(hosts), NEW hs,
           \A j \in DOMAIN hs : \E i \in DOMAIN hosts : /\ hs[j].id = hosts[i].id
                                                        /\ hs[j].pid = hosts[i].pid
    PROVE  PidsAgree(hs)
  BY DEF PidsAgree

(* An entry that g_array_remove_index_fast leaves is another one than the removed. *)
LEMMA RemovedIsGone ==
    ASSUME IInv, NEW i \in DOMAIN hosts, NEW j \in DOMAIN RemoveFast(hosts, i)
    PROVE  /\ \E k \in DOMAIN hosts : k # i /\ RemoveFast(hosts, i)[j] = hosts[k]
           /\ RemoveFast(hosts, i)[j].id # hosts[i].id
  <1>1. TableInv(hosts, running)
    BY IInvTable
  <1>2. hosts \in Seq(host_entry) /\ DOMAIN hosts = 1..Len(hosts) /\ Len(hosts) \in Nat
    BY <1>1 DEF TableInv
  <1>3. /\ DOMAIN RemoveFast(hosts, i) = 1..(Len(hosts) - 1)
        /\ RemoveFast(hosts, i)[j] = hosts[IF j = i THEN Len(hosts) ELSE j]
    BY <1>2, RemoveFastEntries
  <1>4. PICK k \in DOMAIN hosts : k # i /\ RemoveFast(hosts, i)[j] = hosts[k]
    BY <1>2, <1>3
  <1>5. hosts[k].id # hosts[i].id
    BY <1>1, <1>4 DEF TableInv
  <1>6. QED
    BY <1>4, <1>5

LEMMA RemovePids ==
    ASSUME IInv, PidsAgree(hosts), NEW i \in DOMAIN hosts
    PROVE  PidsAgree(RemoveFast(hosts, i))
  BY RemovedIsGone, SubTablePids

(* Changing the flags of an entry changes neither its id nor its pid. *)
LEMMA FlagPids ==
    ASSUME IInv, PidsAgree(hosts), NEW i \in DOMAIN hosts, NEW b
    PROVE  /\ PidsAgree([hosts EXCEPT ![i].orphan = b])
           /\ PidsAgree([hosts EXCEPT ![i].alive = b])
  <1>1. hosts \in Seq(host_entry)
    BY DEF IInv, TypeOK
  <1>2. \A j \in DOMAIN hosts : hosts[j] \in host_entry
    BY <1>1
  <1>3. \A j \in DOMAIN hosts : /\ [hosts EXCEPT ![i].orphan = b][j].id = hosts[j].id
                                /\ [hosts EXCEPT ![i].orphan = b][j].pid = hosts[j].pid
                                /\ [hosts EXCEPT ![i].alive = b][j].id = hosts[j].id
                                /\ [hosts EXCEPT ![i].alive = b][j].pid = hosts[j].pid
    BY <1>1, <1>2 DEF host_entry
  <1>4. /\ DOMAIN [hosts EXCEPT ![i].orphan = b] = DOMAIN hosts
        /\ DOMAIN [hosts EXCEPT ![i].alive = b] = DOMAIN hosts
    BY <1>1
  <1>5. QED
    BY <1>3, <1>4 DEF PidsAgree

(* The kernel gives a new host a pid that nothing remembers. *)
LEMMA SpawnPids ==
    ASSUME IInv, PidReuse = FALSE, NEW path \in Paths, NEW hs, NEW run,
           TableInv(hs, run), PidsAgree(hs), Spawn(path, hs, run), UNCHANGED reaped,
           \A j \in DOMAIN hs : \E i \in DOMAIN hosts : hs[j] = hosts[i]
    PROVE  PidsAgree(hosts)'
  <1>1. PICK pid \in Pids :
          /\ PidAvailable(pid)
          /\ hosts' = Append(hs, [alive |-> TRUE, orphan |-> FALSE, id |-> nextHostId,
                                  pid |-> pid, path |-> path])
          /\ owner' = [owner EXCEPT ![pid] = nextHostId]
    BY DEF Spawn
  <1> DEFINE e == [alive |-> TRUE, orphan |-> FALSE, id |-> nextHostId, pid |-> pid, path |-> path]
  <1>2. /\ nextHostId \in Ids
        /\ owner \in [Pids -> 0..MaxId] /\ reaped \subseteq [id : Ids, pid : Pids]
    BY LauncherAssumption DEF Spawn, IInv, TypeOK, Ids
  <1>3. e \in host_entry /\ hs \in Seq(host_entry)
    BY <1>2 DEF host_entry, TableInv
  <1>4. /\ DOMAIN hosts' = 1..(Len(hs) + 1)
        /\ DOMAIN hs = 1..Len(hs)
        /\ Len(hs) \in Nat
        /\ \A j \in 1..Len(hs) : hosts'[j] = hs[j]
        /\ hosts'[Len(hs) + 1] = e
    BY <1>1, <1>3, AppendEntries
  <1>5. e.id = nextHostId /\ e.pid = pid
    OBVIOUS
  <1>6. /\ owner[pid] = 0
        /\ \A i \in DOMAIN hosts : hosts[i].pid # pid
        /\ \A w \in reaped : w.pid # pid
    BY <1>1 DEF PidAvailable
  <1>7. \A q \in Pids : owner'[q] = IF q = pid THEN nextHostId ELSE owner[q]
    BY <1>1, <1>2
  <1>8. /\ \A q \in Pids : owner[q] # nextHostId
        /\ \A w \in reaped : w.id # nextHostId
        /\ \A j \in DOMAIN hs : hs[j].id # nextHostId /\ hs[j].pid # pid
    <2>1. \A q \in Pids : owner[q] # nextHostId
      BY <1>2 DEF IInv, IdsFresh, Ids
    <2>2. \A w \in reaped : w.id # nextHostId
      BY <1>2 DEF IInv, IdsFresh, Ids
    <2>3. \A j \in DOMAIN hs : hs[j].id # nextHostId
      BY <1>2 DEF TableInv, Ids
    <2>4. QED
      BY <1>6, <2>1, <2>2, <2>3
  <1> HIDE DEF e
  <1>9. ASSUME NEW j \in DOMAIN hs
        PROVE  /\ \A q \in Pids : owner'[q] # 0 => (owner'[q] = hs[j].id <=> q = hs[j].pid)
               /\ \A w \in reaped : w.id = hs[j].id <=> w.pid = hs[j].pid
    BY <1>7, <1>8 DEF PidsAgree
  <1>10. /\ \A q \in Pids : owner'[q] # 0 => (owner'[q] = e.id <=> q = e.pid)
         /\ \A w \in reaped : w.id = e.id <=> w.pid = e.pid
    BY <1>5, <1>6, <1>7, <1>8
  <1>11. QED
    BY <1>4, <1>9, <1>10 DEF PidsAgree

(* GLib's wait turns an owner into a watch with the same id and pid. *)
LEMMA ReapPids ==
    ASSUME IInv, PidsAgree(hosts), NEW pid \in Pids, Reap(pid)
    PROVE  PidsAgree(hosts)'
  <1>1. /\ owner[pid] # 0
        /\ owner' = [owner EXCEPT ![pid] = 0]
        /\ reaped' = reaped \cup {[id |-> owner[pid], pid |-> pid]}
        /\ UNCHANGED hosts
    BY DEF Reap
  <1>2. \A q \in Pids : owner'[q] = IF q = pid THEN 0 ELSE owner[q]
    BY <1>1 DEF IInv, TypeOK
  <1>3. \A w \in reaped' : w \in reaped \/ (w.id = owner[pid] /\ w.pid = pid)
    BY <1>1
  <1>4. QED
    BY <1>1, <1>2, <1>3 DEF PidsAgree

(* host_watch_cb's walk meets only entries that agree with the watch. *)
LEMMA WatchAssertHolds ==
    ASSUME PidsAgree(hosts), NEW w \in reaped
    PROVE  ~WatchAssertFails(w)
  BY DEF PidsAgree, WatchAssertFails, HasId

LEMMA NoReuseNext ==
    ASSUME PidReuse = FALSE, NoReuseInv, [Next]_vars
    PROVE  NoReuseInv'
  <1>1. IInv /\ PidsAgree(hosts) /\ aborted = FALSE
    BY DEF NoReuseInv, AssertionsHold, IInv, TypeOK
  <1>2. IInv'
    BY <1>1, NextIInv
  <1>3. \A i \in DOMAIN hosts : hosts[i].orphan => hosts[i].alive
    BY <1>1 DEF IInv, OrphansAlive
  <1> SUFFICES PidsAgree(hosts)' /\ ~aborted'
    BY <1>2 DEF NoReuseInv, AssertionsHold
  <1>4. ASSUME NEW hs, PidsAgree(hs), hosts' = hs, UNCHANGED owner, reaped' \subseteq reaped
        PROVE  PidsAgree(hosts)'
    BY <1>4 DEF PidsAgree
  <1>5. ASSUME NEW path \in Paths, launch_host_call(path)
        PROVE  PidsAgree(hosts)' /\ ~aborted'
    <2>1. UNCHANGED <<reaped, aborted>>
      BY <1>5 DEF launch_host_call
    <2>2. ASSUME NEW i \in DOMAIN hosts, LaunchRefused(path, i)
          PROVE  PidsAgree(hosts)'
      BY <1>1, <1>4, <2>1, <2>2 DEF LaunchRefused
    <2>3. ASSUME NEW hs, NEW run, SpawnFails(hs, run) \/ Spawn(path, hs, run),
                 TableInv(hs, run), PidsAgree(hs),
                 \A j \in DOMAIN hs : \E i \in DOMAIN hosts : hs[j] = hosts[i]
          PROVE  PidsAgree(hosts)'
      <3>1. CASE SpawnFails(hs, run)
        BY <1>4, <2>1, <2>3, <3>1 DEF SpawnFails
      <3>2. CASE Spawn(path, hs, run)
        BY <1>1, <2>1, <2>3, <3>2, SpawnPids
      <3>3. QED
        BY <2>3, <3>1, <3>2
    <2>4. ASSUME NEW i \in DOMAIN hosts, LaunchOverOrphan(path, i)
          PROVE  PidsAgree(hosts)'
      <3> DEFINE hs  == RemoveFast(hosts, i)
                 run == running \ free_host(hosts[i])
      <3>1. SpawnFails(hs, run) \/ Spawn(path, hs, run)
        BY <2>4 DEF LaunchOverOrphan
      <3>2. TableInv(hs, run) /\ PidsAgree(hs)
        BY <1>1, RemoveEntry, RemovePids
      <3>3. \A j \in DOMAIN hs : \E k \in DOMAIN hosts : hs[j] = hosts[k]
        BY <1>1, RemovedIsGone
      <3> HIDE DEF hs, run
      <3>4. QED
        BY <2>3, <3>1, <3>2, <3>3
    <2>5. ASSUME LaunchNew(path)
          PROVE  PidsAgree(hosts)'
      <3>1. TableInv(hosts, running)
        BY <1>1, IInvTable
      <3>2. QED
        BY <1>1, <2>3, <2>5, <3>1 DEF LaunchNew
    <2>6. QED
      BY <1>1, <1>5, <2>1, <2>2, <2>4, <2>5 DEF launch_host_call
  <1>6. ASSUME NEW path \in Paths, adopt_host_call(path)
        PROVE  PidsAgree(hosts)' /\ ~aborted'
    <2>1. UNCHANGED <<owner, reaped>>
      BY <1>6 DEF adopt_host_call
    <2>2. ASSUME NEW i \in DOMAIN hosts, AdoptAt(i, path)
          PROVE  PidsAgree(hosts)' /\ ~aborted'
      BY <1>1, <1>3, <1>4, <2>1, <2>2, FlagPids DEF AdoptAt
    <2>3. QED
      BY <1>1, <1>4, <1>6, <2>1, <2>2 DEF adopt_host_call, AdoptNothing
  <1>7. ASSUME NEW id \in Ids, kill_host_call(id)
        PROVE  PidsAgree(hosts)' /\ ~aborted'
    <2>1. UNCHANGED <<owner, reaped, aborted>>
      BY <1>7 DEF kill_host_call
    <2>2. PidsAgree(hosts')
      BY <1>1, <1>7, RemovePids DEF kill_host_call
    <2>3. QED
      BY <1>1, <1>4, <2>1, <2>2
  <1>8. ASSUME NEW id \in Ids, orphan_host_call(id)
        PROVE  PidsAgree(hosts)' /\ ~aborted'
    <2>1. UNCHANGED <<owner, reaped>>
      BY <1>8 DEF orphan_host_call
    <2>2. ASSUME NEW i \in DOMAIN hosts, OrphanRefused(i, id)
          PROVE  PidsAgree(hosts') /\ ~aborted'
      BY <1>1, <1>3, <2>2 DEF OrphanRefused
    <2>3. ASSUME NEW i \in DOMAIN hosts, OrphanDead(i, id)
          PROVE  PidsAgree(hosts') /\ ~aborted'
      BY <1>1, <2>3, RemovePids DEF OrphanDead
    <2>4. ASSUME NEW i \in DOMAIN hosts, OrphanLive(i, id)
          PROVE  PidsAgree(hosts') /\ ~aborted'
      BY <1>1, <2>4, FlagPids DEF OrphanLive
    <2>5. PidsAgree(hosts') /\ ~aborted'
      BY <1>1, <1>8, <2>2, <2>3, <2>4 DEF orphan_host_call, OrphanUnknown
    <2>6. QED
      BY <1>4, <2>1, <2>5
  <1>9. ASSUME NEW w \in reaped, host_watch_cb(w)
        PROVE  PidsAgree(hosts)' /\ ~aborted'
    <2>1. UNCHANGED owner /\ reaped' \subseteq reaped
      BY <1>9 DEF host_watch_cb
    <2>2. ~WatchAssertFails(w)
      BY <1>1, WatchAssertHolds
    <2>3. ASSUME NEW i \in DOMAIN hosts, WatchOrphan(i)
          PROVE  PidsAgree(hosts') /\ ~aborted'
      BY <1>1, <2>3, RemovePids DEF WatchOrphan
    <2>4. ASSUME NEW i \in DOMAIN hosts, WatchHeld(i)
          PROVE  PidsAgree(hosts') /\ ~aborted'
      BY <1>1, <1>3, <2>4, FlagPids DEF WatchHeld
    <2>5. PidsAgree(hosts') /\ ~aborted'
      BY <1>1, <1>9, <2>2, <2>3, <2>4 DEF host_watch_cb
    <2>6. QED
      BY <1>4, <2>1, <2>5
  <1>10. ASSUME NEW pid \in Pids, HostDies(pid)
         PROVE  PidsAgree(hosts)' /\ ~aborted'
    BY <1>1, <1>4, <1>10 DEF HostDies
  <1>11. ASSUME NEW pid \in Pids, Reap(pid)
         PROVE  PidsAgree(hosts)' /\ ~aborted'
    BY <1>1, <1>11, ReapPids DEF Reap
  <1>12. CASE UNCHANGED vars
    BY <1>1, <1>4, <1>12 DEF vars
  <1>13. QED
    BY <1>5, <1>6, <1>7, <1>8, <1>9, <1>10, <1>11, <1>12
    DEF Next, MainLoop, launch_method_call

LEMMA NoReuseInvariant ==
    ASSUME PidReuse = FALSE
    PROVE  Spec => []NoReuseInv
  <1>1. Init => NoReuseInv
    BY InitIInv DEF Init, NoReuseInv, PidsAgree, AssertionsHold
  <1>2. NoReuseInv /\ [Next]_vars => NoReuseInv'
    BY NoReuseNext
  <1>3. QED
    BY <1>1, <1>2, PTL DEF Spec

(* As long as the kernel does not recycle a pid that launch.c still       *)
(* remembers, none of its assertions fails: not the pid checks of         *)
(* host_watch_cb (77, 97), not the orphan checks (93, 264, 306).          *)
THEOREM LauncherAssertionsHold ==
    ASSUME PidReuse = FALSE
    PROVE  Spec => []AssertionsHold
  <1>1. NoReuseInv => AssertionsHold
    BY DEF NoReuseInv
  <1>2. QED
    BY <1>1, NoReuseInvariant, PTL

(* killpg(SIGKILL) of an entry hits the process of that entry's host or    *)
(* nothing: the running process with that pid belongs to the entry's id.   *)
LEMMA KillpgHitsOwner ==
    ASSUME NoReuseInv, NEW i \in DOMAIN hosts, NEW pid \in running, pid \in free_host(hosts[i])
    PROVE  owner[pid] = hosts[i].id
  <1>1. pid = hosts[i].pid
    BY DEF free_host
  <1>2. pid \in Pids /\ owner[pid] # 0
    BY DEF NoReuseInv, IInv, TypeOK, IdsUnique
  <1>3. QED
    BY <1>1, <1>2 DEF NoReuseInv, PidsAgree

(* A process that ends in a step of the launcher loses its entry in it. *)
LEMMA KillsStep ==
    ASSUME NoReuseInv, [Next]_vars, NEW pid \in running, pid \notin running'
    PROVE  HostDies(pid) \/ \A j \in DOMAIN hosts' : hosts'[j].id # owner[pid]
  <1>1. IInv
    BY DEF NoReuseInv
  <1>2. pid \in Pids /\ owner[pid] < nextHostId /\ owner[pid] \in Nat /\ nextHostId \in Nat
    BY <1>1 DEF IInv, TypeOK, IdsFresh
  <1>3. ASSUME NEW i \in DOMAIN hosts, hosts' = RemoveFast(hosts, i), pid \in free_host(hosts[i])
        PROVE  \A j \in DOMAIN hosts' : hosts'[j].id # owner[pid]
    BY <1>1, <1>3, KillpgHitsOwner, RemovedIsGone
  <1>4. ASSUME NEW path \in Paths, launch_host_call(path)
        PROVE  \A j \in DOMAIN hosts' : hosts'[j].id # owner[pid]
    <2>1. PICK i \in DOMAIN hosts : LaunchOverOrphan(path, i)
      BY <1>4 DEF launch_host_call, LaunchRefused, LaunchNew, SpawnFails, Spawn
    <2> DEFINE hs  == RemoveFast(hosts, i)
               run == running \ free_host(hosts[i])
    <2>2. SpawnFails(hs, run) \/ Spawn(path, hs, run)
      BY <2>1 DEF LaunchOverOrphan
    <2>3. pid \in free_host(hosts[i])
      BY <2>2 DEF SpawnFails, Spawn
    <2>4. \A j \in DOMAIN hs : hs[j].id # owner[pid]
      BY <1>1, <2>3, KillpgHitsOwner, RemovedIsGone
    <2>5. hs \in Seq(host_entry)
      BY <1>1, RemoveEntry DEF TableInv
    <2> HIDE DEF hs
    <2>6. CASE SpawnFails(hs, run)
      BY <2>4, <2>6 DEF SpawnFails
    <2>7. CASE Spawn(path, hs, run)
      <3>1. PICK q \in Pids :
              hosts' = Append(hs, [alive |-> TRUE, orphan |-> FALSE, id |-> nextHostId,
                                   pid |-> q, path |-> path])
        BY <2>7 DEF Spawn
      <3> DEFINE e == [alive |-> TRUE, orphan |-> FALSE, id |-> nextHostId, pid |-> q, path |-> path]
      <3>2. nextHostId \in Ids
        BY <1>1, <2>7, LauncherAssumption DEF Spawn, IInv, TypeOK, Ids
      <3>3. e \in host_entry /\ e.id = nextHostId
        BY <3>2 DEF host_entry
      <3>4. /\ DOMAIN hosts' = 1..(Len(hs) + 1)
            /\ DOMAIN hs = 1..Len(hs)
            /\ Len(hs) \in Nat
            /\ \A j \in 1..Len(hs) : hosts'[j] = hs[j]
            /\ hosts'[Len(hs) + 1] = e
        BY <2>5, <3>1, <3>3, AppendEntries
      <3> HIDE DEF e
      <3>5. QED
        BY <1>2, <2>4, <3>3, <3>4
    <2>8. QED
      BY <2>2, <2>6, <2>7
  <1>5. ASSUME NEW path \in Paths, adopt_host_call(path)
        PROVE  FALSE
    BY <1>5 DEF adopt_host_call
  <1>6. ASSUME NEW id \in Ids, kill_host_call(id)
        PROVE  \A j \in DOMAIN hosts' : hosts'[j].id # owner[pid]
    <2>1. PICK i \in DOMAIN hosts : /\ running' = running \ free_host(hosts[i])
                                    /\ hosts' = RemoveFast(hosts, i)
      BY <1>6 DEF kill_host_call
    <2>2. QED
      BY <1>3, <2>1
  <1>7. ASSUME NEW id \in Ids, orphan_host_call(id)
        PROVE  \A j \in DOMAIN hosts' : hosts'[j].id # owner[pid]
    <2>1. PICK i \in DOMAIN hosts : OrphanDead(i, id)
      BY <1>7 DEF orphan_host_call, OrphanRefused, OrphanLive, OrphanUnknown
    <2>2. QED
      BY <1>3, <2>1 DEF OrphanDead
  <1>8. ASSUME NEW w \in reaped, host_watch_cb(w)
        PROVE  \A j \in DOMAIN hosts' : hosts'[j].id # owner[pid]
    <2>1. PICK i \in DOMAIN hosts : WatchOrphan(i)
      BY <1>8 DEF host_watch_cb, WatchHeld
    <2>2. QED
      BY <1>3, <2>1 DEF WatchOrphan
  <1>9. ASSUME NEW q \in Pids, HostDies(q)
        PROVE  HostDies(pid)
    <2>1. q = pid
      BY <1>9 DEF HostDies
    <2>2. QED
      BY <1>9, <2>1
  <1>10. ASSUME NEW q \in Pids, Reap(q)
         PROVE  FALSE
    BY <1>10 DEF Reap
  <1>11. CASE UNCHANGED vars
    BY <1>11 DEF vars
  <1>12. QED
    BY <1>4, <1>5, <1>6, <1>7, <1>8, <1>9, <1>10, <1>11 DEF Next, MainLoop, launch_method_call

(* Without pid reuse, a step of the launcher ends a host process only by   *)
(* taking that host's own entry out of the table (free_host, launch.c:25). *)
THEOREM LauncherKillsOnlyItsHost ==
    ASSUME PidReuse = FALSE
    PROVE  Spec => KillsOnlyItsHost
  <1>1. NoReuseInv /\ [Next]_vars =>
           [\A pid \in running \ running' :
               HostDies(pid) \/ \A i \in DOMAIN hosts' : hosts'[i].id # owner[pid]]_vars
    BY KillsStep
  <1>2. QED
    BY <1>1, NoReuseInvariant, PTL DEF Spec, KillsOnlyItsHost

-----------------------------------------------------------------------------
(***************************************************************************)
(* The launcher's table implements one slot per device: every step of      *)
(* HostLauncher is a step of HostSlots or leaves the slots alone.  The     *)
(* argument needs only the invariant above, so it holds with pid reuse     *)
(* too.                                                                    *)
(***************************************************************************)

(* The slots that a table with distinct paths stands for. *)
EntrySlot(e) == [id |-> e.id, st |-> IF e.orphan THEN "orphan"
                                     ELSE IF e.alive THEN "held" ELSE "dead"]

MapOf(hs) ==
    [p \in Paths |-> IF \E i \in DOMAIN hs : hs[i].path = p
                     THEN EntrySlot(hs[CHOOSE i \in DOMAIN hs : hs[i].path = p])
                     ELSE [id |-> 0, st |-> "free"]]

Distinct(hs) == /\ hs \in Seq(host_entry)
                /\ \A i, j \in DOMAIN hs : hs[i].path = hs[j].path => i = j

slotbar   == [path \in Paths |-> SlotOf(path)]
issuedbar == 1..(nextHostId - 1)

-----------------------------------------------------------------------------
LEMMA EntryFacts ==
    ASSUME NEW hs \in Seq(host_entry), NEW i \in DOMAIN hs
    PROVE  /\ hs[i] \in host_entry /\ hs[i].path \in Paths /\ hs[i].id \in Ids
           /\ hs[i].orphan \in BOOLEAN /\ hs[i].alive \in BOOLEAN
  <1>1. hs[i] \in host_entry
    OBVIOUS
  <1>2. QED
    BY <1>1 DEF host_entry

(* What the slots say of each entry, and of a path without one. *)
LEMMA MapFacts ==
    ASSUME NEW hs, Distinct(hs)
    PROVE  /\ DOMAIN MapOf(hs) = Paths
           /\ \A i \in DOMAIN hs : MapOf(hs)[hs[i].path] = EntrySlot(hs[i])
           /\ \A p \in Paths : (\A i \in DOMAIN hs : hs[i].path # p)
                                  => MapOf(hs)[p] = [id |-> 0, st |-> "free"]
  <1>1. ASSUME NEW i \in DOMAIN hs
        PROVE  MapOf(hs)[hs[i].path] = EntrySlot(hs[i])
    <2> DEFINE k == CHOOSE j \in DOMAIN hs : hs[j].path = hs[i].path
    <2>1. k \in DOMAIN hs /\ hs[k].path = hs[i].path
      OBVIOUS
    <2>2. k = i
      BY <2>1 DEF Distinct
    <2>3. hs[i].path \in Paths
      BY EntryFacts DEF Distinct
    <2>4. MapOf(hs)[hs[i].path] = EntrySlot(hs[k])
      BY <2>3 DEF MapOf
    <2>5. QED
      BY <2>2, <2>4
  <1>2. QED
    BY <1>1 DEF MapOf

LEMMA SlotsOfTable == IInv => slotbar = MapOf(hosts) /\ Distinct(hosts)
  <1> SUFFICES ASSUME IInv PROVE slotbar = MapOf(hosts) /\ Distinct(hosts)
    OBVIOUS
  <1>1. Distinct(hosts)
    BY DEF IInv, TypeOK, UniquePath, Distinct
  <1>2. ASSUME NEW p \in Paths
        PROVE  SlotOf(p) = MapOf(hosts)[p]
    <2> DEFINE here == {i \in DOMAIN hosts : hosts[i].path = p}
    <2>1. CASE here = {}
      BY <1>1, <2>1, MapFacts DEF SlotOf
    <2>2. CASE here # {}
      <3> DEFINE k == CHOOSE i \in here : TRUE
      <3>1. k \in here
        BY <2>2
      <3>2. SlotOf(p) = EntrySlot(hosts[k])
        BY <2>2 DEF SlotOf, EntrySlot
      <3> HIDE DEF k
      <3>3. k \in DOMAIN hosts /\ hosts[k].path = p
        BY <3>1
      <3>4. QED
        BY <1>1, <3>2, <3>3, MapFacts
    <2>3. QED
      BY <2>1, <2>2
  <1>3. slotbar = MapOf(hosts)
    BY <1>2 DEF slotbar, MapOf
  <1>4. QED
    BY <1>1, <1>3

-----------------------------------------------------------------------------
(* What the three ways of changing the table do to the slots. *)

LEMMA RemoveSlot ==
    ASSUME NEW hs, Distinct(hs), NEW i \in DOMAIN hs, Distinct(RemoveFast(hs, i))
    PROVE  MapOf(RemoveFast(hs, i)) = [MapOf(hs) EXCEPT ![hs[i].path] = [id |-> 0, st |-> "free"]]
  <1> DEFINE r == RemoveFast(hs, i)
  <1>1. hs \in Seq(host_entry) /\ hs[i].path \in Paths
    BY EntryFacts DEF Distinct
  <1>2. Len(hs) \in Nat /\ DOMAIN hs = 1..Len(hs)
    BY <1>1
  <1>3. /\ DOMAIN r = 1..(Len(hs) - 1)
        /\ \A j \in DOMAIN r : r[j] = hs[IF j = i THEN Len(hs) ELSE j]
        /\ \A k \in DOMAIN hs : k # i => \E j \in DOMAIN r : r[j] = hs[k]
    BY <1>1, RemoveFastEntries
  <1>4. \A j \in DOMAIN r : \E k \in DOMAIN hs : k # i /\ r[j] = hs[k]
    BY <1>2, <1>3
  <1> HIDE DEF r
  <1>5. ASSUME NEW p \in Paths
        PROVE  MapOf(r)[p] = IF p = hs[i].path THEN [id |-> 0, st |-> "free"] ELSE MapOf(hs)[p]
    <2>1. CASE p = hs[i].path
      <3>1. \A j \in DOMAIN r : r[j].path # p
        BY <1>4, <2>1 DEF Distinct
      <3>2. QED
        BY <2>1, <3>1, MapFacts DEF r
    <2>2. CASE p # hs[i].path /\ \E k \in DOMAIN hs : hs[k].path = p
      <3>1. PICK k \in DOMAIN hs : hs[k].path = p
        BY <2>2
      <3>2. PICK j \in DOMAIN r : r[j] = hs[k]
        BY <1>3, <2>2, <3>1
      <3>3. MapOf(r)[p] = EntrySlot(hs[k]) /\ MapOf(hs)[p] = EntrySlot(hs[k])
        BY <3>1, <3>2, MapFacts DEF r
      <3>4. QED
        BY <2>2, <3>3
    <2>3. CASE \A k \in DOMAIN hs : hs[k].path # p
      <3>1. \A j \in DOMAIN r : r[j].path # p
        BY <1>4, <2>3
      <3>2. MapOf(r)[p] = [id |-> 0, st |-> "free"] /\ MapOf(hs)[p] = [id |-> 0, st |-> "free"]
        BY <2>3, <3>1, MapFacts DEF r
      <3>3. QED
        BY <2>3, <3>2
    <2>4. QED
      BY <2>1, <2>2, <2>3
  <1>6. QED
    BY <1>1, <1>5 DEF MapOf, r

LEMMA ChangeSlot ==
    ASSUME NEW hs, Distinct(hs), NEW i \in DOMAIN hs, NEW e \in host_entry, e.path = hs[i].path
    PROVE  MapOf([hs EXCEPT ![i] = e]) = [MapOf(hs) EXCEPT ![hs[i].path] = EntrySlot(e)]
  <1> DEFINE r == [hs EXCEPT ![i] = e]
  <1>1. hs \in Seq(host_entry) /\ hs[i].path \in Paths
    BY EntryFacts DEF Distinct
  <1>2. /\ r \in Seq(host_entry) /\ DOMAIN r = DOMAIN hs /\ r[i] = e
        /\ \A j \in DOMAIN hs : j # i => r[j] = hs[j]
    BY <1>1
  <1> HIDE DEF r
  <1>3. \A j \in DOMAIN hs : r[j].path = hs[j].path
    BY <1>2
  <1>4. Distinct(r)
    BY <1>2, <1>3 DEF Distinct
  <1>5. ASSUME NEW p \in Paths
        PROVE  MapOf(r)[p] = IF p = hs[i].path THEN EntrySlot(e) ELSE MapOf(hs)[p]
    <2>1. CASE p = hs[i].path
      BY <1>2, <1>3, <1>4, <2>1, MapFacts
    <2>2. CASE p # hs[i].path /\ \E k \in DOMAIN hs : hs[k].path = p
      <3>1. PICK k \in DOMAIN hs : hs[k].path = p
        BY <2>2
      <3>2. r[k] = hs[k]
        BY <1>2, <2>2, <3>1
      <3>3. MapOf(r)[p] = EntrySlot(hs[k]) /\ MapOf(hs)[p] = EntrySlot(hs[k])
        BY <1>2, <1>4, <3>1, <3>2, MapFacts
      <3>4. QED
        BY <2>2, <3>3
    <2>3. CASE \A k \in DOMAIN hs : hs[k].path # p
      <3>1. MapOf(r)[p] = [id |-> 0, st |-> "free"] /\ MapOf(hs)[p] = [id |-> 0, st |-> "free"]
        BY <1>2, <1>3, <1>4, <2>3, MapFacts
      <3>2. QED
        BY <2>3, <3>1
    <2>4. QED
      BY <2>1, <2>2, <2>3
  <1>6. QED
    BY <1>1, <1>5 DEF MapOf, r

LEMMA AppendSlot ==
    ASSUME NEW hs, Distinct(hs), NEW e \in host_entry, \A j \in DOMAIN hs : hs[j].path # e.path
    PROVE  MapOf(Append(hs, e)) = [MapOf(hs) EXCEPT ![e.path] = EntrySlot(e)]
  <1> DEFINE r == Append(hs, e)
  <1>1. hs \in Seq(host_entry) /\ e.path \in Paths
    BY DEF Distinct, host_entry
  <1>2. /\ r \in Seq(host_entry)
        /\ DOMAIN r = 1..(Len(hs) + 1)
        /\ DOMAIN hs = 1..Len(hs)
        /\ Len(hs) \in Nat
        /\ \A j \in 1..Len(hs) : r[j] = hs[j]
        /\ r[Len(hs) + 1] = e
    BY <1>1, AppendEntries
  <1> HIDE DEF r
  <1>3. Distinct(r)
    BY <1>2 DEF Distinct
  <1>4. ASSUME NEW p \in Paths
        PROVE  MapOf(r)[p] = IF p = e.path THEN EntrySlot(e) ELSE MapOf(hs)[p]
    <2>1. CASE p = e.path
      <3>1. Len(hs) + 1 \in DOMAIN r
        BY <1>2
      <3>2. QED
        BY <1>2, <1>3, <2>1, <3>1, MapFacts
    <2>2. CASE p # e.path /\ \E k \in DOMAIN hs : hs[k].path = p
      <3>1. PICK k \in DOMAIN hs : hs[k].path = p
        BY <2>2
      <3>2. k \in DOMAIN r /\ r[k] = hs[k]
        BY <1>2
      <3>3. MapOf(r)[p] = EntrySlot(hs[k]) /\ MapOf(hs)[p] = EntrySlot(hs[k])
        BY <1>3, <3>1, <3>2, MapFacts
      <3>4. QED
        BY <2>2, <3>3
    <2>3. CASE p # e.path /\ \A k \in DOMAIN hs : hs[k].path # p
      <3>1. \A j \in DOMAIN r : r[j].path # p
        BY <1>2, <2>3
      <3>2. MapOf(r)[p] = [id |-> 0, st |-> "free"] /\ MapOf(hs)[p] = [id |-> 0, st |-> "free"]
        BY <1>3, <2>3, <3>1, MapFacts
      <3>3. QED
        BY <2>3, <3>2
    <2>4. QED
      BY <2>1, <2>2, <2>3
  <1>5. QED
    BY <1>1, <1>4 DEF MapOf, r

-----------------------------------------------------------------------------
(* The step lemmas take the slots before and after as MapOf of the tables. *)

LEMMA LaunchSlots ==
    ASSUME IInv, IInv', NEW path \in Paths, launch_host_call(path)
    PROVE  Slots!Launch(path)
  <1> DEFINE Free == [id |-> 0, st |-> "free"]
  <1>1. slotbar = MapOf(hosts) /\ Distinct(hosts)
    BY SlotsOfTable
  <1>2. slotbar' = MapOf(hosts') /\ Distinct(hosts')
    <2>1. (slotbar = MapOf(hosts) /\ Distinct(hosts))'
      BY SlotsOfTable, PTL
    <2>2. QED
      BY <2>1 DEF MapOf, Distinct
  <1>3. UNCHANGED signals /\ nextHostId \in 1..(MaxId + 1)
    BY DEF launch_host_call, IInv, TypeOK
  <1>4. ASSUME NEW i \in DOMAIN hosts, FirstWithPath(i, path)
        PROVE  hosts[i].path = path /\ slotbar[path] = EntrySlot(hosts[i])
    BY <1>1, <1>4, MapFacts DEF FirstWithPath, HasPath
  <1>5. ASSUME NEW i \in DOMAIN hosts, LaunchRefused(path, i)
        PROVE  Slots!Launch(path)
    <2>1. slotbar[path] = EntrySlot(hosts[i]) /\ ~hosts[i].orphan
      BY <1>4, <1>5 DEF LaunchRefused
    <2>2. slotbar[path].st \in {"held", "dead"}
      BY <2>1 DEF EntrySlot
    <2>3. /\ reply' = [res |-> "in_use", id |-> 0]
          /\ slotbar' = slotbar /\ issuedbar' = issuedbar
      BY <1>1, <1>2, <1>5 DEF LaunchRefused, Reply, issuedbar
    <2>4. QED
      BY <1>3, <2>2, <2>3 DEF Slots!Launch, Slots!Answer, slotbar, issuedbar
  <1>6. ASSUME NEW hs, NEW run, SpawnFails(hs, run) \/ Spawn(path, hs, run),
               Distinct(hs), \A j \in DOMAIN hs : hs[j].path # path,
               slotbar[path].st \in {"free", "orphan"},
               MapOf(hs) = [slotbar EXCEPT ![path] = Free]
        PROVE  Slots!Launch(path)
    <2>1. CASE SpawnFails(hs, run)
      <3>1. /\ slotbar' = [slotbar EXCEPT ![path] = Free] /\ issuedbar' = issuedbar
            /\ reply' = [res |-> "failed", id |-> 0]
        BY <1>2, <1>6, <2>1 DEF SpawnFails, Reply, issuedbar
      <3>2. QED
        BY <1>3, <1>6, <3>1 DEF Slots!Launch, Slots!Answer, Slots!Free, slotbar, issuedbar
    <2>2. CASE Spawn(path, hs, run)
      <3>1. PICK pid \in Pids :
              hosts' = Append(hs, [alive |-> TRUE, orphan |-> FALSE, id |-> nextHostId,
                                   pid |-> pid, path |-> path])
        BY <2>2 DEF Spawn
      <3> DEFINE e == [alive |-> TRUE, orphan |-> FALSE, id |-> nextHostId, pid |-> pid, path |-> path]
      <3>2. /\ nextHostId \in Ids /\ nextHostId' = nextHostId + 1
            /\ reply' = [res |-> "ok", id |-> nextHostId]
        BY <1>3, <2>2, LauncherAssumption DEF Spawn, Reply, Ids
      <3>3. e \in host_entry /\ e.path = path /\ EntrySlot(e) = [id |-> nextHostId, st |-> "held"]
        BY <3>2 DEF host_entry, EntrySlot
      <3>4. slotbar' = [MapOf(hs) EXCEPT ![path] = [id |-> nextHostId, st |-> "held"]]
        <4>1. hosts' = Append(hs, e)
          BY <3>1
        <4> HIDE DEF e
        <4>2. MapOf(Append(hs, e)) = [MapOf(hs) EXCEPT ![e.path] = EntrySlot(e)]
          BY <1>6, <3>3, AppendSlot
        <4>3. QED
          BY <1>2, <3>3, <4>1, <4>2
      <3>5. slotbar' = [slotbar EXCEPT ![path] = [id |-> nextHostId, st |-> "held"]]
        BY <1>6, <3>4
      <3>6. /\ nextHostId \in (1..MaxId) \ issuedbar
            /\ issuedbar' = issuedbar \cup {nextHostId}
        BY <3>2, LauncherAssumption DEF Ids, issuedbar
      <3>7. QED
        BY <1>3, <1>6, <3>2, <3>5, <3>6 DEF Slots!Launch, Slots!Answer, slotbar, issuedbar
    <2>3. QED
      BY <1>6, <2>1, <2>2
  <1>7. ASSUME NEW i \in DOMAIN hosts, LaunchOverOrphan(path, i)
        PROVE  Slots!Launch(path)
    <2> DEFINE hs  == RemoveFast(hosts, i)
               run == running \ free_host(hosts[i])
    <2>1. SpawnFails(hs, run) \/ Spawn(path, hs, run)
      BY <1>7 DEF LaunchOverOrphan
    <2>2. Distinct(hs)
      BY RemoveEntry DEF TableInv, Distinct
    <2>3. hosts[i].path = path /\ slotbar[path] = EntrySlot(hosts[i]) /\ hosts[i].orphan
      BY <1>4, <1>7 DEF LaunchOverOrphan
    <2>4. slotbar[path].st \in {"free", "orphan"}
      BY <2>3 DEF EntrySlot
    <2>5. MapOf(hs) = [slotbar EXCEPT ![path] = Free]
      BY <1>1, <2>2, <2>3, RemoveSlot
    <2>6. \A j \in DOMAIN hs : hs[j].path # path
      BY <1>1, <2>3, RemovedIsGone DEF Distinct
    <2> HIDE DEF hs, run
    <2>7. QED
      BY <1>6, <2>1, <2>2, <2>4, <2>5, <2>6
  <1>8. ASSUME LaunchNew(path)
        PROVE  Slots!Launch(path)
    <2>1. \A j \in DOMAIN hosts : hosts[j].path # path
      BY <1>8 DEF LaunchNew, HasPath
    <2>2. slotbar[path] = Free
      BY <1>1, <2>1, MapFacts
    <2>3. MapOf(hosts) = [slotbar EXCEPT ![path] = Free]
      BY <1>1, <2>2 DEF MapOf
    <2>4. SpawnFails(hosts, running) \/ Spawn(path, hosts, running)
      BY <1>8 DEF LaunchNew
    <2>5. slotbar[path].st \in {"free", "orphan"}
      BY <2>2
    <2>6. QED
      BY <1>1, <1>6, <2>1, <2>3, <2>4, <2>5
  <1>9. QED
    BY <1>5, <1>7, <1>8 DEF launch_host_call

(* Setting the orphan or the alive flag of an entry. *)
LEMMA FlagSlot ==
    ASSUME IInv, NEW i \in DOMAIN hosts, NEW b \in BOOLEAN
    PROVE  /\ MapOf([hosts EXCEPT ![i].orphan = b]) =
                [MapOf(hosts) EXCEPT ![hosts[i].path] =
                    EntrySlot([hosts[i] EXCEPT !.orphan = b])]
           /\ MapOf([hosts EXCEPT ![i].alive = b]) =
                [MapOf(hosts) EXCEPT ![hosts[i].path] =
                    EntrySlot([hosts[i] EXCEPT !.alive = b])]
  <1>1. Distinct(hosts)
    BY SlotsOfTable
  <1>2. hosts[i] \in host_entry
    BY <1>1, EntryFacts DEF Distinct
  <1>3. /\ [hosts[i] EXCEPT !.orphan = b] \in host_entry
        /\ [hosts[i] EXCEPT !.orphan = b].path = hosts[i].path
        /\ [hosts[i] EXCEPT !.alive = b] \in host_entry
        /\ [hosts[i] EXCEPT !.alive = b].path = hosts[i].path
    BY <1>2 DEF host_entry
  <1>4. MapOf([hosts EXCEPT ![i] = [hosts[i] EXCEPT !.orphan = b]]) =
          [MapOf(hosts) EXCEPT ![hosts[i].path] = EntrySlot([hosts[i] EXCEPT !.orphan = b])]
    BY <1>1, <1>3, ChangeSlot
  <1>5. MapOf([hosts EXCEPT ![i] = [hosts[i] EXCEPT !.alive = b]]) =
          [MapOf(hosts) EXCEPT ![hosts[i].path] = EntrySlot([hosts[i] EXCEPT !.alive = b])]
    BY <1>1, <1>3, ChangeSlot
  <1>6. QED
    BY <1>4, <1>5

(* Facts every other step uses. *)
LEMMA SlotFacts ==
    ASSUME IInv, IInv'
    PROVE  /\ slotbar = MapOf(hosts) /\ slotbar' = MapOf(hosts')
           /\ Distinct(hosts) /\ Distinct(hosts')
           /\ \A i \in DOMAIN hosts : /\ hosts[i].path \in Paths /\ hosts[i].id \in Ids
                                      /\ hosts[i].orphan \in BOOLEAN /\ hosts[i].alive \in BOOLEAN
                                      /\ slotbar[hosts[i].path] = EntrySlot(hosts[i])
                                      /\ slotbar[hosts[i].path].id = hosts[i].id
                                      /\ slotbar[hosts[i].path].st =
                                           IF hosts[i].orphan THEN "orphan"
                                           ELSE IF hosts[i].alive THEN "held" ELSE "dead"
           /\ \A p \in Paths : \/ slotbar[p] = [id |-> 0, st |-> "free"]
                               \/ \E i \in DOMAIN hosts : hosts[i].path = p
  <1>1. slotbar = MapOf(hosts) /\ Distinct(hosts)
    BY SlotsOfTable
  <1>2. slotbar' = MapOf(hosts') /\ Distinct(hosts')
    <2>1. (slotbar = MapOf(hosts) /\ Distinct(hosts))'
      BY SlotsOfTable, PTL
    <2>2. QED
      BY <2>1 DEF MapOf, Distinct
  <1>3. \A i \in DOMAIN hosts : /\ hosts[i].path \in Paths /\ hosts[i].id \in Ids
                                /\ hosts[i].orphan \in BOOLEAN /\ hosts[i].alive \in BOOLEAN
    BY <1>1, EntryFacts DEF Distinct
  <1>4. \A i \in DOMAIN hosts : slotbar[hosts[i].path] = EntrySlot(hosts[i])
    BY <1>1, MapFacts
  <1>5. \A i \in DOMAIN hosts :
           /\ slotbar[hosts[i].path].id = hosts[i].id
           /\ slotbar[hosts[i].path].st = IF hosts[i].orphan THEN "orphan"
                                          ELSE IF hosts[i].alive THEN "held" ELSE "dead"
    <2>1. \A e : /\ EntrySlot(e).id = e.id
                 /\ EntrySlot(e).st = IF e.orphan THEN "orphan" ELSE IF e.alive THEN "held" ELSE "dead"
      BY DEF EntrySlot
    <2>2. QED
      BY <1>4, <2>1
  <1>6. \A p \in Paths : \/ slotbar[p] = [id |-> 0, st |-> "free"]
                         \/ \E i \in DOMAIN hosts : hosts[i].path = p
    BY <1>1, MapFacts
  <1>7. QED
    BY <1>1, <1>2, <1>3, <1>4, <1>5, <1>6

(* Ids name entries and slots alike. *)
LEMMA UnknownSlots ==
    ASSUME IInv, IInv', NEW id \in Ids, ~KnownId(id)
    PROVE  \A p \in Paths : slotbar[p].id # id
  <1>1. \A i \in DOMAIN hosts : hosts[i].id # id
    BY DEF KnownId, HasId
  <1>2. ASSUME NEW p \in Paths
        PROVE  slotbar[p].id # id
    <2>1. CASE slotbar[p] = [id |-> 0, st |-> "free"]
      BY <2>1 DEF Ids
    <2>2. ASSUME NEW i \in DOMAIN hosts, hosts[i].path = p
          PROVE  slotbar[p].id # id
      BY <1>1, <2>2, SlotFacts
    <2>3. QED
      BY <2>1, <2>2, SlotFacts
  <1>3. QED
    BY <1>2

LEMMA KillSlots ==
    ASSUME IInv, IInv', NEW id \in Ids, kill_host_call(id)
    PROVE  Slots!Kill(id)
  <1>1. UNCHANGED <<issuedbar, signals>>
    BY DEF kill_host_call, issuedbar
  <1>2. ASSUME NEW i \in DOMAIN hosts, HasId(i, id), hosts' = RemoveFast(hosts, i), Reply("ok", id)
        PROVE  Slots!Kill(id)
    <2>1. hosts[i].path \in Paths /\ slotbar[hosts[i].path].id = id
      BY <1>2, SlotFacts DEF HasId
    <2>2. slotbar' = [slotbar EXCEPT ![hosts[i].path] = [id |-> 0, st |-> "free"]]
      BY <1>2, SlotFacts, RemoveSlot
    <2>3. QED
      BY <1>1, <1>2, <2>1, <2>2 DEF Slots!Kill, Slots!Answer, Slots!Free, Reply, slotbar, issuedbar
  <1>3. ASSUME ~KnownId(id), Reply("unknown", id), UNCHANGED hosts
        PROVE  Slots!Kill(id)
    <2>1. \A p \in Paths : slotbar[p].id # id
      BY <1>3, UnknownSlots
    <2>2. slotbar' = slotbar
      BY <1>3, SlotFacts
    <2>3. QED
      BY <1>1, <1>3, <2>1, <2>2 DEF Slots!Kill, Slots!Answer, Reply, slotbar, issuedbar
  <1>4. QED
    BY <1>2, <1>3 DEF kill_host_call

LEMMA AdoptSlots ==
    ASSUME IInv, IInv', NEW path \in Paths, adopt_host_call(path)
    PROVE  Slots!Adopt(path)
  <1>1. UNCHANGED <<issuedbar, signals>>
    BY DEF adopt_host_call, issuedbar
  <1>2. ASSUME NEW i \in DOMAIN hosts, AdoptAt(i, path)
        PROVE  Slots!Adopt(path)
    <2>1. hosts[i].path = path /\ hosts[i].orphan /\ hosts[i].alive
      BY <1>2 DEF AdoptAt, HasPath, IInv, OrphansAlive
    <2>2. slotbar[path] = [id |-> hosts[i].id, st |-> "orphan"]
      BY <2>1, SlotFacts DEF EntrySlot
    <2>3. hosts[i] \in host_entry
      BY SlotFacts, EntryFacts DEF Distinct
    <2>4. EntrySlot([hosts[i] EXCEPT !.orphan = FALSE]) = [id |-> hosts[i].id, st |-> "held"]
      BY <2>1, <2>3 DEF EntrySlot, host_entry
    <2>5. slotbar' = [slotbar EXCEPT ![path] = [id |-> hosts[i].id, st |-> "held"]]
      BY <1>2, <2>1, <2>4, FlagSlot, SlotFacts DEF AdoptAt
    <2>6. slotbar' = [slotbar EXCEPT ![path].st = "held"]
      <3>1. [slotbar[path] EXCEPT !.st = "held"] = [id |-> hosts[i].id, st |-> "held"]
        BY <2>2
      <3>2. QED
        BY <2>5, <3>1
    <2>7. QED
      BY <1>1, <1>2, <2>2, <2>6 DEF Slots!Adopt, Slots!Answer, AdoptAt, Reply, slotbar, issuedbar
  <1>3. ASSUME AdoptNothing(path)
        PROVE  Slots!Adopt(path)
    <2>1. slotbar' = slotbar
      BY <1>3, SlotFacts DEF AdoptNothing
    <2>2. slotbar[path].st # "orphan"
      <3>1. ASSUME NEW i \in DOMAIN hosts, hosts[i].path = path
            PROVE  slotbar[path].st # "orphan"
        BY <1>3, <3>1, SlotFacts DEF AdoptNothing, HasPath
      <3>2. QED
        BY <3>1, SlotFacts
    <2>3. QED
      BY <1>1, <1>3, <2>1, <2>2 DEF Slots!Adopt, Slots!Answer, AdoptNothing, Reply, slotbar,
                                    issuedbar
  <1>4. QED
    BY <1>2, <1>3 DEF adopt_host_call

LEMMA OrphanSlots ==
    ASSUME IInv, IInv', NEW id \in Ids, orphan_host_call(id)
    PROVE  Slots!Orphan(id)
  <1>1. UNCHANGED <<issuedbar, signals>>
    BY DEF orphan_host_call, issuedbar
  <1>2. ASSUME NEW i \in DOMAIN hosts, HasId(i, id), OrphanRefused(i, id)
        PROVE  Slots!Orphan(id)
    <2>1. /\ hosts[i].path \in Paths /\ slotbar[hosts[i].path].id = id
          /\ slotbar[hosts[i].path].st = "orphan"
      BY <1>2, SlotFacts DEF HasId, OrphanRefused
    <2>2. slotbar' = slotbar
      BY <1>2, SlotFacts DEF OrphanRefused
    <2>3. QED
      BY <1>1, <1>2, <2>1, <2>2 DEF Slots!Orphan, Slots!Answer, OrphanRefused, Reply, slotbar,
                                    issuedbar
  <1>3. ASSUME NEW i \in DOMAIN hosts, HasId(i, id), OrphanDead(i, id)
        PROVE  Slots!Orphan(id)
    <2>1. /\ hosts[i].path \in Paths /\ slotbar[hosts[i].path].id = id
          /\ slotbar[hosts[i].path].st = "dead"
      BY <1>3, SlotFacts DEF HasId, OrphanDead
    <2>2. slotbar' = [slotbar EXCEPT ![hosts[i].path] = [id |-> 0, st |-> "free"]]
      BY <1>3, SlotFacts, RemoveSlot DEF OrphanDead
    <2>3. QED
      BY <1>1, <1>3, <2>1, <2>2
      DEF Slots!Orphan, Slots!Answer, Slots!Free, OrphanDead, Reply, slotbar, issuedbar
  <1>4. ASSUME NEW i \in DOMAIN hosts, HasId(i, id), OrphanLive(i, id)
        PROVE  Slots!Orphan(id)
    <2>1. /\ hosts[i].path \in Paths /\ slotbar[hosts[i].path].id = id
          /\ slotbar[hosts[i].path].st = "held"
      BY <1>4, SlotFacts DEF HasId, OrphanLive
    <2>2. hosts[i] \in host_entry
      BY SlotFacts, EntryFacts DEF Distinct
    <2>3. EntrySlot([hosts[i] EXCEPT !.orphan = TRUE]) = [id |-> hosts[i].id, st |-> "orphan"]
      BY <2>2 DEF EntrySlot, host_entry
    <2>4. slotbar' = [slotbar EXCEPT ![hosts[i].path] = [id |-> hosts[i].id, st |-> "orphan"]]
      BY <1>4, <2>3, FlagSlot, SlotFacts DEF OrphanLive
    <2>5. slotbar[hosts[i].path] = [id |-> hosts[i].id, st |-> "held"]
      <3>1. slotbar[hosts[i].path] = EntrySlot(hosts[i])
        BY SlotFacts
      <3>2. QED
        BY <1>4, <3>1 DEF EntrySlot, OrphanLive
    <2>6. [slotbar[hosts[i].path] EXCEPT !.st = "orphan"] = [id |-> hosts[i].id, st |-> "orphan"]
      BY <2>5
    <2>7. slotbar' = [slotbar EXCEPT ![hosts[i].path].st = "orphan"]
      BY <2>4, <2>6
    <2>8. QED
      BY <1>1, <1>4, <2>1, <2>7 DEF Slots!Orphan, Slots!Answer, OrphanLive, Reply, slotbar,
                                    issuedbar
  <1>5. ASSUME OrphanUnknown(id)
        PROVE  Slots!Orphan(id)
    <2>1. \A p \in Paths : slotbar[p].id # id
      BY <1>5, UnknownSlots DEF OrphanUnknown
    <2>2. slotbar' = slotbar
      BY <1>5, SlotFacts DEF OrphanUnknown
    <2>3. QED
      BY <1>1, <1>5, <2>1, <2>2 DEF Slots!Orphan, Slots!Answer, OrphanUnknown, Reply, slotbar,
                                    issuedbar
  <1>6. QED
    BY <1>2, <1>3, <1>4, <1>5 DEF orphan_host_call

(* A dispatched watch is the death of a host, or changes no slot: the      *)
(* entry was taken out before, the death was announced before, or the      *)
(* launcher aborts.                                                        *)
LEMMA WatchSlots ==
    ASSUME IInv, IInv', NEW w \in reaped, host_watch_cb(w)
    PROVE  (\E p \in Paths : Slots!Die(p)) \/ UNCHANGED <<slotbar, issuedbar, signals, reply>>
  <1>1. UNCHANGED <<issuedbar, reply>>
    BY DEF host_watch_cb, issuedbar
  <1>2. CASE UNCHANGED <<hosts, signals>>
    BY <1>1, <1>2, SlotFacts
  <1>3. ASSUME NEW i \in DOMAIN hosts, WatchOrphan(i)
        PROVE  \E p \in Paths : Slots!Die(p)
    <2>1. hosts[i].path \in Paths /\ slotbar[hosts[i].path].st = "orphan"
      BY <1>3, SlotFacts DEF WatchOrphan
    <2>2. slotbar' = [slotbar EXCEPT ![hosts[i].path] = [id |-> 0, st |-> "free"]]
      BY <1>3, SlotFacts, RemoveSlot DEF WatchOrphan
    <2>3. Slots!Die(hosts[i].path)
      BY <1>1, <1>3, <2>1, <2>2 DEF Slots!Die, Slots!Free, WatchOrphan, slotbar, issuedbar
    <2>4. QED
      BY <2>1, <2>3
  <1>4. ASSUME NEW i \in DOMAIN hosts, WatchHeld(i)
        PROVE  (\E p \in Paths : Slots!Die(p)) \/ UNCHANGED <<slotbar, issuedbar, signals, reply>>
    <2>1. hosts[i] \in host_entry /\ hosts \in Seq(host_entry)
      BY SlotFacts, EntryFacts DEF Distinct
    <2>2. ~hosts[i].orphan /\ hosts[i].alive \in BOOLEAN
      BY <1>4, SlotFacts DEF WatchHeld, IInv, OrphansAlive
    <2>3. CASE hosts[i].alive
      <3>1. /\ hosts[i].path \in Paths /\ slotbar[hosts[i].path].st = "held"
            /\ slotbar[hosts[i].path].id = hosts[i].id
        BY <2>2, <2>3, SlotFacts
      <3>2. EntrySlot([hosts[i] EXCEPT !.alive = FALSE]) = [id |-> hosts[i].id, st |-> "dead"]
        BY <2>1, <2>2 DEF EntrySlot, host_entry
      <3>3. slotbar' = [slotbar EXCEPT ![hosts[i].path] = [id |-> hosts[i].id, st |-> "dead"]]
        BY <1>4, <3>2, FlagSlot, SlotFacts DEF WatchHeld
      <3>4. slotbar[hosts[i].path] = [id |-> hosts[i].id, st |-> "held"]
        <4>1. slotbar[hosts[i].path] = EntrySlot(hosts[i])
          BY SlotFacts
        <4>2. QED
          BY <2>2, <2>3, <4>1 DEF EntrySlot
      <3>5. [slotbar[hosts[i].path] EXCEPT !.st = "dead"] = [id |-> hosts[i].id, st |-> "dead"]
        BY <3>4
      <3>6. slotbar' = [slotbar EXCEPT ![hosts[i].path].st = "dead"]
        BY <3>3, <3>5
      <3>7. signals' = Append(signals, slotbar[hosts[i].path].id)
        BY <1>4, <2>3, <3>1 DEF WatchHeld
      <3>8. Slots!Die(hosts[i].path)
        BY <1>1, <3>1, <3>6, <3>7 DEF Slots!Die, slotbar, issuedbar
      <3>9. QED
        BY <3>1, <3>8
    <2>4. CASE ~hosts[i].alive
      <3>1. [hosts[i] EXCEPT !.alive = FALSE] = hosts[i]
        BY <2>1, <2>2, <2>4 DEF host_entry
      <3>2. [hosts EXCEPT ![i].alive = FALSE] = hosts
        BY <2>1, <3>1
      <3>3. UNCHANGED <<hosts, signals>>
        BY <1>4, <2>4, <3>2 DEF WatchHeld
      <3>4. QED
        BY <1>1, <3>3, SlotFacts
    <2>5. QED
      BY <2>3, <2>4
  <1>5. QED
    BY <1>2, <1>3, <1>4 DEF host_watch_cb

-----------------------------------------------------------------------------
LEMMA SlotsInit == Init => Slots!Init
  <1> SUFFICES ASSUME Init PROVE Slots!Init
    OBVIOUS
  <1>1. DOMAIN hosts = {} /\ signals = <<>> /\ reply = [res |-> "none", id |-> 0]
    BY DEF Init
  <1>2. \A p \in Paths : SlotOf(p) = [id |-> 0, st |-> "free"]
    BY <1>1 DEF SlotOf
  <1>3. 1..(nextHostId - 1) = {}
    BY DEF Init
  <1>4. QED
    BY <1>1, <1>2, <1>3 DEF Slots!Init, Slots!Free

LEMMA SlotsNext == IInv /\ IInv' /\ [Next]_vars => [Slots!Next]_(Slots!svars)
  <1> SUFFICES ASSUME IInv, IInv', [Next]_vars PROVE [Slots!Next]_(Slots!svars)
    OBVIOUS
  <1>1. ASSUME NEW path \in Paths, launch_host_call(path) \/ adopt_host_call(path)
        PROVE  Slots!Next
    BY <1>1, LaunchSlots, AdoptSlots DEF Slots!Next
  <1>2. ASSUME NEW id \in Ids, kill_host_call(id) \/ orphan_host_call(id)
        PROVE  Slots!Next
    BY <1>2, KillSlots, OrphanSlots DEF Slots!Next, Ids
  <1>3. ASSUME UNCHANGED <<slotbar, issuedbar, signals, reply>>
        PROVE  UNCHANGED Slots!svars
    BY <1>3 DEF Slots!svars, slotbar, issuedbar
  <1>4. ASSUME NEW w \in reaped, host_watch_cb(w)
        PROVE  [Slots!Next]_(Slots!svars)
    BY <1>3, <1>4, WatchSlots DEF Slots!Next
  <1>5. ASSUME UNCHANGED <<hosts, nextHostId, signals, reply>>
        PROVE  UNCHANGED Slots!svars
    BY <1>3, <1>5, SlotFacts DEF issuedbar
  <1>6. ASSUME NEW pid \in Pids, HostDies(pid) \/ Reap(pid)
        PROVE  UNCHANGED Slots!svars
    BY <1>5, <1>6 DEF HostDies, Reap
  <1>7. CASE UNCHANGED vars
    BY <1>5, <1>7 DEF vars
  <1>8. QED
    BY <1>1, <1>2, <1>4, <1>6, <1>7 DEF Next, MainLoop, launch_method_call

(* The table of host_entry records, its linear scans, its swap-removal and  *)
(* the child watches behave, towards D-Bus clients, like one slot per       *)
(* hidraw device (launch.c:59-334), with or without pid reuse.              *)
THEOREM LauncherImplementsSlots == Spec => ImplementsSlots
  <1>1. QED
    BY SlotsInit, SlotsNext, LauncherInvariant, PTL DEF Spec, ImplementsSlots, Slots!Spec
=============================================================================
